-------------------------- MODULE CustomersProofs ---------------------------
(***************************************************************************)
(* What holds of the parts of MCCustomers for any number of customers,     *)
(* conversations, messages, files, replies and workers.                    *)
(***************************************************************************)
EXTENDS MCCustomers, SequenceTheorems, FiniteSetTheorems, FunctionTheorems, WellFoundedInduction,
        TLAPS

-----------------------------------------------------------------------------
(* The files and the rows that name them.                                   *)

WriterStates == {"ahead", "taken", "put", "named", "named late", "dropped"}
Sweeps == [at : {"idle", "read", "purged", "listed"}, stale : SUBSET Conversations,
           listed : SUBSET Uploads]
Erasures == [at : {"none", "queued", "collected", "recorded", "deleted", "removing",
                   "removed", "complete", "given up"},
             tries : Nat, keys : SUBSET Keys, left : SUBSET Keys, rowsDeleted : BOOLEAN]

FilesTyped ==
  /\ workspace \in {"active", "suspended", "deleting", "gone"}
  /\ stored \subseteq Keys /\ named \subseteq Keys /\ due \subseteq Keys
  /\ removed \subseteq due /\ aged \subseteq Uploads /\ quiet \subseteq Conversations
  /\ writer \in [Keys -> WriterStates]
  /\ sweep \in Sweeps
  /\ erasure \in Erasures

(* A file is due because a row named it, or because it was a day old and no *)
(* message did: either way nobody brings it again, so that what a pass has  *)
(* removed is gone for good.                                                *)
DueIsOver ==
  /\ \A k \in named : writer[k] \in {"named", "named late"}
  /\ \A k \in due : writer[k] \in {"named", "named late"} \/ k \in aged
  /\ \A k \in Uploads : writer[k] # "taken" /\ (k \in stored \cup aged => writer[k] # "ahead")
  /\ sweep.listed \subseteq aged
  /\ removed \cap stored = {}

(* A file a row named while the workspace was open.                         *)
Owed == {k \in stored : writer[k] = "named"}

(* Who knows of it: the rows until they are deleted, and before that        *)
(* happens the record of the erasure, which keeps what could not be removed.*)
SomebodyKnows ==
  /\ workspace # "gone" => Owed \subseteq named \cup due
  /\ workspace = "gone" => named = {} /\ due = {} /\ Owed \subseteq erasure.keys
  /\ erasure.at # "none" => workspace \in {"deleting", "gone"}
  /\ erasure.rowsDeleted \/ erasure.at \in {"deleted", "removing", "removed", "complete"}
       => workspace = "gone"
  /\ erasure.at = "collected" => Owed \subseteq erasure.left /\ workspace = "deleting"
  /\ erasure.at = "recorded" => Owed \subseteq erasure.keys /\ workspace = "deleting"
  /\ erasure.at \in {"recorded", "deleted", "removing"} => erasure.left = erasure.keys
  /\ erasure.at = "removed" => Owed \subseteq erasure.left
  /\ erasure.at = "complete" => erasure.keys = {}

FilesInv == FilesTyped /\ DueIsOver /\ SomebodyKnows

LEMMA FilesStart == FilesInit => FilesInv
BY FilesAssumption
   DEF FilesInit, FilesInv, FilesTyped, DueIsOver, SomebodyKnows, Owed, SweepIdle, NotErased,
       Sweeps, Erasures, WriterStates, Keys

LEMMA FilesTypesKept == FilesInv /\ FilesNext => FilesTyped'
<1> SUFFICES ASSUME FilesInv, FilesNext PROVE FilesTyped'
  OBVIOUS
<1> USE FilesAssumption DEF FilesInv, FilesTyped, Sweeps, Erasures, WriterStates, Keys, DueIsOver
<1>1. ASSUME NEW k \in Media, TakeMedia(k) PROVE FilesTyped'
  BY <1>1 DEF TakeMedia, Hold
<1>2. ASSUME NEW k \in Media, PutMedia(k) PROVE FilesTyped'
  BY <1>2 DEF PutMedia, Hold
<1>3. ASSUME NEW k \in Media, StoreMedia(k) PROVE FilesTyped'
  BY <1>3 DEF StoreMedia, Hold, NameIt
<1>4. ASSUME NEW k \in Media, RetryMedia(k) PROVE FilesTyped'
  BY <1>4 DEF RetryMedia, Hold
<1>5. ASSUME NEW k \in Uploads, PutUpload(k) PROVE FilesTyped'
  BY <1>5 DEF PutUpload, Hold
<1>6. ASSUME NEW k \in Uploads, SendUpload(k) PROVE FilesTyped'
  BY <1>6 DEF SendUpload, Hold, NameIt
<1>7. ASSUME NEW k \in Uploads, DropUpload(k) PROVE FilesTyped'
  BY <1>7 DEF DropUpload, Hold
<1>8. ASSUME NEW k \in Uploads, GrowOld(k) PROVE FilesTyped'
  BY <1>8 DEF GrowOld
<1>9. ASSUME NEW k \in Documents, PutDocument(k) PROVE FilesTyped'
  BY <1>9 DEF PutDocument, Hold
<1>10. ASSUME NEW k \in Documents, CreateSource(k) PROVE FilesTyped'
  BY <1>10 DEF CreateSource, Hold, NameIt
<1>11. ASSUME NEW k \in Documents, DeleteDocument(k) PROVE FilesTyped'
  BY <1>11 DEF DeleteDocument
<1>12. ASSUME NEW k \in Keys, RemoveObject(k) PROVE FilesTyped'
  BY <1>12 DEF RemoveObject
<1>13. ASSUME NEW k \in Keys, ForgetRemoval(k) PROVE FilesTyped'
  BY <1>13 DEF ForgetRemoval
<1>14. ASSUME NEW k \in Keys, DieRemoving(k) PROVE FilesTyped'
  BY <1>14 DEF DieRemoving
<1>15. ASSUME NEW c \in Conversations, FallQuiet(c) PROVE FilesTyped'
  BY <1>15 DEF FallQuiet
<1>16. CASE ReadStale
  BY <1>16 DEF ReadStale, SweepIdle, NotErased
<1>17. CASE Purge
  BY <1>17 DEF Purge, SweepIdle, NotErased
<1>18. CASE ListUploads
  BY <1>18 DEF ListUploads, SweepIdle, NotErased
<1>19. CASE QueueAbandoned
  BY <1>19 DEF QueueAbandoned, SweepIdle, NotErased
<1>20. CASE SweepDies
  BY <1>20 DEF SweepDies, SweepIdle, NotErased
<1>21. CASE Suspend
  BY <1>21 DEF Suspend, SweepIdle, NotErased
<1>22. CASE Unsuspend
  BY <1>22 DEF Unsuspend, SweepIdle, NotErased
<1>23. CASE RequestErasure
  BY <1>23 DEF RequestErasure, SweepIdle, NotErased
<1>24. CASE CollectKeys
  BY <1>24 DEF CollectKeys, SweepIdle, NotErased
<1>25. CASE RecordKeys
  BY <1>25 DEF RecordKeys, SweepIdle, NotErased
<1>26. CASE DeleteRows
  BY <1>26 DEF DeleteRows, SweepIdle, NotErased
<1>27. CASE MarkDeleted
  BY <1>27 DEF MarkDeleted, SweepIdle, NotErased
<1>28. CASE RemoveMedia
  <2>1. PICK failed \in SUBSET erasure.left :
          /\ stored' = stored \ (erasure.left \ failed)
          /\ erasure' = [erasure EXCEPT !.at = "removed", !.left = failed]
    BY <1>28 DEF RemoveMedia
  <2>2. erasure' \in Erasures
    BY <2>1
  <2> QED
    BY <1>28, <2>1, <2>2 DEF RemoveMedia
<1>29. CASE CompleteErasure
  <2>1. PICK state \in {"complete", "queued", "given up"}, n \in Nat :
          erasure' = [at |-> state, tries |-> n, keys |-> erasure.left, left |-> {},
                      rowsDeleted |-> erasure.rowsDeleted]
    <3>1. erasure.tries \in Nat
      OBVIOUS
    <3>2. erasure.tries + 1 \in Nat
      BY ONLY <3>1
    <3>3. erasure = [at |-> erasure.at, tries |-> erasure.tries, keys |-> erasure.keys,
                     left |-> erasure.left, rowsDeleted |-> erasure.rowsDeleted]
      OBVIOUS
    <3> QED
      BY <1>29, <3>2, <3>3 DEF CompleteErasure
  <2>2. erasure' \in Erasures
    BY <2>1
  <2> QED
    BY <1>29, <2>2 DEF CompleteErasure
<1>30. CASE EraserDies
  <2>1. PICK state \in {"queued", "given up"}, n \in Nat :
          erasure' = [at |-> state, tries |-> n, keys |-> erasure.keys, left |-> {},
                      rowsDeleted |-> erasure.rowsDeleted]
    <3>1. erasure.tries \in Nat
      OBVIOUS
    <3>2. erasure.tries + 1 \in Nat
      BY ONLY <3>1
    <3>3. erasure = [at |-> erasure.at, tries |-> erasure.tries, keys |-> erasure.keys,
                     left |-> erasure.left, rowsDeleted |-> erasure.rowsDeleted]
      OBVIOUS
    <3> QED
      BY <1>30, <3>2, <3>3 DEF EraserDies
  <2>2. erasure' \in Erasures
    BY <2>1
  <2> QED
    BY <1>30, <2>2 DEF EraserDies
<1> QED
  BY <1>1, <1>2, <1>3, <1>4, <1>5, <1>6, <1>7, <1>8, <1>9, <1>10, <1>11, <1>12,
     <1>13, <1>14, <1>15, <1>16, <1>17, <1>18, <1>19, <1>20, <1>21, <1>22, <1>23,
     <1>24, <1>25, <1>26, <1>27, <1>28, <1>29, <1>30 DEF FilesNext, EraserStep

LEMMA DueKept == FilesInv /\ FilesNext => DueIsOver'
<1> SUFFICES ASSUME FilesInv, FilesNext PROVE DueIsOver'
  OBVIOUS
<1> USE FilesAssumption DEF FilesInv, FilesTyped, Sweeps, Erasures, WriterStates, Keys, DueIsOver
<1>1. ASSUME NEW k \in Media, TakeMedia(k) PROVE DueIsOver'
  BY <1>1 DEF TakeMedia, Hold
<1>2. ASSUME NEW k \in Media, PutMedia(k) PROVE DueIsOver'
  BY <1>2 DEF PutMedia, Hold
<1>3. ASSUME NEW k \in Media, StoreMedia(k) PROVE DueIsOver'
  BY <1>3 DEF StoreMedia, Hold, NameIt
<1>4. ASSUME NEW k \in Media, RetryMedia(k) PROVE DueIsOver'
  BY <1>4 DEF RetryMedia, Hold
<1>5. ASSUME NEW k \in Uploads, PutUpload(k) PROVE DueIsOver'
  BY <1>5 DEF PutUpload, Hold
<1>6. ASSUME NEW k \in Uploads, SendUpload(k) PROVE DueIsOver'
  BY <1>6 DEF SendUpload, Hold, NameIt
<1>7. ASSUME NEW k \in Uploads, DropUpload(k) PROVE DueIsOver'
  BY <1>7 DEF DropUpload, Hold
<1>8. ASSUME NEW k \in Uploads, GrowOld(k) PROVE DueIsOver'
  BY <1>8 DEF GrowOld
<1>9. ASSUME NEW k \in Documents, PutDocument(k) PROVE DueIsOver'
  BY <1>9 DEF PutDocument, Hold
<1>10. ASSUME NEW k \in Documents, CreateSource(k) PROVE DueIsOver'
  BY <1>10 DEF CreateSource, Hold, NameIt
<1>11. ASSUME NEW k \in Documents, DeleteDocument(k) PROVE DueIsOver'
  BY <1>11 DEF DeleteDocument
<1>12. ASSUME NEW k \in Keys, RemoveObject(k) PROVE DueIsOver'
  BY <1>12 DEF RemoveObject
<1>13. ASSUME NEW k \in Keys, ForgetRemoval(k) PROVE DueIsOver'
  BY <1>13 DEF ForgetRemoval
<1>14. ASSUME NEW k \in Keys, DieRemoving(k) PROVE DueIsOver'
  BY <1>14 DEF DieRemoving
<1>15. ASSUME NEW c \in Conversations, FallQuiet(c) PROVE DueIsOver'
  BY <1>15 DEF FallQuiet
<1>16. CASE ReadStale
  BY <1>16 DEF ReadStale, SweepIdle, NotErased
<1>17. CASE Purge
  BY <1>17 DEF Purge, SweepIdle, NotErased
<1>18. CASE ListUploads
  BY <1>18 DEF ListUploads, SweepIdle, NotErased
<1>19. CASE QueueAbandoned
  BY <1>19 DEF QueueAbandoned, SweepIdle, NotErased
<1>20. CASE SweepDies
  BY <1>20 DEF SweepDies, SweepIdle, NotErased
<1>21. CASE Suspend
  BY <1>21 DEF Suspend, SweepIdle, NotErased
<1>22. CASE Unsuspend
  BY <1>22 DEF Unsuspend, SweepIdle, NotErased
<1>23. CASE RequestErasure
  BY <1>23 DEF RequestErasure, SweepIdle, NotErased
<1>24. CASE CollectKeys
  BY <1>24 DEF CollectKeys, SweepIdle, NotErased
<1>25. CASE RecordKeys
  BY <1>25 DEF RecordKeys, SweepIdle, NotErased
<1>26. CASE DeleteRows
  BY <1>26 DEF DeleteRows, SweepIdle, NotErased
<1>27. CASE MarkDeleted
  BY <1>27 DEF MarkDeleted, SweepIdle, NotErased
<1>28. CASE RemoveMedia
  BY <1>28 DEF RemoveMedia, SweepIdle, NotErased
<1>29. CASE CompleteErasure
  BY <1>29 DEF CompleteErasure, SweepIdle, NotErased
<1>30. CASE EraserDies
  BY <1>30 DEF EraserDies, SweepIdle, NotErased
<1> QED
  BY <1>1, <1>2, <1>3, <1>4, <1>5, <1>6, <1>7, <1>8, <1>9, <1>10, <1>11, <1>12,
     <1>13, <1>14, <1>15, <1>16, <1>17, <1>18, <1>19, <1>20, <1>21, <1>22, <1>23,
     <1>24, <1>25, <1>26, <1>27, <1>28, <1>29, <1>30 DEF FilesNext, EraserStep

LEMMA KnowingKept == FilesInv /\ FilesNext => SomebodyKnows'
<1> SUFFICES ASSUME FilesInv, FilesNext PROVE SomebodyKnows'
  OBVIOUS
<1> USE FilesAssumption DEF FilesInv, FilesTyped, Sweeps, Erasures, WriterStates, Keys, DueIsOver, SomebodyKnows, Owed
<1>1. ASSUME NEW k \in Media, TakeMedia(k) PROVE SomebodyKnows'
  BY <1>1 DEF TakeMedia, Hold
<1>2. ASSUME NEW k \in Media, PutMedia(k) PROVE SomebodyKnows'
  BY <1>2 DEF PutMedia, Hold
<1>3. ASSUME NEW k \in Media, StoreMedia(k) PROVE SomebodyKnows'
  BY <1>3 DEF StoreMedia, Hold, NameIt
<1>4. ASSUME NEW k \in Media, RetryMedia(k) PROVE SomebodyKnows'
  BY <1>4 DEF RetryMedia, Hold
<1>5. ASSUME NEW k \in Uploads, PutUpload(k) PROVE SomebodyKnows'
  BY <1>5 DEF PutUpload, Hold
<1>6. ASSUME NEW k \in Uploads, SendUpload(k) PROVE SomebodyKnows'
  BY <1>6 DEF SendUpload, Hold, NameIt
<1>7. ASSUME NEW k \in Uploads, DropUpload(k) PROVE SomebodyKnows'
  BY <1>7 DEF DropUpload, Hold
<1>8. ASSUME NEW k \in Uploads, GrowOld(k) PROVE SomebodyKnows'
  BY <1>8 DEF GrowOld
<1>9. ASSUME NEW k \in Documents, PutDocument(k) PROVE SomebodyKnows'
  BY <1>9 DEF PutDocument, Hold
<1>10. ASSUME NEW k \in Documents, CreateSource(k) PROVE SomebodyKnows'
  BY <1>10 DEF CreateSource, Hold, NameIt
<1>11. ASSUME NEW k \in Documents, DeleteDocument(k) PROVE SomebodyKnows'
  BY <1>11 DEF DeleteDocument
<1>12. ASSUME NEW k \in Keys, RemoveObject(k) PROVE SomebodyKnows'
  BY <1>12 DEF RemoveObject
<1>13. ASSUME NEW k \in Keys, ForgetRemoval(k) PROVE SomebodyKnows'
  BY <1>13 DEF ForgetRemoval
<1>14. ASSUME NEW k \in Keys, DieRemoving(k) PROVE SomebodyKnows'
  BY <1>14 DEF DieRemoving
<1>15. ASSUME NEW c \in Conversations, FallQuiet(c) PROVE SomebodyKnows'
  BY <1>15 DEF FallQuiet
<1>16. CASE ReadStale
  BY <1>16 DEF ReadStale, SweepIdle, NotErased
<1>17. CASE Purge
  BY <1>17 DEF Purge, SweepIdle, NotErased
<1>18. CASE ListUploads
  BY <1>18 DEF ListUploads, SweepIdle, NotErased
<1>19. CASE QueueAbandoned
  BY <1>19 DEF QueueAbandoned, SweepIdle, NotErased
<1>20. CASE SweepDies
  BY <1>20 DEF SweepDies, SweepIdle, NotErased
<1>21. CASE Suspend
  BY <1>21 DEF Suspend, SweepIdle, NotErased
<1>22. CASE Unsuspend
  BY <1>22 DEF Unsuspend, SweepIdle, NotErased
<1>23. CASE RequestErasure
  BY <1>23 DEF RequestErasure, SweepIdle, NotErased
<1>24. CASE CollectKeys
  BY <1>24 DEF CollectKeys, SweepIdle, NotErased
<1>25. CASE RecordKeys
  BY <1>25 DEF RecordKeys, SweepIdle, NotErased
<1>26. CASE DeleteRows
  BY <1>26 DEF DeleteRows, SweepIdle, NotErased
<1>27. CASE MarkDeleted
  BY <1>27 DEF MarkDeleted, SweepIdle, NotErased
<1>28. CASE RemoveMedia
  BY <1>28 DEF RemoveMedia, SweepIdle, NotErased
<1>29. CASE CompleteErasure
  BY <1>29 DEF CompleteErasure, SweepIdle, NotErased
<1>30. CASE EraserDies
  BY <1>30 DEF EraserDies, SweepIdle, NotErased
<1> QED
  BY <1>1, <1>2, <1>3, <1>4, <1>5, <1>6, <1>7, <1>8, <1>9, <1>10, <1>11, <1>12,
     <1>13, <1>14, <1>15, <1>16, <1>17, <1>18, <1>19, <1>20, <1>21, <1>22, <1>23,
     <1>24, <1>25, <1>26, <1>27, <1>28, <1>29, <1>30 DEF FilesNext, EraserStep

LEMMA FilesInvHolds == FilesSpec => []FilesInv
<1>1. FilesInv /\ UNCHANGED files => FilesInv'
  BY DEF files, FilesInv, FilesTyped, DueIsOver, SomebodyKnows, Owed
<1>2. FilesInv /\ FilesNext => FilesInv'
  BY FilesTypesKept, DueKept, KnowingKept DEF FilesInv
<1> QED
  BY <1>1, <1>2, FilesStart, PTL DEF FilesSpec

LEMMA FilesTypes == FilesInv => FilesTypeOK
BY DEF FilesInv, FilesTyped, FilesTypeOK, Sweeps, Erasures, WriterStates

(* A stored file that some row named while the workspace was open is named  *)
(* still, due for removal or on the record of the erasure, whatever dies    *)
(* between the steps of those who bring, sweep and erase.                   *)
THEOREM SomebodyKnowsOfAFile == FilesSpec => []FilesAreAccountedFor
<1>1. FilesInv => FilesAreAccountedFor
  BY DEF FilesInv, SomebodyKnows, Owed, FilesAreAccountedFor
<1> QED
  BY <1>1, FilesInvHolds, PTL

(* An erasure that is complete has removed every such file.                 *)
THEOREM CompleteErasureIsThorough == FilesSpec => []ErasureRemovesFiles
<1>1. FilesInv => ErasureRemovesFiles
  BY DEF FilesInv, SomebodyKnows, Owed, ErasureRemovesFiles
<1> QED
  BY <1>1, FilesInvHolds, PTL

-----------------------------------------------------------------------------
(* What the AI wrote and who has read it.                                   *)

Opinions == [rating : {"none", "up", "down"}, reason : BOOLEAN]
ReplyRows == [at : {"none", "begun", "storing", "stored", "withdrawn"}, created : Nat]
PressStates == {"sent", "rated", "waiting", "answered", "failed", "over"}
PressRows == [kind : {"rate", "withdraw", "review"}, opinion : Opinions, at : PressStates,
              time : Nat, unbegun : SUBSET Replies]

ReviewTyped ==
  /\ clock \in Nat /\ reviewed \in Nat
  /\ wrote \in [Replies -> ReplyRows]
  /\ spoken \in BOOLEAN /\ handed \in BOOLEAN
  /\ later \subseteq Replies /\ shown \subseteq Stored
  /\ opinion \in Opinions
  /\ presses \in Seq(PressRows)
  /\ thumbs \in [mine : Opinions, asking : BOOLEAN]

(* Times are in the order of the steps that took them: what had not begun   *)
(* when a review took its time is newer than that time, whether the review  *)
(* still waits for the row or has been recorded.                            *)
Aged ==
  /\ reviewed < clock
  /\ \A r \in Replies : wrote[r].at # "none" => wrote[r].created < clock
  /\ \A r \in later : wrote[r].at # "none" => wrote[r].created > reviewed
WaitingAged ==
  \A i \in DOMAIN presses : presses[i].at = "waiting" =>
    /\ presses[i].time < clock
    /\ \A r \in presses[i].unbegun : wrote[r].at # "none" => wrote[r].created > presses[i].time

ReviewInv == ReviewTyped /\ Aged /\ WaitingAged

LEMMA ReviewStart == ReviewInit => ReviewInv
<1> SUFFICES ASSUME ReviewInit PROVE ReviewInv
  OBVIOUS
<1>1. presses \in Seq(PressRows) /\ DOMAIN presses = {}
  BY DEF ReviewInit
<1>2. NoOpinion \in Opinions
  BY DEF NoOpinion, Opinions
<1>3. wrote \in [Replies -> ReplyRows] /\ \A r \in Replies : wrote[r].at = "none"
  BY DEF ReviewInit, ReplyRows
<1>4. thumbs \in [mine : Opinions, asking : BOOLEAN]
  BY <1>2 DEF ReviewInit
<1>5. ReviewTyped
  BY <1>1, <1>2, <1>3, <1>4 DEF ReviewInit, ReviewTyped
<1>6. Aged /\ WaitingAged
  BY <1>1, <1>3 DEF ReviewInit, Aged, WaitingAged
<1> QED
  BY <1>5, <1>6 DEF ReviewInv

(* A reply goes on, and no request does.                                    *)
LEMMA RepliesGoOn ==
  ASSUME ReviewInv, Conversing, UNCHANGED later,
         clock' \in Nat, clock' >= clock, spoken' \in BOOLEAN, handed' \in BOOLEAN,
         wrote' \in [Replies -> ReplyRows],
         \A r \in Replies : wrote[r].at = "stored" => wrote'[r].at = "stored",
         \A r \in Replies : wrote'[r].at # "none" =>
           \/ wrote[r].at # "none" /\ wrote'[r].created = wrote[r].created
           \/ wrote'[r].created = clock /\ clock' > clock
  PROVE  ReviewInv'
<1> USE DEF ReviewInv, Conversing
<1>1. ReviewTyped'
  BY DEF ReviewTyped, Stored
<1>2. /\ clock \in Nat /\ reviewed \in Nat /\ UNCHANGED <<reviewed, later, presses>>
      /\ later \subseteq Replies
      /\ \A r \in Replies : wrote[r].created \in Nat /\ wrote'[r].created \in Nat
  BY DEF ReviewTyped, ReplyRows
<1>3. Aged'
  BY <1>2 DEF Aged
<1>4. WaitingAged'
  <2> SUFFICES ASSUME NEW i \in DOMAIN presses, presses[i].at = "waiting"
               PROVE  /\ presses[i].time < clock'
                      /\ \A r \in presses[i].unbegun :
                           wrote'[r].at # "none" => wrote'[r].created > presses[i].time
    BY <1>2 DEF WaitingAged
  <2>1. presses[i] \in PressRows
    BY ElementOfSeq DEF ReviewTyped
  <2>2. presses[i].time \in Nat /\ presses[i].unbegun \subseteq Replies
    BY <2>1 DEF PressRows
  <2>3. presses[i].time < clock
    BY DEF WaitingAged
  <2> QED
    BY <1>2, <2>2, <2>3 DEF WaitingAged
<1> QED
  BY <1>1, <1>3, <1>4

LEMMA RepliesKept ==
  ReviewInv
    /\ (\/ PersonWrites \/ HandOver
        \/ \E r \in Replies : BeginReply(r) \/ LockConversation(r) \/ CommitReply(r)
                                \/ AbandonReply(r)) => ReviewInv'
<1> SUFFICES ASSUME ReviewInv,
                    \/ PersonWrites \/ HandOver
                    \/ \E r \in Replies : BeginReply(r) \/ LockConversation(r) \/ CommitReply(r)
                                            \/ AbandonReply(r)
             PROVE  ReviewInv'
  OBVIOUS
<1>t. clock \in Nat /\ clock >= clock /\ clock + 1 \in Nat /\ clock + 1 > clock
  BY DEF ReviewInv, ReviewTyped
<1>w. wrote \in [Replies -> ReplyRows] /\ spoken \in BOOLEAN /\ handed \in BOOLEAN
  BY DEF ReviewInv, ReviewTyped
<1>1. CASE PersonWrites
  BY <1>1, <1>t, <1>w, RepliesGoOn DEF PersonWrites
<1>2. CASE HandOver
  BY <1>2, <1>t, <1>w, RepliesGoOn DEF HandOver
<1>3. ASSUME NEW r \in Replies, BeginReply(r) PROVE ReviewInv'
  <2>1. wrote' \in [Replies -> ReplyRows]
    BY <1>3, <1>t, <1>w DEF BeginReply, ReplyRows
  <2>2. \A q \in Replies : wrote'[q] = IF q = r THEN [at |-> "begun", created |-> clock] ELSE wrote[q]
    BY <1>3, <1>w DEF BeginReply
  <2> QED
    BY <1>3, <1>t, <1>w, <2>1, <2>2, RepliesGoOn DEF BeginReply
<1>4. ASSUME NEW r \in Replies, LockConversation(r) \/ CommitReply(r) \/ AbandonReply(r)
      PROVE  ReviewInv'
  <2>1. PICK s \in {"storing", "stored", "withdrawn"} : wrote' = [wrote EXCEPT ![r].at = s]
    BY <1>4 DEF LockConversation, CommitReply, AbandonReply
  <2>2. wrote[r].at \notin {"none", "stored"}
    BY <1>4 DEF LockConversation, CommitReply, AbandonReply
  <2>3. wrote' \in [Replies -> ReplyRows]
    BY <1>w, <2>1 DEF ReplyRows
  <2>4. \A q \in Replies : /\ wrote'[q].created = wrote[q].created
                           /\ q # r => wrote'[q].at = wrote[q].at
    BY <1>w, <2>1 DEF ReplyRows
  <2>5. Conversing /\ UNCHANGED <<clock, spoken, handed, later>>
    BY <1>4 DEF LockConversation, CommitReply, AbandonReply
  <2> QED
    BY <1>t, <1>w, <2>2, <2>3, <2>4, <2>5, RepliesGoOn
<1> QED
  BY <1>1, <1>2, <1>3, <1>4

(* The agent presses, or a request goes on to a state that waits for        *)
(* nothing.                                                                 *)
LEMMA PressesKept ==
  ASSUME ReviewInv, UNCHANGED <<clock, wrote, spoken, handed, reviewed, later, shown>>,
         opinion' \in Opinions, thumbs' \in [mine : Opinions, asking : BOOLEAN],
         presses' \in Seq(PressRows),
         \A i \in DOMAIN presses' : presses'[i].at = "waiting" =>
            i \in DOMAIN presses /\ presses'[i] = presses[i]
  PROVE  ReviewInv'
<1>1. ReviewTyped'
  BY DEF ReviewInv, ReviewTyped, Stored
<1>2. Aged'
  BY DEF ReviewInv, Aged
<1>3. WaitingAged'
  BY DEF ReviewInv, WaitingAged
<1> QED
  BY <1>1, <1>2, <1>3 DEF ReviewInv

LEMMA PressKept ==
  ASSUME ReviewInv, NEW kind \in {"rate", "withdraw", "review"}, NEW o \in Opinions,
         Press(kind, o), thumbs' \in [mine : Opinions, asking : BOOLEAN]
  PROVE  ReviewInv'
<1> DEFINE p == [kind |-> kind, opinion |-> o, at |-> "sent", time |-> 0, unbegun |-> {}]
<1>1. p \in PressRows /\ p.at = "sent"
  BY DEF PressRows, PressStates
<1>2. presses' = Append(presses, p)
  BY DEF Press
<1> HIDE DEF p
<1>3. presses \in Seq(PressRows) /\ opinion \in Opinions
  BY DEF ReviewInv, ReviewTyped
<1>4. presses' \in Seq(PressRows)
  BY <1>1, <1>2, <1>3, AppendProperties
<1>5. \A i \in DOMAIN presses' : (i \in DOMAIN presses /\ presses'[i] = presses[i]) \/ presses'[i] = p
  BY <1>1, <1>2, <1>3, AppendProperties, LenProperties
<1> QED
  BY <1>1, <1>3, <1>4, <1>5, PressesKept DEF Press

LEMMA ReachKept ==
  ASSUME ReviewInv, NEW i \in DOMAIN presses, NEW s \in PressStates \ {"waiting"}, Reach(i, s)
  PROVE  /\ presses' \in Seq(PressRows)
         /\ \A j \in DOMAIN presses' : presses'[j].at = "waiting" =>
              j \in DOMAIN presses /\ presses'[j] = presses[j]
<1>1. presses \in Seq(PressRows)
  BY DEF ReviewInv, ReviewTyped
<1>2. presses[i] \in PressRows
  BY <1>1, ElementOfSeq
<1>3. [presses[i] EXCEPT !.at = s] \in PressRows /\ [presses[i] EXCEPT !.at = s].at = s
  BY <1>2 DEF PressRows
<1>4. presses' = [presses EXCEPT ![i] = [presses[i] EXCEPT !.at = s]]
  BY DEF Reach
<1> QED
  BY <1>1, <1>3, <1>4, ExceptSeq

LEMMA AgentKept ==
  ReviewInv /\ (\/ SaveReason \/ SkipReason \/ PressReviewed
                \/ \E rating \in {"up", "down"} : PressThumb(rating)) => ReviewInv'
<1> SUFFICES ASSUME ReviewInv,
                    \/ SaveReason \/ SkipReason \/ PressReviewed
                    \/ \E rating \in {"up", "down"} : PressThumb(rating)
             PROVE  ReviewInv'
  OBVIOUS
<1>1. thumbs \in [mine : Opinions, asking : BOOLEAN] /\ opinion \in Opinions
  BY DEF ReviewInv, ReviewTyped
<1>2. \A flag \in BOOLEAN : [thumbs EXCEPT !.asking = flag] \in [mine : Opinions, asking : BOOLEAN]
  BY <1>1
<1>3. NoOpinion \in Opinions /\ \A flag \in BOOLEAN, g \in {"up", "down"} : Opinion(g, flag) \in Opinions
  BY DEF NoOpinion, Opinion, Opinions
<1>4. CASE SaveReason
  BY <1>2, <1>3, <1>4, PressKept DEF SaveReason
<1>5. CASE SkipReason
  <2>1. UNCHANGED presses /\ presses \in Seq(PressRows)
    BY <1>5 DEF SkipReason, ReviewInv, ReviewTyped
  <2> QED
    BY <1>1, <1>2, <1>5, <2>1, PressesKept DEF SkipReason
<1>6. CASE PressReviewed
  BY <1>1, <1>3, <1>6, PressKept DEF PressReviewed
<1>7. ASSUME NEW rating \in {"up", "down"}, PressThumb(rating) PROVE ReviewInv'
  <2>1. (rating = "down") \in BOOLEAN
    OBVIOUS
  <2> QED
    BY <1>2, <1>3, <1>7, <2>1, PressKept DEF PressThumb
<1> QED
  BY <1>4, <1>5, <1>6, <1>7

LEMMA RoutesKept ==
  ReviewInv /\ (\E i \in DOMAIN presses :
                  Upsert(i) \/ Withdraw(i) \/ PressFails(i) \/ ReadAgain(i)) => ReviewInv'
<1> SUFFICES ASSUME ReviewInv, NEW i \in DOMAIN presses,
                    Upsert(i) \/ Withdraw(i) \/ PressFails(i) \/ ReadAgain(i)
             PROVE  ReviewInv'
  OBVIOUS
<1>1. thumbs \in [mine : Opinions, asking : BOOLEAN] /\ opinion \in Opinions
  BY DEF ReviewInv, ReviewTyped
<1>2. presses[i] \in PressRows
  BY ElementOfSeq DEF ReviewInv, ReviewTyped
<1>3. NoOpinion \in Opinions /\ presses[i].opinion \in Opinions
  BY <1>2 DEF NoOpinion, Opinions, PressRows
<1>4. PICK s \in PressStates \ {"waiting"} : Reach(i, s)
  BY DEF Upsert, Withdraw, PressFails, ReadAgain, PressStates
<1>5. opinion' \in Opinions /\ thumbs' \in [mine : Opinions, asking : BOOLEAN]
  BY <1>1, <1>3 DEF Upsert, Withdraw, PressFails, ReadAgain
<1>6. UNCHANGED <<clock, wrote, spoken, handed, reviewed, later, shown>>
  BY DEF Upsert, Withdraw, PressFails, ReadAgain
<1> QED
  BY <1>4, <1>5, <1>6, ReachKept, PressesKept

LEMMA BeginReviewKept ==
  ReviewInv /\ (\E i \in DOMAIN presses : BeginReview(i)) => ReviewInv'
<1> SUFFICES ASSUME ReviewInv, NEW i \in DOMAIN presses, BeginReview(i) PROVE ReviewInv'
  OBVIOUS
<1> DEFINE none == {r \in Replies : wrote[r].at = "none"}
           p == [presses[i] EXCEPT !.at = "waiting", !.time = clock, !.unbegun = none]
<1>1. presses \in Seq(PressRows) /\ clock \in Nat
  BY DEF ReviewInv, ReviewTyped
<1>2. presses[i] \in PressRows
  BY <1>1, ElementOfSeq
<1>3. p \in PressRows /\ p.time = clock /\ p.unbegun = none
  BY <1>1, <1>2 DEF PressRows, PressStates
<1>4. presses' = [presses EXCEPT ![i] = p]
  BY DEF BeginReview, ReviewedAt
<1> HIDE DEF p
<1>5. /\ presses' \in Seq(PressRows) /\ DOMAIN presses' = DOMAIN presses
      /\ \A j \in DOMAIN presses : presses'[j] = IF j = i THEN p ELSE presses[j]
  BY <1>1, <1>3, <1>4, ExceptSeq
<1>6. ReviewTyped'
  <2>1. clock' \in Nat
    BY <1>1 DEF BeginReview
  <2>2. Stored' = Stored
    BY DEF BeginReview, Stored
  <2> QED
    BY <1>5, <2>1, <2>2 DEF BeginReview, ReviewInv, ReviewTyped
<1>7. Aged'
  BY <1>1 DEF BeginReview, ReviewInv, ReviewTyped, Aged, ReplyRows
<1>8. WaitingAged'
  <2> SUFFICES ASSUME NEW j \in DOMAIN presses, presses'[j].at = "waiting"
               PROVE  /\ presses'[j].time < clock'
                      /\ \A r \in presses'[j].unbegun :
                           wrote'[r].at # "none" => wrote'[r].created > presses'[j].time
    BY <1>5 DEF WaitingAged
  <2>1. clock' = clock + 1 /\ wrote' = wrote
    BY DEF BeginReview
  <2>2. CASE j = i
    BY <1>1, <1>3, <1>5, <2>1, <2>2
  <2>3. CASE j # i
    <3>1. presses'[j] = presses[j] /\ presses[j] \in PressRows
      BY <1>1, <1>5, <2>3, ElementOfSeq
    <3>2. presses[j].time \in Nat
      BY <3>1 DEF PressRows
    <3> QED
      BY <1>1, <2>1, <3>1, <3>2 DEF ReviewInv, WaitingAged
  <2> QED
    BY <2>2, <2>3
<1> QED
  BY <1>6, <1>7, <1>8 DEF ReviewInv

LEMMA MarkReviewedKept ==
  ReviewInv /\ (\E i \in DOMAIN presses : MarkReviewed(i)) => ReviewInv'
<1> SUFFICES ASSUME ReviewInv, NEW i \in DOMAIN presses, MarkReviewed(i) PROVE ReviewInv'
  OBVIOUS
<1>1. presses[i] \in PressRows
  BY ElementOfSeq DEF ReviewInv, ReviewTyped
<1>2. presses[i].time \in Nat /\ presses[i].unbegun \subseteq Replies
  BY <1>1 DEF PressRows
<1>3. /\ presses' \in Seq(PressRows)
      /\ \A j \in DOMAIN presses' : presses'[j].at = "waiting" =>
           j \in DOMAIN presses /\ presses'[j] = presses[j]
  BY ReachKept DEF MarkReviewed, PressStates
<1>4. ReviewTyped'
  BY <1>2, <1>3 DEF MarkReviewed, ReviewInv, ReviewTyped, Stored
<1>5. Aged'
  BY <1>2 DEF MarkReviewed, ReviewInv, ReviewTyped, Aged, WaitingAged
<1>6. WaitingAged'
  BY <1>3 DEF MarkReviewed, ReviewInv, WaitingAged
<1> QED
  BY <1>4, <1>5, <1>6 DEF ReviewInv

LEMMA ReviewInvHolds == ReviewSpec => []ReviewInv
<1>1. ReviewInv /\ UNCHANGED review => ReviewInv'
  BY DEF review, ReviewInv, ReviewTyped, Aged, WaitingAged, Stored
<1>2. ReviewInv /\ ReviewNext => ReviewInv'
  BY RepliesKept, AgentKept, RoutesKept, BeginReviewKept, MarkReviewedKept DEF ReviewNext
<1> QED
  BY <1>1, <1>2, ReviewStart, PTL DEF ReviewSpec

LEMMA ReviewTypes == ReviewInv => ReviewTypeOK
<1> SUFFICES ASSUME ReviewInv PROVE ReviewTypeOK
  OBVIOUS
<1>1. \A i \in DOMAIN presses : presses[i] \in PressRows
  BY ElementOfSeq DEF ReviewInv, ReviewTyped
<1> QED
  BY <1>1 DEF ReviewInv, ReviewTyped, ReviewTypeOK, PressRows, PressStates, ReplyRows, Opinions

(* A reply begun after a review is to be read, however long the review      *)
(* waited for the row and however many of them there are.                   *)
THEOREM LaterRepliesComeBack == ReviewSpec => []LaterRepliesAreRead
<1>1. ReviewInv => LaterRepliesAreRead
  BY DEF ReviewInv, ReviewTyped, Aged, LaterRepliesAreRead, InReviewQueue, Stored
<1> QED
  BY <1>1, ReviewInvHolds, PTL

-----------------------------------------------------------------------------
(* What is remembered of a customer.                                        *)

TaskRows == [at : {"none", "waiting", "read", "think", "index", "advance", "failed"},
             tries : 0 .. MaxAttempts, from : SUBSET MessageIds, rows : SUBSET MessageIds]

MemoryTyped ==
  /\ told \in [Threads -> SUBSET MessageIds] /\ unsaid \in [Threads -> SUBSET MessageIds]
  /\ summary \subseteq MessageIds
  /\ recall \in [MessageIds -> Nat] /\ through \in [Threads -> 0 .. MaxMessages]
  /\ task \in [Threads -> TaskRows]
  /\ stops \in 0 .. MaxStops /\ overlapped \in BOOLEAN /\ leftOut \subseteq MessageIds

(* Every id was given to one message.                                       *)
Begun == UNION {told[t] \cup unsaid[t] : t \in Threads}
IdsAreGivenOnce ==
  /\ \E n \in 0 .. MaxMessages : Begun = 1 .. n
  /\ \A t \in Threads : told[t] \cap unsaid[t] = {}

(* The watermark and what a job has read are messages of the conversation.  *)
Told ==
  \A t \in Threads :
    /\ through[t] \in told[t] \cup {0}
    /\ task[t].rows \subseteq told[t]
    /\ task[t].at \in {"think", "index", "advance"} <=> task[t].rows # {}

(* What a job has not read though a newer message of it was: behind the     *)
(* watermark it will be, and the summary has it, or somebody left it out.   *)
UpToRead(t) == {i \in told[t] : \E j \in task[t].rows : i <= j}

(* As long as no two summaries of the customer were made at once.           *)
OneAfterTheOther ==
  ~overlapped =>
    /\ \A t, u \in Threads : Summarising(t) /\ Summarising(u) => t = u
    /\ \A t \in Threads : task[t].at \in {"read", "think"} => task[t].from = summary
    /\ \A t \in Threads : task[t].at \in {"index", "advance"} => task[t].rows \subseteq summary
    /\ \A t \in Threads : UpToRead(t) \ leftOut \subseteq summary \cup task[t].rows
    /\ NothingIsForgotten

MemoryInv == MemoryTyped /\ IdsAreGivenOnce /\ Told /\ OneAfterTheOther

(* A set of ids that has one has a newest.                                  *)
LEMMA NewestIsThere ==
  ASSUME NEW n \in Nat, NEW S \in SUBSET (0 .. n), S # {}
  PROVE  Max(S) \in S /\ \A x \in S : Max(S) >= x
<1> DEFINE Below == OpToRel(<, Nat)
           T == {n - x : x \in S}
<1>1. IsWellFoundedOn(Below, Nat)
  BY NatLessThanWellFounded
<1>2. \A x, y \in Nat : x < y => <<x, y>> \in Below
  BY DEF OpToRel
<1> HIDE DEF Below
<1>3. T \subseteq Nat /\ T # {}
  <2>1. \A x \in S : n - x \in Nat
    OBVIOUS
  <2> QED BY <2>1
<1>4. PICK least \in T : \A y \in T : ~ (<<y, least>> \in Below)
  BY <1>1, <1>3, WFMin
<1>5. \A y \in T : least <= y
  <2> SUFFICES ASSUME NEW y \in T PROVE least <= y
    OBVIOUS
  <2>1. y \in Nat /\ least \in Nat
    BY <1>3
  <2>2. ~ (y < least)
    BY <1>2, <1>4, <2>1
  <2> QED
    BY <2>1, <2>2
<1>6. PICK x \in S : least = n - x
  BY <1>4
<1>7. \A y \in S : x >= y
  BY <1>5, <1>6
<1>8. \E z \in S : \A y \in S : z >= y
  BY <1>7
<1> QED
  BY <1>8 DEF Max

(* A job that does nothing, for now or any more, has nothing in its hands.  *)
Resting == {row \in TaskRows : row.at \in {"none", "waiting", "failed"} /\ row.rows = {}}

LEMMA NoTaskRests ==
  /\ NoTask \in Resting /\ [NoTask EXCEPT !.at = "failed"] \in Resting
  /\ \A n \in 0 .. MaxAttempts : [NoTask EXCEPT !.at = "waiting", !.tries = n] \in Resting
<1>1. 0 \in 0 .. MaxAttempts
  BY MemoryAssumption
<1> QED
  BY <1>1 DEF NoTask, Resting, TaskRows

LEMMA MemoryStart == MemoryInit => MemoryInv
<1> SUFFICES ASSUME MemoryInit PROVE MemoryInv
  OBVIOUS
<1> USE MemoryAssumption DEF MemoryInit
<1>1. MemoryTyped
  <2>1. 0 \in 0 .. MaxMessages /\ 0 \in 0 .. MaxStops
    OBVIOUS
  <2>2. NoTask \in TaskRows
    BY NoTaskRests DEF Resting
  <2> HIDE MemoryAssumption
  <2> QED
    BY <2>1, <2>2 DEF MemoryTyped
<1>2. IdsAreGivenOnce
  <2>1. Begun = 1 .. 0
    BY DEF Begun
  <2> QED
    BY <2>1 DEF IdsAreGivenOnce
<1>3. Told
  BY DEF Told, NoTask
<1>4. OneAfterTheOther
  BY DEF OneAfterTheOther, UpToRead, NothingIsForgotten, Covered, NoTask, Summarising
<1> QED
  BY <1>1, <1>2, <1>3, <1>4 DEF MemoryInv

LEMMA RestKept ==
  ASSUME MemoryInv, NEW t \in Threads, NEW row \in Resting, task' = [task EXCEPT ![t] = row],
         UNCHANGED <<told, unsaid, summary, recall, through, overlapped>>,
         stops' \in 0 .. MaxStops, leftOut' \subseteq MessageIds, leftOut \subseteq leftOut'
  PROVE  MemoryInv'
<1>1. /\ task \in [Threads -> TaskRows] /\ row \in TaskRows /\ row.rows = {}
      /\ row.at \in {"none", "waiting", "failed"}
  BY DEF MemoryInv, MemoryTyped, Resting
<1>2. \A u \in Threads : task'[u] = IF u = t THEN row ELSE task[u]
  BY <1>1
<1>3. MemoryTyped'
  BY <1>1 DEF MemoryInv, MemoryTyped
<1>4. IdsAreGivenOnce'
  BY DEF MemoryInv, IdsAreGivenOnce, Begun
<1>5. Told'
  BY <1>1, <1>2 DEF MemoryInv, Told
<1>6. OneAfterTheOther'
  BY <1>1, <1>2
     DEF MemoryInv, OneAfterTheOther, UpToRead, NothingIsForgotten, Covered, Summarising
<1> QED
  BY <1>3, <1>4, <1>5, <1>6 DEF MemoryInv

LEMMA RestingKept ==
  ASSUME MemoryInv, NEW t \in Threads,
         \/ Resolve(t) \/ KeepSummary(t) \/ EmbeddingFails(t) \/ ForgetFailure(t) \/ StopWorker(t)
         \/ ReadMessages(t) /\ Unread(t) = {}
  PROVE  MemoryInv'
<1>1. /\ task \in [Threads -> TaskRows] /\ leftOut \subseteq MessageIds
      /\ stops \in 0 .. MaxStops /\ MaxStops \in Nat
  BY MemoryAssumption DEF MemoryInv, MemoryTyped
<1>2. task[t].tries \in 0 .. MaxAttempts /\ MaxAttempts \in Nat
  BY <1>1, MemoryAssumption DEF TaskRows
<1>3. CASE Resolve(t)
  <2>1. [task[t] EXCEPT !.at = "waiting"] \in Resting
    BY <1>1, <1>3 DEF Resolve, Resting, TaskRows, MemoryInv, Told
  <2>2. task' = [task EXCEPT ![t] = [task[t] EXCEPT !.at = "waiting"]]
    BY <1>3 DEF Resolve, Goto
  <2> QED
    BY <1>1, <1>3, <2>1, <2>2, RestKept DEF Resolve
<1>4. CASE KeepSummary(t) \/ ForgetFailure(t)
  BY <1>1, <1>4, RestKept, NoTaskRests DEF KeepSummary, ForgetFailure, Complete
<1>5. CASE EmbeddingFails(t)
  <2>1. CASE task[t].tries + 1 < MaxAttempts
    <3>1. task[t].tries + 1 \in 0 .. MaxAttempts
      BY <1>2, <2>1
    <3>2. task' = [task EXCEPT ![t] = [NoTask EXCEPT !.at = "waiting", !.tries = task[t].tries + 1]]
      BY <1>5, <2>1 DEF EmbeddingFails
    <3>3. [NoTask EXCEPT !.at = "waiting", !.tries = task[t].tries + 1] \in Resting
      BY <3>1, NoTaskRests
    <3> QED
      BY <1>1, <1>5, <3>2, <3>3, RestKept DEF EmbeddingFails
  <2>2. CASE ~(task[t].tries + 1 < MaxAttempts)
    <3>1. task' = [task EXCEPT ![t] = [NoTask EXCEPT !.at = "failed"]]
      BY <1>5, <2>2 DEF EmbeddingFails
    <3> QED
      BY <1>1, <1>5, <3>1, RestKept, NoTaskRests DEF EmbeddingFails
  <2> QED
    BY <2>1, <2>2
<1>6. CASE StopWorker(t)
  <2>1. stops' \in 0 .. MaxStops
    BY <1>1, <1>6 DEF StopWorker
  <2>2. [NoTask EXCEPT !.at = "waiting", !.tries = task[t].tries] \in Resting
    BY <1>2, NoTaskRests
  <2> QED
    BY <1>1, <1>6, <2>1, <2>2, RestKept DEF StopWorker
<1>7. CASE ReadMessages(t) /\ Unread(t) = {}
  <2>1. leftOut' = leftOut
    BY <1>7 DEF ReadMessages
  <2> QED
    BY <1>1, <1>7, <2>1, RestKept, NoTaskRests DEF ReadMessages, Complete
<1> QED
  BY <1>3, <1>4, <1>5, <1>6, <1>7

LEMMA BeginMessageKept ==
  ASSUME MemoryInv, NEW t \in Threads, BeginMessage(t)
  PROVE  MemoryInv'
<1>1. PICK n \in 0 .. MaxMessages : Begun = 1 .. n
  BY DEF MemoryInv, IdsAreGivenOnce
<1>2. n \in Nat /\ MaxMessages \in Nat
  BY MemoryAssumption
<1>3. Cardinality(1 .. n) = n
  BY <1>2, FS_Interval
<1>4. n + 1 <= MaxMessages /\ unsaid' = [unsaid EXCEPT ![t] = @ \cup {n + 1}]
  BY <1>1, <1>3 DEF BeginMessage, Begun
<1>5. unsaid \in [Threads -> SUBSET MessageIds] /\ n + 1 \in MessageIds /\ n + 1 \notin Begun
  BY <1>1, <1>2, <1>4 DEF MemoryInv, MemoryTyped, MessageIds
<1>6. MemoryTyped'
  BY <1>4, <1>5 DEF MemoryInv, MemoryTyped, BeginMessage
<1>7. IdsAreGivenOnce'
  <2>1. Begun' = Begun \cup {n + 1}
    BY <1>4, <1>5 DEF Begun, BeginMessage
  <2>2. Begun' = 1 .. n + 1 /\ n + 1 \in 0 .. MaxMessages
    BY <1>1, <1>2, <1>4, <2>1
  <2>3. \A u \in Threads : told'[u] \cap unsaid'[u] = {}
    BY <1>4, <1>5 DEF MemoryInv, IdsAreGivenOnce, BeginMessage, Begun
  <2> QED
    BY <2>2, <2>3 DEF IdsAreGivenOnce
<1>8. Told' /\ OneAfterTheOther'
  BY DEF MemoryInv, Told, OneAfterTheOther, UpToRead, NothingIsForgotten, Covered, Summarising,
         BeginMessage
<1> QED
  BY <1>6, <1>7, <1>8 DEF MemoryInv

(* What is committed behind what was read is left out, and nothing else.    *)
LEMMA CommitMessageKept ==
  ASSUME MemoryInv, NEW t \in Threads, NEW i \in unsaid[t], CommitMessage(t, i)
  PROVE  MemoryInv'
<1> DEFINE read == task[t].rows \cup {through[t]}
<1>1. /\ MaxMessages \in Nat /\ i \in MessageIds /\ i \notin told[t]
      /\ told \in [Threads -> SUBSET MessageIds] /\ unsaid \in [Threads -> SUBSET MessageIds]
  BY MemoryAssumption DEF MemoryInv, MemoryTyped, IdsAreGivenOnce
<1>2. read \subseteq told[t] \cup {0} /\ read \in SUBSET (0 .. MaxMessages) /\ read # {}
  BY <1>1 DEF MemoryInv, Told, MessageIds
<1>3. \A j \in read : Max(read) >= j /\ Max(read) \in read
  BY <1>1, <1>2, NewestIsThere
<1>4. /\ told' = [told EXCEPT ![t] = @ \cup {i}] /\ unsaid' = [unsaid EXCEPT ![t] = @ \ {i}]
      /\ leftOut' = IF i < Max(read) THEN leftOut \cup {i} ELSE leftOut
      /\ UNCHANGED <<summary, recall, through, task, stops, overlapped>>
  BY DEF CommitMessage
<1> HIDE DEF read
<1>5. leftOut \subseteq leftOut' /\ \A j \in read : i <= j => i \in leftOut'
  <2> SUFFICES ASSUME NEW j \in read, i <= j PROVE i \in leftOut'
    BY <1>4
  <2>1. Max(read) >= j /\ i # Max(read) /\ Max(read) \in Nat /\ i \in Nat /\ j \in Nat
    <3>1. Max(read) >= j /\ Max(read) \in read
      BY <1>3
    <3>2. Max(read) \in told[t] \cup {0} /\ Max(read) \in 0 .. MaxMessages /\ j \in 0 .. MaxMessages
      BY <1>2, <3>1
    <3> QED
      BY <1>1, <3>1, <3>2 DEF MessageIds
  <2> QED
    BY <1>4, <2>1
<1>6. MemoryTyped'
  BY <1>1, <1>4 DEF MemoryInv, MemoryTyped
<1>7. IdsAreGivenOnce'
  <2>1. Begun' = Begun
    BY <1>1, <1>4 DEF Begun
  <2> QED
    BY <1>1, <1>4, <2>1 DEF MemoryInv, IdsAreGivenOnce
<1>8. Told'
  BY <1>1, <1>4 DEF MemoryInv, Told
<1>9. OneAfterTheOther'
  <2> SUFFICES ASSUME ~overlapped PROVE OneAfterTheOther'
    BY <1>4 DEF OneAfterTheOther
  <2>1. \A u \in Threads : UpToRead(u)' \ leftOut' \subseteq UpToRead(u) \ leftOut
    BY <1>1, <1>4, <1>5 DEF UpToRead, read
  <2>2. \A u \in Threads : Covered(u)' \ leftOut' \subseteq Covered(u) \ leftOut
    BY <1>1, <1>4, <1>5 DEF Covered, read
  <2> QED
    BY <1>4, <2>1, <2>2 DEF MemoryInv, OneAfterTheOther, NothingIsForgotten, Summarising
<1> QED
  BY <1>6, <1>7, <1>8, <1>9 DEF MemoryInv

(* A job goes on: what it has read stays, and what it does with the summary *)
(* it does alone.                                                           *)
LEMMA StepKept ==
  ASSUME MemoryInv, NEW t \in Threads, NEW row \in TaskRows, task' = [task EXCEPT ![t] = row],
         UNCHANGED <<told, unsaid, through, stops>>,
         leftOut' \subseteq MessageIds, leftOut \subseteq leftOut',
         summary' \subseteq MessageIds, recall' \in [MessageIds -> Nat], overlapped' \in BOOLEAN,
         overlapped => overlapped',
         row.rows \subseteq told[t], row.at \in {"think", "index", "advance"} <=> row.rows # {},
         ~overlapped' =>
           /\ \A u \in Threads \ {t} : ~Summarising(u)
           /\ summary \subseteq summary'
           /\ row.at \in {"read", "think"} => row.from = summary'
           /\ row.at \in {"index", "advance"} => row.rows \subseteq summary'
           /\ {i \in told[t] : \E j \in row.rows : i <= j} \ leftOut' \subseteq summary' \cup row.rows
  PROVE  MemoryInv'
<1>1. task \in [Threads -> TaskRows]
  BY DEF MemoryInv, MemoryTyped
<1>2. \A u \in Threads : task'[u] = IF u = t THEN row ELSE task[u]
  BY <1>1
<1>3. MemoryTyped'
  BY <1>1 DEF MemoryInv, MemoryTyped
<1>4. IdsAreGivenOnce'
  BY DEF MemoryInv, IdsAreGivenOnce, Begun
<1>5. Told'
  BY <1>2 DEF MemoryInv, Told
<1>6. OneAfterTheOther'
  <2> SUFFICES ASSUME ~overlapped' PROVE OneAfterTheOther'
    BY DEF OneAfterTheOther
  <2>1. \A u \in Threads \ {t} : ~Summarising(u)' /\ task'[u] = task[u]
    BY <1>2 DEF Summarising
  <2>2. \A u \in Threads : UpToRead(u)' \ leftOut' \subseteq summary' \cup task'[u].rows
    BY <1>2, <2>1 DEF UpToRead, MemoryInv, OneAfterTheOther
  <2>3. NothingIsForgotten'
    BY DEF MemoryInv, OneAfterTheOther, NothingIsForgotten, Covered
  <2>4. \A u \in Threads : task'[u].at \in {"read", "think", "index", "advance"} => u = t
    BY <2>1 DEF Summarising
  <2> QED
    BY <1>2, <2>1, <2>2, <2>3, <2>4 DEF OneAfterTheOther, Summarising
<1> QED
  BY <1>3, <1>4, <1>5, <1>6 DEF MemoryInv

LEMMA ReadCustomerKept ==
  ASSUME MemoryInv, NEW t \in Threads, ReadCustomer(t)
  PROVE  MemoryInv'
<1> DEFINE row == [task[t] EXCEPT !.at = "read", !.from = summary]
<1>1. /\ task \in [Threads -> TaskRows] /\ summary \subseteq MessageIds /\ overlapped \in BOOLEAN
      /\ leftOut \subseteq MessageIds /\ recall \in [MessageIds -> Nat]
  BY DEF MemoryInv, MemoryTyped
<1>2. task[t].rows = {} /\ task[t].at = "waiting" /\ task[t] \in TaskRows
  BY <1>1 DEF ReadCustomer, MemoryInv, Told
<1>3. row \in TaskRows /\ row.at = "read" /\ row.from = summary /\ row.rows = {}
  BY <1>1, <1>2 DEF TaskRows
<1>4. task' = [task EXCEPT ![t] = row]
  BY DEF ReadCustomer
<1> HIDE DEF row
<1>5. overlapped' = (overlapped \/ \E u \in Threads : Summarising(u))
  BY DEF ReadCustomer
<1>6. UNCHANGED <<told, unsaid, summary, recall, through, stops, leftOut>>
  BY DEF ReadCustomer
<1> QED
  BY <1>1, <1>3, <1>4, <1>5, <1>6, StepKept

LEMMA ReadMessagesKept ==
  ASSUME MemoryInv, NEW t \in Threads, ReadMessages(t), Unread(t) # {}
  PROVE  MemoryInv'
<1> DEFINE row == [task[t] EXCEPT !.at = "think", !.rows = Newest(t)]
<1>1. /\ task \in [Threads -> TaskRows] /\ summary \subseteq MessageIds /\ overlapped \in BOOLEAN
      /\ leftOut \subseteq MessageIds /\ recall \in [MessageIds -> Nat]
      /\ told[t] \subseteq MessageIds /\ MaxMessages \in Nat /\ through[t] \in Nat
  BY MemoryAssumption DEF MemoryInv, MemoryTyped
<1>2. Unread(t) \in SUBSET (0 .. MaxMessages) /\ Unread(t) \subseteq told[t]
  BY <1>1 DEF Unread, MessageIds
<1>3. Newest(t) # {} /\ Newest(t) \subseteq told[t]
  <2> DEFINE m == Max(Unread(t))
  <2>1. m \in Unread(t) /\ \A j \in Unread(t) : m >= j
    BY <1>1, <1>2, NewestIsThere
  <2>2. \A j \in Unread(t) : m \in Nat /\ j \in Nat
    BY <1>2, <2>1
  <2> HIDE DEF m
  <2>3. {j \in Unread(t) : j > m} = {}
    BY <2>1, <2>2
  <2>4. Cardinality({j \in Unread(t) : j > m}) < Batch
    BY <2>3, FS_EmptySet, MemoryAssumption
  <2> QED
    BY <1>2, <2>1, <2>4 DEF Newest
<1>4. task[t].at = "read" /\ task[t] \in TaskRows
  BY <1>1 DEF ReadMessages
<1>5. row \in TaskRows /\ row.at = "think" /\ row.from = task[t].from /\ row.rows = Newest(t)
  BY <1>1, <1>3, <1>4 DEF TaskRows
<1>6. task' = [task EXCEPT ![t] = row] /\ leftOut' = leftOut \cup (Unread(t) \ Newest(t))
  BY DEF ReadMessages
<1>7. UNCHANGED <<told, unsaid, summary, recall, through, stops, overlapped>>
  BY DEF ReadMessages
<1> HIDE DEF row
<1>8. leftOut' \subseteq MessageIds
  BY <1>1, <1>2, <1>6
<1>9. ASSUME ~overlapped
      PROVE  /\ \A u \in Threads \ {t} : ~Summarising(u)
             /\ row.from = summary
             /\ {i \in told[t] : \E j \in row.rows : i <= j} \ leftOut' \subseteq summary \cup row.rows
  <2>1. Summarising(t)
    BY <1>4 DEF Summarising
  <2>2. \A u \in Threads \ {t} : ~Summarising(u)
    BY <1>9, <2>1 DEF MemoryInv, OneAfterTheOther
  <2>3. row.from = summary
    BY <1>4, <1>5, <1>9 DEF MemoryInv, OneAfterTheOther
  <2>4. \A i \in told[t] : i \in Covered(t) \/ i \in Unread(t)
    BY <1>1 DEF Covered, Unread, MessageIds
  <2>5. Covered(t) \ leftOut \subseteq summary
    BY <1>9 DEF MemoryInv, OneAfterTheOther, NothingIsForgotten
  <2> QED
    BY <1>5, <1>6, <2>2, <2>3, <2>4, <2>5
<1> QED
  BY <1>1, <1>3, <1>5, <1>6, <1>7, <1>8, <1>9, StepKept

LEMMA WriteSummaryKept ==
  ASSUME MemoryInv, NEW t \in Threads, WriteSummary(t)
  PROVE  MemoryInv'
<1> DEFINE row == [task[t] EXCEPT !.at = "index"]
<1>1. /\ task \in [Threads -> TaskRows] /\ summary \subseteq MessageIds /\ overlapped \in BOOLEAN
      /\ leftOut \subseteq MessageIds /\ recall \in [MessageIds -> Nat]
  BY DEF MemoryInv, MemoryTyped
<1>2. /\ task[t].at = "think" /\ task[t] \in TaskRows
      /\ task[t].rows # {} /\ task[t].rows \subseteq told[t]
  BY <1>1 DEF WriteSummary, MemoryInv, Told
<1>3. row \in TaskRows /\ row.at = "index" /\ row.rows = task[t].rows
  BY <1>2 DEF TaskRows
<1>4. /\ task' = [task EXCEPT ![t] = row] /\ summary' = task[t].from \cup task[t].rows
      /\ UNCHANGED <<told, unsaid, recall, through, stops, overlapped, leftOut>>
  BY DEF WriteSummary, Goto
<1>5. summary' \subseteq MessageIds
  BY <1>2, <1>4 DEF TaskRows
<1> HIDE DEF row
<1>6. ASSUME ~overlapped
      PROVE  /\ \A u \in Threads \ {t} : ~Summarising(u)
             /\ summary' = summary \cup row.rows
             /\ {i \in told[t] : \E j \in row.rows : i <= j} \ leftOut \subseteq summary \cup row.rows
  <2>1. Summarising(t)
    BY <1>2 DEF Summarising
  <2>2. \A u \in Threads \ {t} : ~Summarising(u)
    BY <1>6, <2>1 DEF MemoryInv, OneAfterTheOther
  <2>3. summary' = summary \cup row.rows
    BY <1>2, <1>3, <1>4, <1>6 DEF MemoryInv, OneAfterTheOther
  <2>4. UpToRead(t) \ leftOut \subseteq summary \cup task[t].rows
    BY <1>6 DEF MemoryInv, OneAfterTheOther
  <2> QED
    BY <1>3, <2>2, <2>3, <2>4 DEF UpToRead
<1> QED
  BY <1>1, <1>2, <1>3, <1>4, <1>5, <1>6, StepKept

LEMMA IndexKept ==
  ASSUME MemoryInv, NEW t \in Threads, IndexForRecall(t)
  PROVE  MemoryInv'
<1> DEFINE row == [task[t] EXCEPT !.at = "advance"]
<1>1. /\ task \in [Threads -> TaskRows] /\ summary \subseteq MessageIds /\ overlapped \in BOOLEAN
      /\ leftOut \subseteq MessageIds /\ recall \in [MessageIds -> Nat]
  BY DEF MemoryInv, MemoryTyped
<1>2. /\ task[t].at = "index" /\ task[t] \in TaskRows
      /\ task[t].rows # {} /\ task[t].rows \subseteq told[t]
  BY <1>1 DEF IndexForRecall, MemoryInv, Told
<1>3. row \in TaskRows /\ row.at = "advance" /\ row.rows = task[t].rows
  BY <1>2 DEF TaskRows
<1>4. /\ task' = [task EXCEPT ![t] = row]
      /\ UNCHANGED <<told, unsaid, summary, through, stops, overlapped, leftOut>>
  BY DEF IndexForRecall, Goto
<1>5. recall' \in [MessageIds -> Nat]
  BY <1>1 DEF IndexForRecall
<1> HIDE DEF row
<1>6. ASSUME ~overlapped
      PROVE  /\ \A u \in Threads \ {t} : ~Summarising(u)
             /\ row.rows \subseteq summary
             /\ {i \in told[t] : \E j \in row.rows : i <= j} \ leftOut \subseteq summary \cup row.rows
  <2>1. Summarising(t)
    BY <1>2 DEF Summarising
  <2> QED
    BY <1>2, <1>3, <1>6, <2>1 DEF MemoryInv, OneAfterTheOther, UpToRead
<1> QED
  BY <1>1, <1>2, <1>3, <1>4, <1>5, <1>6, StepKept

LEMMA AdvanceKept ==
  ASSUME MemoryInv, NEW t \in Threads, Advance(t)
  PROVE  MemoryInv'
<1> DEFINE rows == task[t].rows
<1>1. /\ task \in [Threads -> TaskRows] /\ through \in [Threads -> 0 .. MaxMessages]
      /\ MaxMessages \in Nat /\ told \in [Threads -> SUBSET MessageIds]
  BY MemoryAssumption DEF MemoryInv, MemoryTyped
<1>2. task[t].at = "advance" /\ rows # {} /\ rows \subseteq told[t]
  BY DEF Advance, MemoryInv, Told
<1>3. rows \in SUBSET (0 .. MaxMessages)
  BY <1>1, <1>2 DEF MessageIds
<1>4. Max(rows) \in rows
  BY <1>1, <1>2, <1>3, NewestIsThere
<1>5. /\ through' = [through EXCEPT ![t] = Max(rows)] /\ task' = [task EXCEPT ![t] = NoTask]
      /\ UNCHANGED <<told, unsaid, summary, recall, stops, overlapped, leftOut>>
  BY DEF Advance, Complete
<1>6. NoTask \in TaskRows /\ NoTask.rows = {} /\ NoTask.at = "none"
  BY NoTaskRests DEF Resting, NoTask
<1>7. MemoryTyped'
  BY <1>1, <1>3, <1>4, <1>5, <1>6 DEF MemoryInv, MemoryTyped
<1>8. IdsAreGivenOnce'
  BY <1>5 DEF MemoryInv, IdsAreGivenOnce, Begun
<1>9. Told'
  BY <1>1, <1>2, <1>4, <1>5, <1>6 DEF MemoryInv, Told
<1>10. OneAfterTheOther'
  <2> SUFFICES ASSUME ~overlapped PROVE OneAfterTheOther'
    BY <1>5 DEF OneAfterTheOther
  <2>1. Covered(t)' \ leftOut \subseteq summary
    <3>1. Covered(t)' \subseteq UpToRead(t)
      BY <1>1, <1>4, <1>5 DEF Covered, UpToRead
    <3> QED
      BY <1>2, <3>1 DEF MemoryInv, OneAfterTheOther
  <2>2. \A u \in Threads \ {t} : Covered(u)' = Covered(u)
    BY <1>1, <1>5 DEF Covered
  <2>3. NothingIsForgotten'
    BY <1>5, <2>1, <2>2 DEF MemoryInv, OneAfterTheOther, NothingIsForgotten
  <2>4. \A u \in Threads : task'[u] = IF u = t THEN NoTask ELSE task[u]
    BY <1>1, <1>5
  <2> QED
    BY <1>5, <1>6, <2>3, <2>4 DEF MemoryInv, OneAfterTheOther, UpToRead, Summarising
<1> QED
  BY <1>7, <1>8, <1>9, <1>10 DEF MemoryInv

LEMMA MemoryInvHolds == MemorySpec => []MemoryInv
<1>1. MemoryInv /\ UNCHANGED memory => MemoryInv'
  BY DEF memory, MemoryInv, MemoryTyped, IdsAreGivenOnce, Begun, Told, OneAfterTheOther, UpToRead,
         NothingIsForgotten, Covered, Summarising
<1>2. MemoryInv /\ MemoryNext => MemoryInv'
  BY RestingKept, BeginMessageKept, CommitMessageKept, ReadCustomerKept, ReadMessagesKept,
     WriteSummaryKept, IndexKept, AdvanceKept
     DEF MemoryNext
<1> QED
  BY <1>1, <1>2, MemoryStart, PTL DEF MemorySpec

LEMMA MemoryTypes == MemoryInv => MemoryTypeOK
BY DEF MemoryInv, MemoryTyped, MemoryTypeOK, TaskRows

(* What lies behind the watermark is in the summary, whichever worker dies, *)
(* whichever answer fails and however many messages are committed late, as  *)
(* long as the customer's summaries are made one after the other.           *)
THEOREM TheSummaryHasIt == MemorySpec => []NothingIsForgotten
<1>1. MemoryInv => NothingIsForgotten
  BY DEF MemoryInv, OneAfterTheOther, NothingIsForgotten
<1> QED
  BY <1>1, MemoryInvHolds, PTL

-----------------------------------------------------------------------------
(* Who is who.                                                              *)

Made == 1 .. made.customers
IdentityRows == [row : Ids, customer : Ids]
ThreadRows == [id : 1 .. MaxThreads, row : Ids, customer : Ids]
JobRows == [at : {"sent", "made", "lost", "known", "locked", "done"},
            row : 0 .. MaxCustomers, customer : 0 .. MaxCustomers, found : 0 .. MaxThreads]
DeskRows == [at : {"idle", "decided", "identities", "conversations"},
             survivor : 0 .. MaxCustomers, absorbed : 0 .. MaxCustomers, known : BOOLEAN,
             people : SUBSET Who, moved : SUBSET (1 .. MaxThreads)]
MadeRows == [customers : 0 .. MaxCustomers, threads : 0 .. MaxThreads, erasures : 0 .. MaxErasures]

PeopleTyped ==
  /\ customers \subseteq Ids /\ phone \subseteq Ids
  /\ check \subseteq Ids /\ asked \subseteq Ids
  /\ identity \in [Who -> IdentityRows \cup {NoRow}]
  /\ threads \subseteq ThreadRows
  /\ pending \subseteq Pairs /\ rejected \subseteq Pairs
  /\ job \in [Messages -> JobRows]
  /\ desk \in [Colleagues -> DeskRows]
  /\ made \in MadeRows

(* Ids are given once: what has one was made, an identity's row is its own, *)
(* and so is a conversation's id.                                           *)
IdsAreUnique ==
  /\ customers \subseteq Made
  /\ \A w \in Who : identity[w] # NoRow => identity[w].row \in Made /\ identity[w].customer \in Made
  /\ \A p \in pending : p[1] \in Made
  /\ \A k \in Colleagues : desk[k].at # "idle" => desk[k].survivor \in Made
  /\ \A w, v \in Who : identity[w] # NoRow /\ identity[w].row = identity[v].row => w = v
  /\ \A t, u \in threads : t.id = u.id => t = u
  /\ \A t \in threads : t.id <= made.threads
  /\ \A k \in Colleagues : \A id \in desk[k].moved : id <= made.threads

(* What a job knows: the customer it made is nobody's yet, and the one it   *)
(* read is still the identity's, or gone.                                   *)
InHand(m) == job[m].at \in {"made", "lost", "known", "locked"}
JobsKnow ==
  /\ \A m \in Messages : InHand(m) => job[m].row \in Made /\ job[m].customer \in Made
  /\ \A m \in Messages : job[m].at = "made" =>
       /\ \A w \in Who : identity[w].row # job[m].row
       /\ \A n \in Messages \ {m} : InHand(n) => job[n].row # job[m].row
  /\ \A m \in Messages, w \in Who :
       /\ job[m].at \in {"known", "locked"} /\ job[m].customer \in customers
       /\ identity[w] # NoRow /\ identity[w].row = job[m].row
       => identity[w].customer = job[m].customer

(* What a merge has moved is held: its identities and conversations are     *)
(* those of the customer it absorbs, no job and no other merge has them,    *)
(* and no conversation of such an identity was left behind.                 *)
MergesHold ==
  /\ \A k \in Colleagues :
       /\ desk[k].at # "idle" => desk[k].survivor \in Ids /\ desk[k].absorbed \in Ids
                                  /\ desk[k].survivor # desk[k].absorbed
       /\ desk[k].people # {} => desk[k].at \in {"identities", "conversations"}
       /\ desk[k].moved # {} => desk[k].at = "conversations"
       /\ \A w \in desk[k].people : identity[w].customer = desk[k].absorbed /\ ~HeldByJob(w)
       /\ \A t \in threads : t.id \in desk[k].moved => t.customer = desk[k].absorbed
       /\ desk[k].at = "conversations" =>
            \A w \in desk[k].people : \A t \in threads : t.row = identity[w].row => t.id \in desk[k].moved
  /\ \A j, k \in Colleagues : j # k =>
       desk[j].people \cap desk[k].people = {} /\ desk[j].moved \cap desk[k].moved = {}

PeopleInv ==
  PeopleTyped /\ IdsAreUnique /\ JobsKnow /\ MergesHold /\ ConversationFollowsIdentity

LEMMA PeopleStart == PeopleInit => PeopleInv
<1> SUFFICES ASSUME PeopleInit PROVE PeopleInv
  OBVIOUS
<1>1. 0 \in 0 .. MaxCustomers /\ 0 \in 0 .. MaxThreads /\ 0 \in 0 .. MaxErasures
  BY PeopleAssumption
<1>2. Waiting \in JobRows /\ Idle \in DeskRows /\ made \in MadeRows
  BY <1>1 DEF Waiting, Idle, JobRows, DeskRows, MadeRows, PeopleInit
<1>3. PeopleTyped
  BY <1>2 DEF PeopleInit, PeopleTyped
<1>4. IdsAreUnique
  BY DEF PeopleInit, IdsAreUnique, NoRow, Idle
<1>5. JobsKnow
  BY DEF PeopleInit, JobsKnow, InHand, Waiting
<1>6. MergesHold
  BY DEF PeopleInit, MergesHold, Idle
<1>7. ConversationFollowsIdentity
  BY DEF PeopleInit, ConversationFollowsIdentity
<1> QED
  BY <1>3, <1>4, <1>5, <1>6, <1>7 DEF PeopleInv

(* Whatever else changes than rows, jobs and merges changes nothing here.   *)
LEMMA RecordsAside ==
  ASSUME PeopleInv, UNCHANGED <<customers, identity, threads, job, desk>>,
         phone' \subseteq Ids, check' \subseteq Ids, asked' \subseteq Ids,
         pending' \subseteq Pairs, rejected' \subseteq Pairs, made' \in MadeRows,
         \A p \in pending' : p[1] \in Made,
         made'.customers = made.customers, made'.threads = made.threads
  PROVE  PeopleInv'
<1>1. PeopleTyped'
  BY DEF PeopleInv, PeopleTyped
<1>2. IdsAreUnique' /\ JobsKnow'
  BY DEF PeopleInv, IdsAreUnique, JobsKnow, InHand, Made
<1>3. MergesHold' /\ ConversationFollowsIdentity'
  BY DEF PeopleInv, MergesHold, HeldByJob, Holder, ConversationFollowsIdentity
<1> QED
  BY <1>1, <1>2, <1>3 DEF PeopleInv

(* A job goes on, having made a customer, read an identity or locked one.   *)
LEMMA JobKept ==
  ASSUME PeopleInv, NEW m \in Messages, NEW row \in JobRows, job' = [job EXCEPT ![m] = row],
         UNCHANGED <<identity, threads, desk, phone, pending, rejected, check, asked>>,
         made' \in MadeRows, made'.threads = made.threads, made'.customers >= made.customers,
         customers' \subseteq Ids, customers' \subseteq 1 .. made'.customers,
         \A c \in customers' : c \in customers \/ c > made.customers,
         row.at \in {"made", "lost", "known", "locked"} =>
           row.row \in 1 .. made'.customers /\ row.customer \in 1 .. made'.customers,
         row.at \in {"lost", "known", "locked"} =>
           \A n \in Messages \ {m} : job[n].at = "made" => job[n].row # row.row,
         row.at = "made" => row.row > made.customers,
         row.at \in {"known", "locked"} /\ row.customer \in customers' =>
           \A w \in Who : identity[w] # NoRow /\ identity[w].row = row.row
                            => identity[w].customer = row.customer,
         row.at = "locked" =>
           \A w \in Who : identity[w] # NoRow /\ identity[w].row = row.row => ~HeldByMerge(w)
  PROVE  PeopleInv'
<1>1. /\ job \in [Messages -> JobRows] /\ made \in MadeRows /\ MaxCustomers \in Nat
      /\ identity \in [Who -> IdentityRows \cup {NoRow}]
  BY PeopleAssumption DEF PeopleInv, PeopleTyped
<1>2. \A n \in Messages : job'[n] = IF n = m THEN row ELSE job[n]
  BY <1>1
<1>3. made.customers \in Nat /\ made'.customers \in Nat
  BY <1>1 DEF MadeRows
<1>4. PeopleTyped'
  BY <1>1 DEF PeopleInv, PeopleTyped
<1>5. IdsAreUnique'
  BY <1>3 DEF PeopleInv, IdsAreUnique, Made
<1>6. JobsKnow'
  <2>1. \A w \in Who : identity[w].row \in 0 .. made.customers
    BY <1>1, <1>3 DEF PeopleInv, IdsAreUnique, Made, NoRow
  <2>2. \A n \in Messages : InHand(n) => /\ job[n].row \in 1 .. made.customers
                                         /\ job[n].customer \in 1 .. made.customers
    BY DEF PeopleInv, JobsKnow, Made
  <2>3. \A n \in Messages : InHand(n)' => job'[n].row \in Made' /\ job'[n].customer \in Made'
    BY <1>2, <1>3, <2>2 DEF InHand, Made
  <2>4. ASSUME NEW n \in Messages, job'[n].at = "made"
        PROVE  /\ \A w \in Who : identity[w].row # job'[n].row
               /\ \A o \in Messages \ {n} : InHand(o)' => job'[o].row # job'[n].row
    <3>1. CASE n = m
      BY <1>2, <1>3, <2>1, <2>2, <2>4, <3>1 DEF InHand
    <3>2. CASE n # m
      <4>1. job[n].at = "made" /\ job'[n] = job[n] /\ InHand(n)
        BY <1>2, <2>4, <3>2 DEF InHand
      <4>2. \A w \in Who : identity[w].row # job'[n].row
        BY <4>1 DEF PeopleInv, JobsKnow
      <4>3. \A o \in Messages \ {n, m} : InHand(o)' => job'[o].row # job'[n].row
        BY <1>2, <4>1 DEF PeopleInv, JobsKnow, InHand
      <4>4. InHand(m)' => job'[m].row # job'[n].row
        BY <1>2, <1>3, <2>2, <3>2, <4>1 DEF InHand
      <4> QED
        BY <4>2, <4>3, <4>4
    <3> QED
      BY <3>1, <3>2
  <2>5. ASSUME NEW n \in Messages, NEW w \in Who, job'[n].at \in {"known", "locked"},
               job'[n].customer \in customers', identity[w] # NoRow, identity[w].row = job'[n].row
        PROVE  identity[w].customer = job'[n].customer
    <3>1. CASE n = m
      BY <1>2, <2>5, <3>1
    <3>2. CASE n # m
      <4>1. job'[n] = job[n] /\ InHand(n)
        BY <1>2, <2>5, <3>2 DEF InHand
      <4>2. job[n].customer \in customers
        BY <1>3, <2>2, <2>5, <4>1
      <4> QED
        BY <2>5, <4>1, <4>2 DEF PeopleInv, JobsKnow
    <3> QED
      BY <3>1, <3>2
  <2> QED
    BY <2>3, <2>4, <2>5 DEF JobsKnow
<1>7. \A k \in Colleagues : \A w \in desk[k].people : ~HeldByJob(w)'
  BY <1>2 DEF PeopleInv, MergesHold, HeldByJob, Holder, HeldByMerge
<1>8. MergesHold'
  BY <1>7 DEF PeopleInv, MergesHold
<1>9. ConversationFollowsIdentity'
  BY DEF PeopleInv, ConversationFollowsIdentity
<1> QED
  BY <1>4, <1>5, <1>6, <1>8, <1>9 DEF PeopleInv

(* A merge takes something into its hands, or lets go of all it has.        *)
LEMMA DeskKept ==
  ASSUME PeopleInv, NEW k \in Colleagues, NEW row \in DeskRows, desk' = [desk EXCEPT ![k] = row],
         UNCHANGED <<customers, phone, identity, threads, pending, rejected, job, check, asked, made>>,
         row.at # "idle" => /\ row.survivor \in Ids /\ row.absorbed \in Ids
                            /\ row.survivor # row.absorbed /\ row.survivor \in Made,
         row.people # {} => row.at \in {"identities", "conversations"},
         row.moved # {} => row.at = "conversations",
         \A w \in row.people : identity[w].customer = row.absorbed /\ ~HeldByJob(w),
         \A id \in row.moved : id <= made.threads,
         \A t \in threads : t.id \in row.moved => t.customer = row.absorbed,
         row.at = "conversations" =>
           \A w \in row.people : \A t \in threads : t.row = identity[w].row => t.id \in row.moved,
         \A j \in Colleagues \ {k} :
           desk[j].people \cap row.people = {} /\ desk[j].moved \cap row.moved = {}
  PROVE  PeopleInv'
<1>1. desk \in [Colleagues -> DeskRows]
  BY DEF PeopleInv, PeopleTyped
<1>2. \A j \in Colleagues : desk'[j] = IF j = k THEN row ELSE desk[j]
  BY <1>1
<1>3. PeopleTyped'
  BY <1>1 DEF PeopleInv, PeopleTyped
<1>4. IdsAreUnique' /\ JobsKnow'
  BY <1>2 DEF PeopleInv, IdsAreUnique, JobsKnow, InHand, Made
<1>5. MergesHold'
  <2>1. \A w \in Who : HeldByJob(w)' <=> HeldByJob(w)
    BY DEF HeldByJob, Holder
  <2>2. \A j \in Colleagues : desk'[j].people \subseteq Who
    BY <1>1, <1>2 DEF DeskRows
  <2> HIDE DEF HeldByJob
  <2>3. \A w \in row.people : ~HeldByJob(w)'
    BY <1>2, <2>1, <2>2
  <2>4. \A j \in Colleagues \ {k} : \A w \in desk[j].people : ~HeldByJob(w)'
    BY <1>2, <2>1, <2>2 DEF PeopleInv, MergesHold
  <2> QED
    BY <1>2, <2>3, <2>4 DEF PeopleInv, MergesHold
<1>6. ConversationFollowsIdentity'
  BY DEF PeopleInv, ConversationFollowsIdentity
<1> QED
  BY <1>3, <1>4, <1>5, <1>6 DEF PeopleInv

(* What the proofs below take from the invariant.                           *)
LEMMA PeopleFacts ==
  ASSUME PeopleInv
  PROVE  /\ job \in [Messages -> JobRows] /\ identity \in [Who -> IdentityRows \cup {NoRow}]
         /\ desk \in [Colleagues -> DeskRows] /\ threads \subseteq ThreadRows /\ made \in MadeRows
         /\ MaxCustomers \in Nat /\ MaxThreads \in Nat /\ Writer \in [Messages -> Who]
         /\ customers \subseteq Ids /\ customers \subseteq 1 .. made.customers
         /\ made.customers \in Nat /\ made.threads \in Nat
         /\ \A w \in Who : identity[w] # NoRow => /\ identity[w] \in IdentityRows
                                                  /\ identity[w].row \in 1 .. made.customers
                                                  /\ identity[w].customer \in 1 .. made.customers
<1>1. made \in MadeRows /\ MaxCustomers \in Nat /\ MaxThreads \in Nat
  BY PeopleAssumption DEF PeopleInv, PeopleTyped
<1>2. made.customers \in Nat /\ made.threads \in Nat
  BY <1>1 DEF MadeRows
<1> QED
  BY <1>1, <1>2, PeopleAssumption DEF PeopleInv, PeopleTyped, IdsAreUnique, Made

(* Waiting holds nothing.                                                   *)
LEMMA WaitingIsFree ==
  ASSUME PeopleInv
  PROVE  /\ Waiting \in JobRows /\ Waiting.at = "sent"
         /\ [Waiting EXCEPT !.at = "done"] \in JobRows /\ [Waiting EXCEPT !.at = "done"].at = "done"
<1>1. 0 \in 0 .. MaxCustomers /\ 0 \in 0 .. MaxThreads
  BY PeopleAssumption
<1> QED
  BY <1>1 DEF Waiting, JobRows

LEMMA ReadIdentityKept ==
  ASSUME PeopleInv, NEW m \in Messages, ReadIdentity(m)
  PROVE  PeopleInv'
<1> DEFINE w == Writer[m]
<1>1. w \in Who /\ job[m] \in JobRows
  BY PeopleFacts
<1>2. CASE identity[w] # NoRow
  <2> DEFINE row == [job[m] EXCEPT !.at = "known", !.row = identity[w].row,
                                   !.customer = identity[w].customer]
  <2>1. job' = [job EXCEPT ![m] = row]
    BY <1>2 DEF ReadIdentity
  <2>2. /\ row \in JobRows /\ row.at = "known" /\ row.row = identity[w].row
        /\ row.customer = identity[w].customer
    <3>1. identity[w].row \in Ids /\ identity[w].customer \in Ids
      BY <1>1, <1>2, PeopleFacts DEF IdentityRows
    <3>2. identity[w].row \in 0 .. MaxCustomers /\ identity[w].customer \in 0 .. MaxCustomers
      BY <3>1, PeopleFacts DEF Ids
    <3> QED
      BY <1>1, <3>2 DEF JobRows
  <2> HIDE DEF row
  <2>3. UNCHANGED <<customers, made, identity, threads, desk, phone, pending, rejected, check, asked>>
    BY <1>2 DEF ReadIdentity
  <2>4. \A v \in Who : identity[v] # NoRow /\ identity[v].row = row.row => v = w
    BY <1>1, <1>2, <2>2 DEF PeopleInv, IdsAreUnique
  <2>5. \A n \in Messages \ {m} : job[n].at = "made" => job[n].row # row.row
    BY <1>1, <2>2 DEF PeopleInv, JobsKnow
  <2>6. row.row \in 1 .. made.customers /\ row.customer \in 1 .. made.customers
    BY <1>1, <1>2, <2>2, PeopleFacts
  <2>7. \A v \in Who : identity[v] # NoRow /\ identity[v].row = row.row
                      => identity[v].customer = row.customer
    BY <2>2, <2>4
  <2>8. made.customers >= made.customers /\ row.at # "made" /\ row.at # "locked"
    BY <2>2, PeopleFacts
  <2> QED
    BY <2>1, <2>2, <2>3, <2>5, <2>6, <2>7, <2>8, PeopleFacts, JobKept
<1>3. CASE identity[w] = NoRow
  <2> DEFINE new == made.customers + 1
             row == [job[m] EXCEPT !.at = "made", !.row = new, !.customer = new]
  <2>1. /\ made.customers < MaxCustomers /\ made' = [made EXCEPT !.customers = new]
        /\ customers' = customers \cup {made'.customers}
        /\ job' = [job EXCEPT ![m].at = "made", ![m].row = made'.customers,
                              ![m].customer = made'.customers]
    BY <1>3 DEF ReadIdentity
  <2>2. new \in Ids /\ new \in 0 .. MaxCustomers /\ new > made.customers /\ new \in 1 .. new
    BY <2>1, PeopleFacts DEF Ids
  <2> HIDE DEF new
  <2>3. made' \in MadeRows /\ made'.customers = new /\ made'.threads = made.threads
    BY <2>1, <2>2, PeopleFacts DEF MadeRows
  <2>4. job' = [job EXCEPT ![m] = row]
    BY <2>1, <2>3
  <2>5. row \in JobRows /\ row.at = "made" /\ row.row = new /\ row.customer = new
    BY <1>1, <2>2 DEF JobRows
  <2> HIDE DEF row
  <2>6. customers' = customers \cup {new}
    BY <2>1, <2>3
  <2>7. customers' \subseteq Ids /\ customers' \subseteq 1 .. new /\ new >= made.customers
    BY <2>2, <2>6, PeopleFacts DEF Ids
  <2>8. UNCHANGED <<identity, threads, desk, phone, pending, rejected, check, asked>>
    BY DEF ReadIdentity
  <2> QED
    BY <2>2, <2>3, <2>4, <2>5, <2>6, <2>7, <2>8, JobKept
<1> QED
  BY <1>2, <1>3

(* A job that starts again, or is done, with the rows as they are.          *)
LEMMA FreeKept ==
  ASSUME PeopleInv, NEW m \in Messages, NEW row \in JobRows, row.at \in {"sent", "done"},
         job' = [job EXCEPT ![m] = row], customers' \subseteq customers,
         UNCHANGED <<identity, threads, desk, phone, pending, rejected, check, asked, made>>
  PROVE  PeopleInv'
<1>1. made.customers >= made.customers /\ customers \subseteq 1 .. made.customers
  BY PeopleFacts
<1>2. row.at \notin {"made", "lost", "known", "locked"}
  OBVIOUS
<1> QED
  BY <1>1, <1>2, PeopleFacts, JobKept

LEMMA TakeWinnersKept ==
  ASSUME PeopleInv, NEW m \in Messages, TakeWinners(m)
  PROVE  PeopleInv'
<1> DEFINE w == Writer[m]
           row == [Waiting EXCEPT !.at = "known", !.row = identity[w].row, !.customer = identity[w].customer]
<1>1. w \in Who
  BY PeopleFacts
<1>2. /\ customers' \subseteq customers
      /\ UNCHANGED <<phone, identity, threads, pending, rejected, desk, check, asked, made>>
  BY DEF TakeWinners
<1>3. CASE identity[w] = NoRow
  <2>1. job' = [job EXCEPT ![m] = Waiting]
    BY <1>3 DEF TakeWinners
  <2> QED
    BY <1>2, <2>1, WaitingIsFree, FreeKept
<1>4. CASE identity[w] # NoRow
  <2>1. job' = [job EXCEPT ![m] = row]
    BY <1>4 DEF TakeWinners
  <2>2. identity[w].row \in 0 .. MaxCustomers /\ identity[w].customer \in 0 .. MaxCustomers
    BY <1>1, <1>4, PeopleFacts DEF IdentityRows, Ids
  <2>3. /\ row \in JobRows /\ row.at = "known" /\ row.row = identity[w].row
        /\ row.customer = identity[w].customer
    <3>1. Waiting \in JobRows
      BY WaitingIsFree
    <3> QED
      BY <2>2, <3>1 DEF JobRows
  <2> HIDE DEF row
  <2>4. \A v \in Who : identity[v] # NoRow /\ identity[v].row = row.row
                      => identity[v].customer = row.customer
    BY <1>1, <1>4, <2>3 DEF PeopleInv, IdsAreUnique
  <2>5. \A n \in Messages \ {m} : job[n].at = "made" => job[n].row # row.row
    BY <1>1, <2>3 DEF PeopleInv, JobsKnow
  <2>6. row.row \in 1 .. made.customers /\ row.customer \in 1 .. made.customers
    BY <1>1, <1>4, <2>3, PeopleFacts
  <2>7. made.customers >= made.customers /\ row.at # "made" /\ row.at # "locked"
    BY <2>3, PeopleFacts
  <2> QED
    BY <1>2, <2>1, <2>3, <2>4, <2>5, <2>6, <2>7, PeopleFacts, JobKept
<1> QED
  BY <1>3, <1>4

LEMMA LockIdentityKept ==
  ASSUME PeopleInv, NEW m \in Messages, LockIdentity(m)
  PROVE  PeopleInv'
<1> DEFINE mine == {t \in threads : t.row = job[m].row}
           found == IF mine = {} THEN 0 ELSE (CHOOSE t \in mine : TRUE).id
           row == [job[m] EXCEPT !.at = "locked", !.found = found]
<1>1. job[m] \in JobRows /\ job[m].at = "known"
  BY PeopleFacts DEF LockIdentity
<1>2. found \in 0 .. MaxThreads
  <2>1. \A t \in mine : t.id \in 0 .. MaxThreads
    BY PeopleFacts DEF ThreadRows
  <2>2. 0 \in 0 .. MaxThreads
    BY PeopleFacts
  <2> QED
    BY <2>1, <2>2
<1>3. job' = [job EXCEPT ![m] = row]
  BY DEF LockIdentity
<1> HIDE DEF found
<1>4. /\ row \in JobRows /\ row.at = "locked" /\ row.row = job[m].row
      /\ row.customer = job[m].customer
  BY <1>1, <1>2 DEF JobRows
<1> HIDE DEF row
<1>5. UNCHANGED <<customers, phone, identity, threads, pending, rejected, desk, check, asked, made>>
  BY DEF LockIdentity
<1>6. \A w \in Who : identity[w] # NoRow /\ identity[w].row = row.row => ~HeldByMerge(w)
  BY <1>4 DEF LockIdentity, Holder
<1>7. InHand(m) /\ row.row \in 1 .. made.customers /\ row.customer \in 1 .. made.customers
  BY <1>1, <1>4 DEF PeopleInv, JobsKnow, InHand, Made
<1>8. \A n \in Messages \ {m} : job[n].at = "made" => job[n].row # row.row
  BY <1>4, <1>7 DEF PeopleInv, JobsKnow
<1>9. row.customer \in customers =>
        \A w \in Who : identity[w] # NoRow /\ identity[w].row = row.row
                        => identity[w].customer = row.customer
  BY <1>1, <1>4 DEF PeopleInv, JobsKnow
<1>10. made.customers >= made.customers
  BY PeopleFacts
<1> QED
  BY <1>3, <1>4, <1>5, <1>6, <1>7, <1>8, <1>9, <1>10, PeopleFacts, JobKept

LEMMA RetryJobKept ==
  ASSUME PeopleInv, NEW m \in Messages, RetryJob(m)
  PROVE  PeopleInv'
BY WaitingIsFree, FreeKept DEF RetryJob

LEMMA InsertIdentityKept ==
  ASSUME PeopleInv, NEW m \in Messages, InsertIdentity(m)
  PROVE  PeopleInv'
<1> DEFINE w == Writer[m]
<1>1. w \in Who /\ job[m] \in JobRows /\ job[m].at = "made" /\ InHand(m)
  BY PeopleFacts DEF InsertIdentity, InHand
<1>2. /\ UNCHANGED <<customers, phone, threads, pending, rejected, desk, check, asked, made>>
      /\ made.customers >= made.customers
  BY PeopleFacts DEF InsertIdentity
<1>3. /\ job[m].row \in 1 .. made.customers /\ job[m].customer \in 1 .. made.customers
      /\ \A v \in Who : identity[v].row # job[m].row
      /\ \A n \in Messages \ {m} : InHand(n) => job[n].row # job[m].row
  BY <1>1 DEF PeopleInv, JobsKnow, Made
<1>4. CASE identity[w] # NoRow
  <2> DEFINE row == [job[m] EXCEPT !.at = "lost"]
  <2>1. job' = [job EXCEPT ![m] = row] /\ UNCHANGED identity
    BY <1>4 DEF InsertIdentity
  <2>2. /\ row \in JobRows /\ row.at = "lost" /\ row.row = job[m].row
        /\ row.customer = job[m].customer
    BY <1>1 DEF JobRows
  <2> HIDE DEF row
  <2> QED
    BY <1>2, <1>3, <2>1, <2>2, PeopleFacts, JobKept DEF InHand
<1>5. CASE identity[w] = NoRow
  <2> DEFINE new == [row |-> job[m].row, customer |-> job[m].customer]
             row == [job[m] EXCEPT !.at = "known"]
  <2>1. job' = [job EXCEPT ![m] = row] /\ identity' = [identity EXCEPT ![w] = new]
    BY <1>5 DEF InsertIdentity
  <2>2. /\ row \in JobRows /\ row.at = "known" /\ row.row = job[m].row
        /\ row.customer = job[m].customer
    BY <1>1 DEF JobRows
  <2>3. job[m].row \in Ids /\ job[m].customer \in Ids
    BY <1>1, <1>3 DEF JobRows, Ids
  <2>4. /\ new \in IdentityRows /\ new # NoRow /\ new.row = job[m].row
        /\ new.customer = job[m].customer
    BY <1>3, <2>3 DEF IdentityRows, NoRow
  <2> HIDE DEF new, row
  <2>5. /\ \A v \in Who : identity'[v] = IF v = w THEN new ELSE identity[v]
        /\ \A n \in Messages : job'[n] = IF n = m THEN row ELSE job[n]
    BY <1>1, <2>1, PeopleFacts
  <2>6. PeopleTyped'
    <3>1. job' \in [Messages -> JobRows] /\ identity' \in [Who -> IdentityRows \cup {NoRow}]
      BY <2>1, <2>2, <2>4, PeopleFacts
    <3> QED
      BY <1>2, <3>1 DEF PeopleInv, PeopleTyped
  <2>7. IdsAreUnique'
    BY <1>2, <1>3, <2>4, <2>5 DEF PeopleInv, IdsAreUnique, Made
  <2>8. JobsKnow'
    <3>1. \A n \in Messages : InHand(n)' => job'[n].row \in Made' /\ job'[n].customer \in Made'
      BY <1>2, <1>3, <2>2, <2>5 DEF PeopleInv, JobsKnow, InHand, Made
    <3>2. ASSUME NEW n \in Messages, job'[n].at = "made"
          PROVE  /\ \A v \in Who : identity'[v].row # job'[n].row
                 /\ \A o \in Messages \ {n} : InHand(o)' => job'[o].row # job'[n].row
      <4>1. n # m /\ job'[n] = job[n] /\ job[n].at = "made" /\ InHand(n)
        BY <2>2, <2>5, <3>2 DEF InHand
      <4>2. job[n].row # job[m].row
        BY <1>3, <4>1
      <4>3. \A v \in Who : identity'[v].row # job'[n].row
        BY <2>4, <2>5, <4>1, <4>2 DEF PeopleInv, JobsKnow
      <4>4. \A o \in Messages \ {n} : InHand(o)' => job'[o].row # job'[n].row
        BY <2>2, <2>5, <4>1, <4>2 DEF PeopleInv, JobsKnow, InHand
      <4> QED
        BY <4>3, <4>4
    <3>3. ASSUME NEW n \in Messages, NEW v \in Who, job'[n].at \in {"known", "locked"},
                 job'[n].customer \in customers, identity'[v] # NoRow,
                 identity'[v].row = job'[n].row
          PROVE  identity'[v].customer = job'[n].customer
      <4>1. CASE n = m
        BY <1>3, <2>2, <2>4, <2>5, <3>3, <4>1
      <4>2. CASE n # m
        <5>1. job'[n] = job[n] /\ InHand(n)
          BY <2>5, <3>3, <4>2 DEF InHand
        <5>2. v # w
          BY <1>3, <2>4, <2>5, <3>3, <4>2, <5>1
        <5> QED
          BY <2>5, <3>3, <5>1, <5>2 DEF PeopleInv, JobsKnow
      <4> QED
        BY <4>1, <4>2
    <3> QED
      BY <1>2, <3>1, <3>2, <3>3 DEF JobsKnow
  <2>9. MergesHold'
    <3>1. \A k \in Colleagues : desk[k].at # "idle" => desk[k].absorbed \in Ids
      BY DEF PeopleInv, MergesHold
    <3>2. \A k \in Colleagues : \A v \in desk[k].people : identity[v].customer \in Ids
      BY <3>1 DEF PeopleInv, MergesHold
    <3>3. \A k \in Colleagues : w \notin desk[k].people
      BY <1>5, <3>2 DEF NoRow, Ids
    <3>4. \A v \in Who \ {w} : HeldByJob(v)' => HeldByJob(v)
      BY <2>2, <2>5 DEF HeldByJob, Holder
    <3>5. \A k \in Colleagues : desk[k].people \subseteq Who \ {w}
      BY <3>3, PeopleFacts DEF DeskRows
    <3>6. \A k \in Colleagues : \A v \in desk[k].people : ~HeldByJob(v)'
      BY <3>4, <3>5 DEF PeopleInv, MergesHold
    <3>7. \A k \in Colleagues : \A v \in desk[k].people : identity'[v] = identity[v]
      BY <2>5, <3>5
    <3> QED
      BY <1>2, <3>6, <3>7 DEF PeopleInv, MergesHold
  <2>10. ConversationFollowsIdentity'
    <3> SUFFICES ASSUME NEW t \in threads
                 PROVE  \E v \in Who : identity'[v] = [row |-> t.row, customer |-> t.customer]
      BY <1>2 DEF ConversationFollowsIdentity
    <3>1. PICK v \in Who : identity[v] = [row |-> t.row, customer |-> t.customer]
      BY DEF PeopleInv, ConversationFollowsIdentity
    <3>2. t.row \in Ids
      BY PeopleFacts DEF ThreadRows
    <3>3. v # w
      BY <1>5, <3>1, <3>2 DEF NoRow, Ids
    <3> QED
      BY <2>5, <3>1, <3>3
  <2> QED
    BY <2>6, <2>7, <2>8, <2>9, <2>10 DEF PeopleInv
<1> QED
  BY <1>4, <1>5

LEMMA ConverseKept ==
  ASSUME PeopleInv, NEW m \in Messages, Converse(m)
  PROVE  PeopleInv'
<1>1. job[m].at = "locked" /\ job[m] \in JobRows
  BY PeopleFacts DEF Converse
<1>2. UNCHANGED <<customers, phone, identity, pending, rejected, desk, check, asked>>
  BY DEF Converse
<1>3. CASE UNCHANGED <<threads, made>>
  <2>1. PICK row \in {Waiting, [Waiting EXCEPT !.at = "done"]} : job' = [job EXCEPT ![m] = row]
    BY <1>3 DEF Converse
  <2> QED
    BY <1>2, <1>3, <2>1, WaitingIsFree, FreeKept
<1>4. CASE ~UNCHANGED <<threads, made>>
  <2> DEFINE n == made.threads + 1
             new == [id |-> n, row |-> job[m].row, customer |-> job[m].customer]
             row == [Waiting EXCEPT !.at = "done"]
  <2>1. /\ job[m].customer \in customers /\ Holder(job[m].row) # {}
        /\ made.threads < MaxThreads /\ made' = [made EXCEPT !.threads = n]
        /\ threads' = threads \cup {[id |-> made'.threads, row |-> job[m].row,
                                     customer |-> job[m].customer]}
        /\ job' = [job EXCEPT ![m] = row]
    BY <1>4 DEF Converse
  <2>2. row \in JobRows /\ row.at = "done"
    BY WaitingIsFree
  <2> HIDE DEF row
  <2>3. n \in Nat /\ n \in 1 .. MaxThreads /\ n > made.threads
    BY <2>1, PeopleFacts
  <2> HIDE DEF n
  <2>4. made' \in MadeRows /\ made'.threads = n /\ made'.customers = made.customers
    BY <2>1, <2>3, PeopleFacts DEF MadeRows
  <2>5. PICK w \in Who : identity[w] # NoRow /\ identity[w].row = job[m].row
    BY <2>1 DEF Holder
  <2>6. identity[w].customer = job[m].customer /\ identity[w] \in IdentityRows
    BY <1>1, <2>1, <2>5, PeopleFacts DEF PeopleInv, JobsKnow
  <2>7. identity[w] = [row |-> job[m].row, customer |-> job[m].customer]
    BY <2>5, <2>6 DEF IdentityRows
  <2>8. new \in ThreadRows /\ new.id = n /\ new.row = job[m].row /\ new.customer = job[m].customer
    BY <2>3, <2>5, <2>6 DEF IdentityRows, ThreadRows
  <2>9. threads' = threads \cup {new}
    BY <2>1, <2>4
  <2> HIDE DEF new
  <2>10. \A o \in Messages : job'[o] = IF o = m THEN row ELSE job[o]
    BY <2>1, PeopleFacts
  <2>11. PeopleTyped'
    BY <1>2, <2>1, <2>2, <2>4, <2>8, <2>9 DEF PeopleInv, PeopleTyped
  <2>12. IdsAreUnique'
    <3>1. \A t \in threads : t.id \in Nat /\ t.id <= made.threads
      BY PeopleFacts DEF ThreadRows, PeopleInv, IdsAreUnique
    <3>2. \A k \in Colleagues : \A id \in desk[k].moved : id \in Nat /\ id <= made.threads
      BY PeopleFacts DEF DeskRows, PeopleInv, IdsAreUnique
    <3>3. made.threads \in Nat
      BY PeopleFacts
    <3>4. \A t, u \in threads' : t.id = u.id => t = u
      BY <2>3, <2>8, <2>9, <3>1, <3>3 DEF PeopleInv, IdsAreUnique
    <3>5. \A t \in threads' : t.id <= made'.threads
      BY <2>3, <2>4, <2>8, <2>9, <3>1, <3>3
    <3>6. \A k \in Colleagues : \A id \in desk[k].moved : id <= made'.threads
      BY <2>3, <2>4, <3>2, <3>3
    <3> QED
      BY <1>2, <2>4, <3>4, <3>5, <3>6 DEF PeopleInv, IdsAreUnique, Made
  <2>13. JobsKnow'
    BY <1>2, <2>2, <2>4, <2>10 DEF PeopleInv, JobsKnow, InHand, Made
  <2>14. MergesHold'
    <3>1. \A v \in Who : HeldByJob(v)' => HeldByJob(v)
      BY <1>2, <2>2, <2>10 DEF HeldByJob, Holder
    <3>2. \A k \in Colleagues : desk[k].people \subseteq Who /\ desk[k].moved \subseteq 1 .. MaxThreads
      BY PeopleFacts DEF DeskRows
    <3>3. \A k \in Colleagues : \A v \in desk[k].people : ~HeldByJob(v)'
      BY <3>1, <3>2 DEF PeopleInv, MergesHold
    <3>4. \A k \in Colleagues : n \notin desk[k].moved
      BY <2>3, <3>2, PeopleFacts DEF PeopleInv, IdsAreUnique
    <3>5. \A k \in Colleagues : \A v \in desk[k].people : identity[v].row # job[m].row
      <4> SUFFICES ASSUME NEW k \in Colleagues, NEW v \in desk[k].people, identity[v].row = job[m].row
                   PROVE  FALSE
        OBVIOUS
      <4>1. v \in Who /\ ~HeldByJob(v)
        BY <3>2 DEF PeopleInv, MergesHold
      <4>2. identity[v] # NoRow
        BY <2>5, PeopleFacts DEF NoRow
      <4> QED
        BY <1>1, <4>1, <4>2 DEF HeldByJob, Holder
    <3> QED
      BY <1>2, <2>8, <2>9, <3>3, <3>4, <3>5 DEF PeopleInv, MergesHold
  <2>15. ConversationFollowsIdentity'
    BY <1>2, <2>7, <2>8, <2>9 DEF PeopleInv, ConversationFollowsIdentity
  <2> QED
    BY <2>11, <2>12, <2>13, <2>14, <2>15 DEF PeopleInv
<1> QED
  BY <1>3, <1>4

LEMMA FieldsKept ==
  ASSUME PeopleInv, NEW c \in Ids, RecordField(c) \/ Suggest(c) \/ AskErasure(c)
  PROVE  PeopleInv'
<1>1. /\ customers \subseteq Made /\ phone \subseteq Ids /\ check \subseteq Ids /\ asked \subseteq Ids
      /\ pending \subseteq Pairs /\ rejected \subseteq Pairs /\ made \in MadeRows
      /\ \A p \in pending : p[1] \in Made
  BY DEF PeopleInv, PeopleTyped, IdsAreUnique
<1>2. CASE RecordField(c)
  BY <1>1, <1>2, RecordsAside DEF RecordField
<1>3. CASE Suggest(c)
  <2>1. \A d \in customers : c \in customers /\ c # d => Ordered(c, d) \in Pairs /\ Ordered(c, d)[1] \in Made
    <3>1. \A d \in customers : d \in Nat /\ d \in Ids
      BY PeopleFacts DEF Ids
    <3> QED
      BY <1>1, <3>1 DEF Ordered, Pairs, Ids
  <2>2. \A p \in pending' : \/ p \in pending
                            \/ c \in customers /\ \E d \in customers \ {c} : p = Ordered(c, d)
    BY <1>3 DEF Suggest
  <2>3. pending' \subseteq Pairs /\ \A p \in pending' : p[1] \in Made
    BY <1>1, <2>1, <2>2
  <2> QED
    BY <1>1, <1>3, <2>3, RecordsAside DEF Suggest
<1>4. CASE AskErasure(c)
  <2>1. made.erasures < MaxErasures /\ made' = [made EXCEPT !.erasures = made.erasures + 1]
    BY <1>4 DEF AskErasure
  <2>2. made.erasures + 1 \in 0 .. MaxErasures
    BY <1>1, <2>1, PeopleAssumption DEF MadeRows
  <2>3. made' \in MadeRows /\ made'.customers = made.customers /\ made'.threads = made.threads
    BY <1>1, <2>1, <2>2 DEF MadeRows
  <2> QED
    BY <1>1, <1>4, <2>3, RecordsAside DEF AskErasure
<1> QED
  BY <1>2, <1>3, <1>4

LEMMA RejectKept ==
  ASSUME PeopleInv, NEW p \in Pairs, Reject(p)
  PROVE  PeopleInv'
<1>1. /\ phone \subseteq Ids /\ check \subseteq Ids /\ asked \subseteq Ids
      /\ pending \subseteq Pairs /\ rejected \subseteq Pairs /\ made \in MadeRows
      /\ \A q \in pending : q[1] \in Made
  BY DEF PeopleInv, PeopleTyped, IdsAreUnique
<1> QED
  BY <1>1, RecordsAside DEF Reject

(* A request begins, or gives up what it has in its hands.                  *)
LEMMA IdleHoldsNothing ==
  /\ Idle \in DeskRows /\ Idle.at = "idle" /\ Idle.people = {} /\ Idle.moved = {}
<1>1. 0 \in 0 .. MaxCustomers
  BY PeopleAssumption
<1> QED
  BY <1>1 DEF Idle, DeskRows

LEMMA AcceptKept ==
  ASSUME PeopleInv, NEW k \in Colleagues, NEW p \in Pairs, Accept(k, p)
  PROVE  PeopleInv'
<1>1. p \in pending /\ p[1] \in Made
  BY DEF Accept, PeopleInv, IdsAreUnique
<1>2. p[1] \in Ids /\ p[2] \in Ids /\ p[1] # p[2] /\ p[1] \in 0 .. MaxCustomers /\ p[2] \in 0 .. MaxCustomers
  BY PeopleAssumption DEF Pairs, Ids
<1>3. PICK flag \in BOOLEAN : flag = (p[1] \in phone \/ p[2] \in phone)
  OBVIOUS
<1> DEFINE row == [Idle EXCEPT !.at = "decided", !.survivor = p[1], !.absorbed = p[2], !.known = flag]
<1>4. desk' = [desk EXCEPT ![k] = row]
  BY <1>3 DEF Accept
<1>5. Idle \in DeskRows /\ Idle.people = {} /\ Idle.moved = {}
  BY IdleHoldsNothing
<1>6. /\ row \in DeskRows /\ row.at = "decided" /\ row.survivor = p[1] /\ row.absorbed = p[2]
      /\ row.people = {} /\ row.moved = {}
  BY <1>2, <1>5 DEF DeskRows
<1> HIDE DEF row
<1>7. UNCHANGED <<customers, phone, identity, threads, pending, rejected, job, check, asked, made>>
  BY DEF Accept
<1> QED
  BY <1>1, <1>2, <1>4, <1>6, <1>7, DeskKept

LEMMA AbandonKept ==
  ASSUME PeopleInv, NEW k \in Colleagues, desk' = [desk EXCEPT ![k] = Idle],
         UNCHANGED <<customers, phone, identity, threads, pending, rejected, job, check, asked, made>>
  PROVE  PeopleInv'
BY IdleHoldsNothing, DeskKept

LEMMA RepointIdentitiesKept ==
  ASSUME PeopleInv, NEW k \in Colleagues, RepointIdentities(k)
  PROVE  PeopleInv'
<1> DEFINE people == Of(desk[k].absorbed)
           row == [desk[k] EXCEPT !.at = "identities", !.people = people]
<1>1. UNCHANGED <<customers, phone, identity, threads, pending, rejected, job, check, asked, made>>
  BY DEF RepointIdentities
<1>2. CASE desk' = [desk EXCEPT ![k] = Idle]
  BY <1>1, <1>2, AbandonKept
<1>3. CASE desk' = [desk EXCEPT ![k] = row]
  <2>1. desk[k].at = "decided" /\ desk[k] \in DeskRows
    BY PeopleFacts DEF RepointIdentities
  <2>2. \A w \in people : ~HeldByJob(w) /\ ~HeldByMerge(w) /\ identity[w].customer = desk[k].absorbed
    BY DEF RepointIdentities, Of
  <2>3. people \subseteq Who
    BY DEF Of
  <2> HIDE DEF people
  <2>4. /\ row \in DeskRows /\ row.at = "identities" /\ row.survivor = desk[k].survivor
        /\ row.absorbed = desk[k].absorbed /\ row.people = people /\ row.moved = desk[k].moved
    BY <2>1, <2>3 DEF DeskRows
  <2> HIDE DEF row
  <2>5. /\ desk[k].survivor \in Ids /\ desk[k].absorbed \in Ids
        /\ desk[k].survivor # desk[k].absorbed /\ desk[k].survivor \in Made /\ desk[k].moved = {}
    BY <2>1 DEF PeopleInv, MergesHold, IdsAreUnique
  <2>6. \A j \in Colleagues \ {k} : desk[j].people \cap people = {}
    BY <2>2 DEF HeldByMerge
  <2> QED
    BY <1>1, <1>3, <2>2, <2>4, <2>5, <2>6, DeskKept
<1> QED
  BY <1>2, <1>3 DEF RepointIdentities

LEMMA RepointConversationsKept ==
  ASSUME PeopleInv, NEW k \in Colleagues, RepointConversations(k)
  PROVE  PeopleInv'
<1> DEFINE moved == {t.id : t \in {u \in threads : u.customer = desk[k].absorbed}}
           row == [desk[k] EXCEPT !.at = "conversations", !.moved = moved]
<1>1. UNCHANGED <<customers, phone, identity, threads, pending, rejected, job, check, asked, made>>
  BY DEF RepointConversations
<1>2. CASE desk' = [desk EXCEPT ![k] = Idle]
  BY <1>1, <1>2, AbandonKept
<1>3. CASE desk' = [desk EXCEPT ![k] = row]
  <2>1. desk[k].at = "identities" /\ desk[k] \in DeskRows
    BY PeopleFacts DEF RepointConversations
  <2>2. moved \subseteq 1 .. MaxThreads /\ \A id \in moved : id <= made.threads /\ ~ThreadHeld(id)
    BY PeopleFacts DEF RepointConversations, ThreadRows, PeopleInv, IdsAreUnique
  <2>3. \A t \in threads : t.id \in moved <=> t.customer = desk[k].absorbed
    BY DEF PeopleInv, IdsAreUnique
  <2> HIDE DEF moved
  <2>4. /\ row \in DeskRows /\ row.at = "conversations" /\ row.survivor = desk[k].survivor
        /\ row.absorbed = desk[k].absorbed /\ row.people = desk[k].people /\ row.moved = moved
    BY <2>1, <2>2 DEF DeskRows
  <2> HIDE DEF row
  <2>5. /\ desk[k].survivor \in Ids /\ desk[k].absorbed \in Ids
        /\ desk[k].survivor # desk[k].absorbed /\ desk[k].survivor \in Made
    BY <2>1 DEF PeopleInv, MergesHold, IdsAreUnique
  <2>6. \A j \in Colleagues \ {k} : desk[j].people \cap desk[k].people = {} /\ desk[j].moved \cap moved = {}
    BY <2>2 DEF ThreadHeld, PeopleInv, MergesHold
  <2>7. \A w \in desk[k].people : w \in Who /\ identity[w].customer = desk[k].absorbed /\ ~HeldByJob(w)
    BY <2>1 DEF DeskRows, PeopleInv, MergesHold
  <2>8. \A w \in desk[k].people : \A t \in threads : t.row = identity[w].row => t.id \in moved
    <3> SUFFICES ASSUME NEW w \in desk[k].people, NEW t \in threads, t.row = identity[w].row
                 PROVE  t.customer = desk[k].absorbed
      BY <2>3
    <3>1. PICK v \in Who : identity[v] = [row |-> t.row, customer |-> t.customer]
      BY DEF PeopleInv, ConversationFollowsIdentity
    <3>2. identity[v] # NoRow
      BY PeopleFacts, <3>1 DEF NoRow, ThreadRows, Ids
    <3>3. v = w
      BY <2>7, <3>1, <3>2 DEF PeopleInv, IdsAreUnique
    <3> QED
      BY <2>7, <3>1, <3>3
  <2> QED
    BY <1>1, <1>3, <2>2, <2>3, <2>4, <2>5, <2>6, <2>7, <2>8, DeskKept
<1> QED
  BY <1>2, <1>3 DEF RepointConversations

(* A customer goes, and with it whatever was not moved to the one that      *)
(* stays (s): of its identities P were, of its conversations M.             *)
MovedAway(c, s, P, M) ==
  /\ P \subseteq Who
  /\ (s \in Made /\ s # c) \/ (P = {} /\ M = {})
  /\ \A w \in P : identity[w].customer = c
  /\ \A t \in threads : t.id \in M => t.customer = c
  /\ \A w \in P : \A t \in threads : t.row = identity[w].row => t.id \in M

PointedAt(people, s, P) ==
  \A w \in Who : people[w] = IF w \in P THEN [row |-> identity[w].row, customer |-> s] ELSE identity[w]

CameFrom(talks, s, M) ==
  \A u \in talks : \E t \in threads : /\ u \in ThreadRows /\ u.id = t.id /\ u.row = t.row
                                      /\ u.customer = IF t.id \in M THEN s ELSE t.customer

(* What is there afterwards: a row that was, of the same person, and a      *)
(* conversation that was, none of the customer that went.                   *)
RowsLeft(c, s, P) ==
  /\ identity' \in [Who -> IdentityRows \cup {NoRow}]
  /\ \A w \in Who : identity'[w] # NoRow =>
       /\ identity[w] # NoRow /\ identity'[w].row = identity[w].row /\ identity'[w].customer # c
       /\ IF w \in P THEN identity'[w].customer = s ELSE identity'[w] = identity[w]
  /\ \A w \in Who : w \notin P /\ identity[w].customer # c => identity'[w] = identity[w]

ThreadsLeft(c, s, M) ==
  \A u \in threads' : \E t \in threads :
    /\ u.id = t.id /\ u.row = t.row /\ u.customer = (IF t.id \in M THEN s ELSE t.customer)
    /\ u \in ThreadRows /\ u.customer # c
    /\ \A w \in Who : identity'[w] = NoRow => identity[w].row # u.row

(* Who deletes lets go, and the others hold nothing that goes.              *)
LetGo(c) ==
  /\ desk' \in [Colleagues -> DeskRows]
  /\ \A k \in Colleagues :
       \/ desk'[k] = Idle
       \/ /\ desk'[k] = desk[k]
          /\ \A w \in desk[k].people : identity[w].customer # c
          /\ \A t \in threads : t.id \in desk[k].moved => t.customer # c

LEMMA MovedRowsAreThere ==
  ASSUME PeopleInv, NEW c \in Ids, NEW s, NEW P, NEW M, MovedAway(c, s, P, M)
  PROVE  /\ Made \subseteq Ids
         /\ \A w \in P : /\ w \in Who /\ identity[w] # NoRow /\ identity[w] \in IdentityRows
                         /\ identity[w].row \in Ids /\ s \in Ids /\ s \in Made /\ s # c
<1>1. Made \subseteq Ids
  BY PeopleFacts DEF Made, Ids, MadeRows
<1>2. \A w \in P : w \in Who /\ identity[w] # NoRow /\ identity[w] \in IdentityRows
  BY PeopleFacts DEF NoRow, Ids, MovedAway
<1>3. \A w \in P : s \in Made /\ s # c
  BY DEF MovedAway
<1> QED
  BY <1>1, <1>2, <1>3 DEF IdentityRows

LEMMA RowsAreLeft ==
  ASSUME PeopleInv, NEW c \in Ids, NEW s, NEW P, NEW M, MovedAway(c, s, P, M),
         NEW people, NEW talks, PointedAt(people, s, P), DeleteCustomer(c, people, talks)
  PROVE  RowsLeft(c, s, P)
<1>1. \A w \in P : /\ w \in Who /\ identity[w] # NoRow /\ identity[w] \in IdentityRows
                   /\ identity[w].row \in Ids /\ s \in Ids /\ s \in Made /\ s # c
  BY MovedRowsAreThere
<1>2. /\ identity' = [w \in Who |-> IF people[w].customer = c THEN NoRow ELSE people[w]]
      /\ \A w \in Who : identity'[w] = IF people[w].customer = c THEN NoRow ELSE people[w]
  BY DEF DeleteCustomer
<1>3. ASSUME NEW w \in P
      PROVE  /\ identity'[w] \in IdentityRows /\ identity'[w].row = identity[w].row
             /\ identity'[w].customer = s /\ identity[w] # NoRow /\ s # c
  <2> DEFINE row == [row |-> identity[w].row, customer |-> s]
  <2>1. people[w] = row
    BY <1>1 DEF PointedAt
  <2>2. row \in IdentityRows /\ row.row = identity[w].row /\ row.customer = s /\ s # c
    BY <1>1 DEF IdentityRows
  <2> HIDE DEF row
  <2> QED
    BY <1>1, <1>2, <2>1, <2>2
<1>4. ASSUME NEW w \in Who, w \notin P
      PROVE  /\ identity'[w] \in IdentityRows \cup {NoRow}
             /\ (identity'[w] # NoRow => identity'[w] = identity[w] /\ identity[w].customer # c)
             /\ (identity[w].customer # c => identity'[w] = identity[w])
  <2>1. people[w] = identity[w]
    BY <1>4 DEF PointedAt
  <2> QED
    BY <1>2, <2>1, PeopleFacts
<1>5. identity' \in [Who -> IdentityRows \cup {NoRow}]
  BY <1>2, <1>3, <1>4
<1> QED
  BY <1>3, <1>4, <1>5 DEF RowsLeft

LEMMA ThreadsAreLeft ==
  ASSUME PeopleInv, NEW c \in Ids, NEW s, NEW P, NEW M, MovedAway(c, s, P, M),
         NEW people, NEW talks, PointedAt(people, s, P), CameFrom(talks, s, M),
         DeleteCustomer(c, people, talks)
  PROVE  ThreadsLeft(c, s, M)
<1>1. \A u \in threads' : /\ u \in talks /\ u.customer # c
                          /\ \A w \in Who : identity'[w] = NoRow => people[w].row # u.row
  BY DEF DeleteCustomer
<1>2. \A w \in P : identity'[w] # NoRow
  <2>1. RowsLeft(c, s, P)
    BY RowsAreLeft
  <2> SUFFICES ASSUME NEW w \in P PROVE identity'[w] # NoRow
    OBVIOUS
  <2>2. s \in Ids /\ w \in Who /\ s # c
    BY MovedRowsAreThere
  <2> DEFINE row == [row |-> identity[w].row, customer |-> s]
  <2>3. people[w] = row /\ row.customer = s
    BY <2>2 DEF PointedAt
  <2>4. row # NoRow
    BY <2>2, PeopleFacts DEF NoRow, Ids
  <2> HIDE DEF row
  <2> QED
    BY <2>2, <2>3, <2>4 DEF DeleteCustomer
<1>3. \A w \in Who : w \notin P => people[w] = identity[w]
  BY DEF PointedAt
<1> QED
  BY <1>1, <1>2, <1>3 DEF CameFrom, ThreadsLeft

LEMMA DeleteKept ==
  ASSUME PeopleInv, NEW c \in Ids, NEW s, NEW P, NEW M, MovedAway(c, s, P, M),
         NEW people, NEW talks, PointedAt(people, s, P), CameFrom(talks, s, M),
         DeleteCustomer(c, people, talks), LetGo(c),
         phone' \subseteq Ids, check' \subseteq Ids, asked' \subseteq Ids, UNCHANGED <<job, made>>
  PROVE  PeopleInv'
<1>1. /\ customers' = customers \ {c}
      /\ pending' \subseteq pending /\ rejected' \subseteq rejected
  BY DEF DeleteCustomer
<1>2. RowsLeft(c, s, P)
  BY RowsAreLeft
<1>3. ThreadsLeft(c, s, M)
  BY ThreadsAreLeft
<1>4. /\ \A w \in Who : identity'[w] # NoRow =>
           /\ identity[w] # NoRow /\ identity'[w].row = identity[w].row /\ identity'[w].customer # c
           /\ (w \in P => identity'[w].customer = s)
           /\ (w \notin P => identity'[w] = identity[w])
      /\ \A w \in Who : w \notin P /\ identity[w].customer # c => identity'[w] = identity[w]
      /\ identity' \in [Who -> IdentityRows \cup {NoRow}]
  BY <1>2 DEF RowsLeft
<1>5. LetGo(c)
  OBVIOUS
<1>6. /\ \A w \in P : identity[w].customer = c /\ s \in Made /\ w \in Who
      /\ \A t \in threads : t.id \in M => t.customer = c
      /\ \A w \in P : \A t \in threads : t.row = identity[w].row => t.id \in M
  BY MovedRowsAreThere DEF MovedAway
<1>7. PeopleTyped'
  <2>1. threads' \subseteq ThreadRows
    BY <1>3 DEF ThreadsLeft
  <2> QED
    BY <1>1, <1>4, <1>5, <2>1 DEF LetGo, PeopleInv, PeopleTyped
<1>8. IdsAreUnique'
  <2>1. \A w \in Who : identity'[w] # NoRow => identity'[w].row \in Made /\ identity'[w].customer \in Made
    BY <1>4, <1>6 DEF PeopleInv, IdsAreUnique
  <2>2. \A w, v \in Who : identity'[w] # NoRow /\ identity'[w].row = identity'[v].row => w = v
    <3> SUFFICES ASSUME NEW w \in Who, NEW v \in Who, identity'[w] # NoRow,
                        identity'[w].row = identity'[v].row
                 PROVE  w = v
      OBVIOUS
    <3>1. identity[w] # NoRow /\ identity'[w].row = identity[w].row /\ identity[w].row \in Ids
      BY <1>4, PeopleFacts DEF IdentityRows
    <3>2. identity'[v] # NoRow
      <4>1. NoRow.row = 0 /\ 0 \notin Ids
        BY DEF NoRow, Ids
      <4>2. identity'[v].row \in Ids
        BY <3>1
      <4> QED
        BY <4>1, <4>2
    <3>3. identity'[v].row = identity[v].row
      BY <1>4, <3>2
    <3> QED
      BY <3>1, <3>3 DEF PeopleInv, IdsAreUnique
  <2>3. \A u, v \in threads' : u.id = v.id => u = v
    <3> SUFFICES ASSUME NEW u \in threads', NEW v \in threads', u.id = v.id PROVE u = v
      OBVIOUS
    <3>1. PICK t \in threads : /\ u.id = t.id /\ u.row = t.row /\ u \in ThreadRows
                               /\ u.customer = IF t.id \in M THEN s ELSE t.customer
      BY <1>3 DEF ThreadsLeft
    <3>2. PICK q \in threads : /\ v.id = q.id /\ v.row = q.row /\ v \in ThreadRows
                               /\ v.customer = IF q.id \in M THEN s ELSE q.customer
      BY <1>3 DEF ThreadsLeft
    <3>3. t = q
      BY <3>1, <3>2 DEF PeopleInv, IdsAreUnique
    <3>4. u.row = v.row /\ u.customer = v.customer
      BY <3>1, <3>2, <3>3
    <3>5. \A o \in ThreadRows : o = [id |-> o.id, row |-> o.row, customer |-> o.customer]
      BY DEF ThreadRows
    <3>6. /\ u = [id |-> u.id, row |-> u.row, customer |-> u.customer]
          /\ v = [id |-> v.id, row |-> v.row, customer |-> v.customer]
      BY <3>1, <3>2, <3>5
    <3> QED
      BY <3>4, <3>6
  <2>4. \A u \in threads' : u.id <= made.threads
    BY <1>3 DEF ThreadsLeft, PeopleInv, IdsAreUnique
  <2>5. \A k \in Colleagues : /\ \A id \in desk'[k].moved : id <= made.threads
                              /\ desk'[k].at # "idle" => desk'[k].survivor \in Made
    BY <1>5, IdleHoldsNothing DEF LetGo, PeopleInv, IdsAreUnique
  <2>6. customers' \subseteq Made /\ \A p \in pending' : p[1] \in Made
    BY <1>1 DEF PeopleInv, IdsAreUnique
  <2> QED
    BY <2>1, <2>2, <2>3, <2>4, <2>5, <2>6 DEF IdsAreUnique, Made
<1>9. JobsKnow'
  <2>1. ASSUME NEW m \in Messages, job[m].at = "made", NEW w \in Who
        PROVE  identity'[w].row # job[m].row
    <3>1. InHand(m) /\ job[m].row \in Made /\ identity[w].row # job[m].row
      BY <2>1 DEF PeopleInv, JobsKnow, InHand
    <3>2. CASE identity'[w] = NoRow
      BY <3>1, <3>2, PeopleFacts DEF NoRow, Made
    <3>3. CASE identity'[w] # NoRow
      BY <1>4, <3>1, <3>3
    <3> QED
      BY <3>2, <3>3
  <2>2. ASSUME NEW m \in Messages, NEW w \in Who, job[m].at \in {"known", "locked"},
               job[m].customer \in customers', identity'[w] # NoRow, identity'[w].row = job[m].row
        PROVE  identity'[w].customer = job[m].customer
    <3>1. identity[w] # NoRow /\ identity[w].row = job[m].row
      BY <1>4, <2>2
    <3>2. identity[w].customer = job[m].customer /\ job[m].customer # c
      BY <1>1, <2>2, <3>1 DEF PeopleInv, JobsKnow
    <3>3. w \notin P
      BY <1>6, <3>2
    <3> QED
      BY <1>4, <2>2, <3>2, <3>3
  <2> QED
    BY <2>1, <2>2 DEF PeopleInv, JobsKnow, InHand, Made
<1>10. MergesHold'
  <2>1. \A w \in Who : HeldByJob(w)' => HeldByJob(w)
    BY <1>4 DEF HeldByJob, Holder
  <2>2. \A k \in Colleagues : desk[k].people \subseteq Who
    BY PeopleFacts DEF DeskRows
  <2>3. ASSUME NEW k \in Colleagues, desk'[k] # Idle
        PROVE  /\ desk'[k] = desk[k]
               /\ \A w \in desk[k].people : identity'[w] = identity[w] /\ ~HeldByJob(w)'
               /\ \A u \in threads' : u.id \in desk[k].moved => u.customer = desk[k].absorbed
               /\ (desk[k].at = "conversations" => \A w \in desk[k].people : \A u \in threads' :
                    u.row = identity[w].row => u.id \in desk[k].moved)
    <3>1. /\ desk'[k] = desk[k]
          /\ \A w \in desk[k].people : identity[w].customer # c
          /\ \A t \in threads : t.id \in desk[k].moved => t.customer # c
      BY <1>5, <2>3 DEF LetGo
    <3>2. ASSUME NEW w \in desk[k].people PROVE identity'[w] = identity[w] /\ ~HeldByJob(w)'
      <4>1. w \in Who /\ w \notin P /\ identity[w].customer # c
        BY <1>6, <2>2, <3>1
      <4>2. identity[w].customer = desk[k].absorbed /\ ~HeldByJob(w)
        BY DEF PeopleInv, MergesHold
      <4>3. identity'[w] = identity[w]
        BY <1>4, <4>1
      <4> QED
        BY <2>1, <4>1, <4>2, <4>3
    <3>3. ASSUME NEW u \in threads', u.id \in desk[k].moved PROVE u.customer = desk[k].absorbed
      <4>1. PICK t \in threads : u.id = t.id /\ u.customer = IF t.id \in M THEN s ELSE t.customer
        BY <1>3 DEF ThreadsLeft
      <4>2. t.customer = desk[k].absorbed /\ t.customer # c
        BY <3>1, <3>3, <4>1 DEF PeopleInv, MergesHold
      <4> QED
        BY <1>6, <4>1, <4>2
    <3>4. ASSUME desk[k].at = "conversations", NEW w \in desk[k].people, NEW u \in threads',
                 u.row = identity[w].row
          PROVE  u.id \in desk[k].moved
      <4>1. PICK t \in threads : u.id = t.id /\ u.row = t.row
        BY <1>3 DEF ThreadsLeft
      <4>2. \A v \in desk[k].people : \A q \in threads : q.row = identity[v].row => q.id \in desk[k].moved
        BY <3>4 DEF PeopleInv, MergesHold
      <4>3. t.row = identity[w].row
        BY <3>4, <4>1
      <4>4. t.id \in desk[k].moved
        BY <4>2, <4>3
      <4> QED
        BY <4>1, <4>4
    <3> QED
      BY <3>1, <3>2, <3>3, <3>4
  <2> QED
    BY <2>3, IdleHoldsNothing DEF PeopleInv, MergesHold
<1>11. ConversationFollowsIdentity'
  <2> SUFFICES ASSUME NEW u \in threads'
               PROVE  \E w \in Who : identity'[w] = [row |-> u.row, customer |-> u.customer]
    BY DEF ConversationFollowsIdentity
  <2>1. PICK t \in threads :
          /\ u.id = t.id /\ u.row = t.row /\ u.customer = (IF t.id \in M THEN s ELSE t.customer)
          /\ u.customer # c
          /\ \A w \in Who : identity'[w] = NoRow => identity[w].row # u.row
    BY <1>3 DEF ThreadsLeft
  <2>2. PICK w \in Who : identity[w] = [row |-> t.row, customer |-> t.customer]
    BY DEF PeopleInv, ConversationFollowsIdentity
  <2>3. identity[w].row = t.row /\ identity[w].customer = t.customer
    BY <2>2
  <2>4. identity'[w] # NoRow
    BY <2>1, <2>3
  <2>5. identity'[w].row = t.row /\ identity'[w] \in IdentityRows
    BY <1>4, <2>3, <2>4
  <2>6. identity'[w].customer = u.customer
    <3>1. CASE w \in P
      <4>1. t.id \in M
        BY <1>6, <2>3, <3>1
      <4> QED
        BY <1>4, <2>1, <2>4, <3>1, <4>1
    <3>2. CASE w \notin P
      <4>1. identity'[w].customer = t.customer /\ t.customer # c
        BY <1>4, <2>3, <2>4, <3>2
      <4>2. t.id \notin M
        BY <1>6, <4>1
      <4> QED
        BY <2>1, <4>1, <4>2
    <3> QED
      BY <3>1, <3>2
  <2> QED
    BY <2>1, <2>5, <2>6 DEF IdentityRows
<1> QED
  BY <1>7, <1>8, <1>9, <1>10, <1>11 DEF PeopleInv

LEMMA CommitMergeKept ==
  ASSUME PeopleInv, NEW k \in Colleagues, CommitMerge(k)
  PROVE  PeopleInv'
<1> DEFINE c == desk[k].absorbed
           s == desk[k].survivor
           P == desk[k].people
           M == desk[k].moved
           people == [w \in Who |-> IF w \in P THEN [identity[w] EXCEPT !.customer = s] ELSE identity[w]]
           talks == {IF t.id \in M THEN [t EXCEPT !.customer = s] ELSE t : t \in threads}
<1>1. /\ desk[k].at = "conversations" /\ MayDelete(c, P, M)
      /\ DeleteCustomer(c, people, talks)
      /\ desk' = [desk EXCEPT ![k] = Idle] /\ UNCHANGED <<job, asked, made>>
  BY DEF CommitMerge
<1>2. phone' \subseteq phone \cup {s} /\ check' = check \cup {s}
  BY DEF CommitMerge
<1>3. /\ c \in Ids /\ s \in Ids /\ s # c /\ s \in Made
      /\ \A w \in P : identity[w].customer = c
      /\ \A t \in threads : t.id \in M => t.customer = c
      /\ \A w \in P : \A t \in threads : t.row = identity[w].row => t.id \in M
      /\ \A j \in Colleagues \ {k} : desk[j].people \cap P = {} /\ desk[j].moved \cap M = {}
      /\ P \in SUBSET Who
  <2>1. desk[k] \in DeskRows
    BY PeopleFacts
  <2> QED
    BY <1>1, <2>1 DEF PeopleInv, MergesHold, IdsAreUnique, DeskRows
<1>4. \A j \in Colleagues :
        \/ desk'[j] = Idle
        \/ /\ desk'[j] = desk[j]
           /\ \A w \in desk[j].people : identity[w].customer # c
           /\ \A t \in threads : t.id \in desk[j].moved => t.customer # c
  <2> SUFFICES ASSUME NEW j \in Colleagues, j # k
               PROVE  /\ desk'[j] = desk[j]
                      /\ \A w \in desk[j].people : identity[w].customer # c
                      /\ \A t \in threads : t.id \in desk[j].moved => t.customer # c
    BY <1>1, PeopleFacts
  <2>1. desk'[j] = desk[j] /\ desk[j].people \subseteq Who
    BY <1>1, PeopleFacts DEF DeskRows
  <2>2. ASSUME NEW w \in desk[j].people, identity[w].customer = c PROVE FALSE
    BY <1>1, <1>3, <2>1, <2>2 DEF MayDelete, Of, HeldByMerge
  <2>3. ASSUME NEW t \in threads, t.id \in desk[j].moved, t.customer = c PROVE FALSE
    BY <1>1, <1>3, <2>3 DEF MayDelete, ThreadHeld
  <2> QED
    BY <2>1, <2>2, <2>3
<1>5. desk' \in [Colleagues -> DeskRows]
  BY <1>1, IdleHoldsNothing, PeopleFacts
<1>6. phone' \subseteq Ids /\ check' \subseteq Ids /\ asked' \subseteq Ids
  BY <1>1, <1>2, <1>3 DEF PeopleInv, PeopleTyped
<1>7. \A w \in Who : people[w] = IF w \in P THEN [row |-> identity[w].row, customer |-> s]
                                  ELSE identity[w]
  <2>1. \A w \in P : identity[w] \in IdentityRows
    BY <1>3, PeopleFacts DEF NoRow, Ids
  <2>2. \A w \in P : [identity[w] EXCEPT !.customer = s] = [row |-> identity[w].row, customer |-> s]
    BY <2>1 DEF IdentityRows
  <2> QED
    BY <2>2
<1>8. \A u \in talks : \E t \in threads :
        /\ u \in ThreadRows /\ u.id = t.id /\ u.row = t.row
        /\ u.customer = IF t.id \in M THEN s ELSE t.customer
  <2> SUFFICES ASSUME NEW t \in threads, NEW u, u = IF t.id \in M THEN [t EXCEPT !.customer = s] ELSE t
               PROVE  /\ u \in ThreadRows /\ u.id = t.id /\ u.row = t.row
                      /\ u.customer = IF t.id \in M THEN s ELSE t.customer
    OBVIOUS
  <2>1. t \in ThreadRows /\ s \in Ids
    BY <1>3, PeopleFacts
  <2> QED
    BY <2>1 DEF ThreadRows
<1> HIDE DEF c, s, P, M, people, talks
<1>9. MovedAway(c, s, P, M)
  BY <1>3 DEF MovedAway
<1>10. PointedAt(people, s, P) /\ CameFrom(talks, s, M)
  BY <1>7, <1>8 DEF PointedAt, CameFrom
<1>11. LetGo(c)
  BY <1>4, <1>5 DEF LetGo
<1> QED
  BY <1>1, <1>3, <1>6, <1>9, <1>10, <1>11, DeleteKept

LEMMA EraseCustomerKept ==
  ASSUME PeopleInv, NEW c \in Ids, EraseCustomer(c)
  PROVE  PeopleInv'
<1>1. /\ MayDelete(c, {}, {}) /\ DeleteCustomer(c, identity, threads)
      /\ asked' \subseteq asked /\ UNCHANGED <<phone, job, desk, check, made>>
  BY DEF EraseCustomer
<1>5. \A k \in Colleagues :
        /\ \A w \in desk[k].people : identity[w].customer # c
        /\ \A t \in threads : t.id \in desk[k].moved => t.customer # c
  <2>1. \A k \in Colleagues : desk[k].people \subseteq Who
    BY PeopleFacts DEF DeskRows
  <2> QED
    BY <1>1, <2>1 DEF MayDelete, Of, HeldByMerge, ThreadHeld
<1>6. desk' \in [Colleagues -> DeskRows] /\ \A k \in Colleagues : desk'[k] = desk[k]
  BY <1>1, PeopleFacts
<1>7. phone' \subseteq Ids /\ check' \subseteq Ids /\ asked' \subseteq Ids
  BY <1>1 DEF PeopleInv, PeopleTyped
<1>8. MovedAway(c, c, {}, {})
  BY DEF MovedAway
<1>9. PointedAt(identity, c, {}) /\ CameFrom(threads, c, {})
  BY PeopleFacts DEF PointedAt, CameFrom
<1>10. LetGo(c)
  BY <1>5, <1>6 DEF LetGo
<1> QED
  BY <1>1, <1>7, <1>8, <1>9, <1>10, DeleteKept

LEMMA PeopleInvHolds == PeopleSpec => []PeopleInv
<1>1. PeopleInv /\ UNCHANGED records => PeopleInv'
  <2> SUFFICES ASSUME PeopleInv, UNCHANGED records PROVE PeopleInv'
    OBVIOUS
  <2>1. /\ phone' \subseteq Ids /\ check' \subseteq Ids /\ asked' \subseteq Ids
        /\ UNCHANGED <<customers, identity, threads, job, desk, made>>
        /\ pending' = pending /\ rejected' = rejected
    BY DEF records, PeopleInv, PeopleTyped
  <2> QED
    BY <2>1, RecordsAside DEF PeopleInv, PeopleTyped, IdsAreUnique, Made
<1>2. PeopleInv /\ PeopleNext => PeopleInv'
  <2> SUFFICES ASSUME PeopleInv, PeopleNext PROVE PeopleInv'
    OBVIOUS
  <2>1. ASSUME NEW m \in Messages,
               \/ ReadIdentity(m) \/ InsertIdentity(m) \/ TakeWinners(m)
               \/ LockIdentity(m) \/ Converse(m) \/ RetryJob(m)
        PROVE  PeopleInv'
    BY <2>1, ReadIdentityKept, InsertIdentityKept, TakeWinnersKept, LockIdentityKept,
       ConverseKept, RetryJobKept
  <2>2. ASSUME NEW c \in Ids,
               RecordField(c) \/ Suggest(c) \/ AskErasure(c) \/ EraseCustomer(c)
        PROVE  PeopleInv'
    BY <2>2, FieldsKept, EraseCustomerKept
  <2>3. ASSUME NEW p \in Pairs, Reject(p) PROVE PeopleInv'
    BY <2>3, RejectKept
  <2>4. ASSUME NEW k \in Colleagues, NEW p \in Pairs, Accept(k, p) PROVE PeopleInv'
    BY <2>4, AcceptKept
  <2>5. ASSUME NEW k \in Colleagues, RepointIdentities(k) \/ RepointConversations(k) \/ CommitMerge(k)
        PROVE  PeopleInv'
    BY <2>5, RepointIdentitiesKept, RepointConversationsKept, CommitMergeKept
  <2>6. ASSUME NEW k \in Colleagues, AbandonMerge(k) PROVE PeopleInv'
    BY <2>6, AbandonKept DEF AbandonMerge
  <2> QED
    BY <2>1, <2>2, <2>3, <2>4, <2>5, <2>6 DEF PeopleNext
<1> QED
  BY <1>1, <1>2, PeopleStart, PTL DEF PeopleSpec

LEMMA PeopleTypes == PeopleInv => PeopleTypeOK
BY DEF PeopleInv, PeopleTyped, PeopleTypeOK, IdentityRows, ThreadRows, JobRows, DeskRows, MadeRows, Rows

(* A conversation belongs to the customer its identity belongs to, whatever *)
(* is resolved, joined and erased at once (repo.ts:296-340, merge.ts:226-   *)
(* 305, retention.ts:373-379).                                              *)
THEOREM OneCustomerEach == PeopleSpec => []ConversationFollowsIdentity
<1>1. PeopleInv => ConversationFollowsIdentity
  BY DEF PeopleInv
<1> QED
  BY <1>1, PeopleInvHolds, PTL

-----------------------------------------------------------------------------
(* The chat in a customer's page.                                           *)

SentRows == [nr : Nat, stamp : Nat]
BubbleRows == [by : {"page", "server"}, of : Nat, word : Words,
               text : {"masked", "as typed"}, pending : BOOLEAN]
PostRows == [at : {"none", "sent", "taken", "refused", "failed"}, nr : Nat]

WidgetTyped ==
  /\ standing \in {"active", "suspended"} /\ session \in {"none", "good", "lapsed"}
  /\ shut \in BOOLEAN /\ box \subseteq Words /\ sends \in Seq(Words) /\ post \in PostRows
  /\ events \subseteq DOMAIN sends /\ stamps \in Nat
  /\ writing \subseteq SentRows /\ inbox \subseteq SentRows /\ bubbles \subseteq BubbleRows

(* A message is stored once for each event, and read before it is seen.     *)
StoredOnce ==
  /\ post.at # "none" => post.nr \in DOMAIN sends
  /\ \A m \in writing \cup inbox : m.nr \in {0} \cup events /\ m.stamp \in 1 .. stamps
  /\ \A m, n \in writing \cup inbox : m.nr = n.nr /\ m.nr > 0 => m = n
  /\ writing \cap inbox = {}
  /\ seen \subseteq inbox /\ \A p \in polls : p.rows \subseteq inbox

(* A word is sent again only after its bubble came down, so that at most    *)
(* one bubble of a word waits to be recognised; its message is not seen.    *)
OneWaits ==
  /\ \A x, y \in bubbles : x.pending /\ y.pending /\ x.word = y.word => x = y
  /\ \A x \in bubbles : x.pending =>
       /\ x.word \notin box /\ x.text = "as typed" /\ x.of \in DOMAIN sends /\ sends[x.of] = x.word
       /\ x.word \notin Masked => \A m \in seen : m.nr # x.of

(* Each bubble that waits no longer stands for a message that was seen.     *)
Shown(w) == {x \in bubbles : x.word = w /\ ~x.pending}
Heard(w) == {m \in seen : m.nr > 0 /\ sends[m.nr] = w}
EachStandsForOne == \A w \in Words \ Masked : \E f \in Injection(Shown(w), Heard(w)) : TRUE

WidgetInv == WidgetTyped /\ StoredOnce /\ OneWaits /\ EachStandsForOne

LEMMA InjectMore ==
  ASSUME NEW D, NEW H, NEW f \in Injection(D, H), NEW O, H \cap O = {}, NEW g,
         NEW E, \A x \in E : x \in D \/ \E m \in O : x = g[m]
  PROVE  \E h \in Injection(E, H \cup O) : TRUE
<1> DEFINE h == [x \in E |-> IF x \in D THEN f[x] ELSE CHOOSE m \in O : x = g[m]]
<1>1. \A x \in E : /\ x \in D => h[x] = f[x] /\ h[x] \in H
                   /\ x \notin D => h[x] \in O /\ x = g[h[x]]
  BY DEF Injection, IsInjective
<1>2. \A x, y \in E : h[x] = h[y] => x = y
  BY <1>1 DEF Injection, IsInjective
<1>3. h \in [E -> H \cup O]
  BY <1>1
<1> QED
  BY <1>2, <1>3 DEF Injection, IsInjective

(* What is in fewer bubbles or more messages still fits.                    *)
LEMMA StillFits ==
  ASSUME NEW D, NEW H, NEW f \in Injection(D, H), NEW E \in SUBSET D, NEW G, H \subseteq G
  PROVE  \E h \in Injection(E, G) : TRUE
<1> DEFINE h == [x \in E |-> f[x]]
<1>1. \A x, y \in E : h[x] = h[y] => x = y
  BY DEF Injection, IsInjective
<1>2. h \in [E -> G]
  BY DEF Injection
<1> QED
  BY <1>1, <1>2 DEF Injection, IsInjective

LEMMA WidgetStart == WidgetInit => WidgetInv
<1> SUFFICES ASSUME WidgetInit PROVE WidgetInv
  OBVIOUS
<1>1. << >> \in Seq(Words) /\ DOMAIN << >> = {}
  OBVIOUS
<1>2. WidgetTyped /\ StoredOnce /\ OneWaits
  BY <1>1 DEF WidgetInit, WidgetTyped, StoredOnce, OneWaits, NoPost, PostRows
<1>3. ASSUME NEW w \in Words \ Masked PROVE \E f \in Injection(Shown(w), Heard(w)) : TRUE
  <2>1. Shown(w) = {} /\ Heard(w) = {}
    BY DEF WidgetInit, Shown, Heard
  <2>2. [x \in {} |-> x] \in Injection({}, {})
    BY DEF Injection, IsInjective
  <2> QED
    BY <2>1, <2>2
<1> QED
  BY <1>2, <1>3 DEF WidgetInv, EachStandsForOne

(* The page is left as it is.                                               *)
LEMMA PageAside ==
  ASSUME WidgetInv, UNCHANGED <<box, sends, seen, bubbles>>, WidgetTyped', StoredOnce'
  PROVE  WidgetInv'
BY DEF WidgetInv, OneWaits, EachStandsForOne, Shown, Heard

(* The service, the requests and the session: nothing drawn changes.        *)
LEMMA ServiceKept ==
  ASSUME WidgetInv,
         \/ \E nr \in events : StampInbound(nr)
         \/ StampReply
         \/ \E m \in writing : CommitRow(m)
         \/ SuspendService \/ RestoreService
  PROVE  WidgetInv'
<1> USE DEF WidgetInv, WidgetTyped, StoredOnce, page
<1>1. ASSUME NEW nr \in events, StampInbound(nr) PROVE WidgetInv'
  <2> DEFINE row == [nr |-> nr, stamp |-> stamps + 1]
  <2>1. nr \in Nat /\ nr > 0
    BY ElementOfSeq
  <2>2. row \in SentRows /\ row.nr = nr /\ row.stamp = stamps + 1
    BY <2>1 DEF SentRows
  <2>3. /\ writing' = writing \cup {row} /\ stamps' = stamps + 1
        /\ \A m \in writing \cup inbox : m.nr # nr
        /\ UNCHANGED <<standing, events, inbox, post, polls, session, shut, box, sends, since, seen, bubbles>>
    BY <1>1 DEF StampInbound
  <2> HIDE DEF row
  <2>4. WidgetTyped'
    BY <2>2, <2>3
  <2>5. StoredOnce'
    BY <2>2, <2>3
  <2> QED
    BY <2>3, <2>4, <2>5, PageAside
<1>2. ASSUME StampReply PROVE WidgetInv'
  <2> DEFINE row == [nr |-> 0, stamp |-> stamps + 1]
  <2>1. row \in SentRows /\ row.nr = 0 /\ row.stamp = stamps + 1
    BY DEF SentRows
  <2>2. /\ writing' = writing \cup {row} /\ stamps' = stamps + 1
        /\ UNCHANGED <<standing, events, inbox, post, polls, session, shut, box, sends, since, seen, bubbles>>
    BY <1>2 DEF StampReply
  <2> HIDE DEF row
  <2>3. WidgetTyped'
    BY <2>1, <2>2
  <2>4. StoredOnce'
    BY <2>1, <2>2
  <2> QED
    BY <2>2, <2>3, <2>4, PageAside
<1>3. ASSUME NEW m \in writing, CommitRow(m) PROVE WidgetInv'
  <2>1. /\ writing' = writing \ {m} /\ inbox' = inbox \cup {m}
        /\ UNCHANGED <<standing, events, stamps, post, polls, session, shut, box, sends, since, seen, bubbles>>
    BY <1>3 DEF CommitRow
  <2>2. WidgetTyped' /\ StoredOnce'
    BY <2>1
  <2> QED
    BY <2>1, <2>2, PageAside
<1>4. ASSUME SuspendService \/ RestoreService PROVE WidgetInv'
  <2>1. /\ standing' \in {"active", "suspended"}
        /\ UNCHANGED <<events, writing, inbox, stamps, post, polls, session, shut, box, sends, since, seen, bubbles>>
    BY <1>4 DEF SuspendService, RestoreService
  <2>2. WidgetTyped' /\ StoredOnce'
    BY <2>1
  <2> QED
    BY <2>1, <2>2, PageAside
<1> QED
  BY <1>1, <1>2, <1>3, <1>4

LEMMA RequestsKept ==
  ASSUME WidgetInv,
         \/ AcceptMessage \/ RefuseMessage \/ LoseSend \/ RefuseSession \/ SendTaken
         \/ SessionLapses \/ DropSession \/ RenewSession \/ RefuseRenewal
         \/ Poll
         \/ \E p \in polls : PollIsRefused(p) \/ LosePoll(p)
  PROVE  WidgetInv'
<1> USE DEF WidgetInv, WidgetTyped, StoredOnce, page, service
<1>1. ASSUME AcceptMessage \/ RefuseMessage \/ LoseSend \/ RefuseSession \/ SendTaken PROVE WidgetInv'
  <2>1. /\ events' = events \/ (events' = events \cup {post.nr} /\ post.at = "sent")
        /\ post' \in PostRows /\ (post'.at # "none" => post.at # "none" /\ post'.nr = post.nr)
        /\ UNCHANGED <<standing, writing, inbox, stamps, polls, session, shut, box, sends, since, seen, bubbles>>
    <3>1. ASSUME NEW s \in {"taken", "refused", "failed"}, Answered(s)
          PROVE  post' \in PostRows /\ post'.nr = post.nr
      BY <3>1 DEF Answered, PostRows
    <3>2. NoPost \in PostRows /\ NoPost.at = "none"
      BY DEF NoPost, PostRows
    <3> HIDE DEF WidgetInv, WidgetTyped, StoredOnce
    <3> QED
      BY <1>1, <3>1, <3>2
         DEF AcceptMessage, RefuseMessage, LoseSend, RefuseSession, SendTaken
  <2>2. WidgetTyped' /\ StoredOnce'
    BY <2>1
  <2> QED
    BY <2>1, <2>2, PageAside
<1>2. ASSUME SessionLapses \/ DropSession \/ RenewSession \/ RefuseRenewal PROVE WidgetInv'
  <2>1. /\ session' \in {"none", "good", "lapsed"} /\ shut' \in BOOLEAN
        /\ UNCHANGED <<standing, events, writing, inbox, stamps, post, polls, box, sends, since, seen, bubbles>>
    BY <1>2 DEF SessionLapses, DropSession, RenewSession, RefuseRenewal, Renewed
  <2>2. WidgetTyped' /\ StoredOnce'
    BY <2>1
  <2> QED
    BY <2>1, <2>2, PageAside
<1>3. ASSUME Poll PROVE WidgetInv'
  <2>1. /\ \A p \in polls' : p \in polls \/ p.rows \subseteq inbox
        /\ UNCHANGED <<standing, events, writing, inbox, stamps, post, session, shut, box, sends, since, seen, bubbles>>
    BY <1>3 DEF Poll
  <2>2. WidgetTyped' /\ StoredOnce'
    BY <2>1
  <2> QED
    BY <2>1, <2>2, PageAside
<1>4. ASSUME NEW p \in polls, PollIsRefused(p) \/ LosePoll(p) PROVE WidgetInv'
  <2>1. /\ polls' \subseteq polls /\ shut' \in BOOLEAN
        /\ UNCHANGED <<standing, events, writing, inbox, stamps, post, session, box, sends, since, seen, bubbles>>
    BY <1>4 DEF PollIsRefused, LosePoll
  <2>2. WidgetTyped' /\ StoredOnce'
    BY <2>1
  <2> QED
    BY <2>1, <2>2, PageAside
<1> QED
  BY <1>1, <1>2, <1>3, <1>4

LEMMA SubmitKept ==
  ASSUME WidgetInv, NEW w \in Words, Submit(w)
  PROVE  WidgetInv'
<1> DEFINE nr == Len(sends) + 1
           bubble == Drawn("page", nr, w, "as typed")
           sent == [at |-> "sent", nr |-> nr]
<1>1. /\ sends \in Seq(Words) /\ Len(sends) \in Nat /\ DOMAIN sends = 1 .. Len(sends)
      /\ sends' = Append(sends, w) /\ sends' \in Seq(Words) /\ Len(sends') = nr
      /\ DOMAIN sends' = 1 .. nr /\ sends'[nr] = w
      /\ \A j \in DOMAIN sends : j \in DOMAIN sends' /\ sends'[j] = sends[j]
  <2>1. sends \in Seq(Words) /\ sends' = Append(sends, w)
    BY DEF Submit, WidgetInv, WidgetTyped
  <2> QED
    BY <2>1, AppendProperties
<1>2. /\ w \in box /\ box' = box \ {w} /\ post' = sent /\ bubbles' = bubbles \cup {bubble}
      /\ UNCHANGED <<session, shut, since, seen, polls, standing, events, writing, inbox, stamps>>
  BY <1>1 DEF Submit, service
<1>3. sent \in PostRows /\ sent.nr = nr
  BY <1>1 DEF PostRows
<1>4. /\ bubble \in BubbleRows /\ bubble.pending /\ bubble.word = w /\ bubble.text = "as typed"
      /\ bubble.of = nr
  <2>1. bubble = [by |-> "page", of |-> nr, word |-> w, text |-> "as typed", pending |-> TRUE]
    BY DEF Drawn
  <2>2. nr \in Nat
    BY <1>1
  <2> HIDE DEF nr
  <2>3. \A j \in Nat : [by |-> "page", of |-> j, word |-> w, text |-> "as typed", pending |-> TRUE] \in BubbleRows
    BY DEF BubbleRows
  <2> HIDE DEF bubble
  <2> QED
    BY <2>1, <2>2, <2>3
<1>5. /\ WidgetTyped /\ StoredOnce /\ OneWaits /\ EachStandsForOne
  BY DEF WidgetInv
<1> HIDE DEF nr, bubble, sent
<1>6. WidgetTyped'
  BY <1>1, <1>2, <1>3, <1>4, <1>5 DEF WidgetTyped
<1>7. StoredOnce'
  BY <1>1, <1>2, <1>3, <1>5 DEF StoredOnce
<1>8. \A m \in seen : m.nr # nr /\ (m.nr > 0 => m.nr \in DOMAIN sends)
  <2>1. \A m \in seen : m.nr \in {0} \cup events
    BY <1>5 DEF StoredOnce
  <2>2. \A j \in DOMAIN sends : j # nr
    BY <1>1 DEF nr
  <2>3. nr # 0
    BY <1>1 DEF nr
  <2> QED
    BY <1>5, <2>1, <2>2, <2>3 DEF WidgetTyped
<1>9. OneWaits'
  <2>1. \A x \in bubbles : x.pending => x.word # w
    BY <1>2, <1>5 DEF OneWaits
  <2>2. nr \in DOMAIN sends'
    BY <1>1 DEF nr
  <2>3. \A x, y \in bubbles' : x.pending /\ y.pending /\ x.word = y.word => x = y
    BY <1>2, <1>4, <1>5, <2>1 DEF OneWaits
  <2>4. ASSUME NEW x \in bubbles, x.pending
        PROVE  /\ x.word \notin box' /\ x.text = "as typed" /\ x.of \in DOMAIN sends'
               /\ sends'[x.of] = x.word /\ (x.word \notin Masked => \A m \in seen : m.nr # x.of)
    BY <1>1, <1>2, <1>5, <2>4 DEF OneWaits
  <2>5. /\ bubble.word \notin box' /\ bubble.text = "as typed" /\ bubble.of \in DOMAIN sends'
        /\ sends'[bubble.of] = bubble.word /\ \A m \in seen : m.nr # bubble.of
    BY <1>1, <1>2, <1>4, <1>8, <2>2
  <2> QED
    BY <1>2, <2>3, <2>4, <2>5 DEF OneWaits
<1>10. \A v \in Words : Shown(v)' = Shown(v) /\ Heard(v)' = Heard(v)
  BY <1>1, <1>2, <1>4, <1>8 DEF Shown, Heard
<1>11. EachStandsForOne'
  BY <1>5, <1>10 DEF EachStandsForOne
<1> QED
  BY <1>6, <1>7, <1>9, <1>11 DEF WidgetInv

LEMMA NoMoreThanItself == \A j \in Nat : j <= j
OBVIOUS

(* The oldest bubble of a word that waits is the only one.                  *)
LEMMA OldestWaits ==
  ASSUME WidgetInv, NEW w \in Words, Pending(w, "as typed") # {}
  PROVE  /\ Oldest(Pending(w, "as typed")) \in bubbles
         /\ Oldest(Pending(w, "as typed")).pending /\ Oldest(Pending(w, "as typed")).word = w
         /\ \A x \in bubbles : x.pending /\ x.word = w => x = Oldest(Pending(w, "as typed"))
<1> DEFINE mine == Pending(w, "as typed")
<1>1. PICK x \in mine : TRUE
  OBVIOUS
<1>2. /\ \A y \in mine : y \in bubbles /\ y.pending /\ y.word = w /\ y.of \in Nat
      /\ \A y \in bubbles : y.pending /\ y.word = w => y \in mine
  BY DEF Pending, WidgetInv, WidgetTyped, OneWaits, BubbleRows
<1>3. \A y \in mine : y = x
  BY <1>1, <1>2 DEF WidgetInv, OneWaits
<1> HIDE DEF mine
<1>4. \E y \in mine : \A z \in mine : y.of <= z.of
  <2>1. x \in mine /\ x.of <= x.of
    BY <1>1, <1>2, NoMoreThanItself
  <2> QED
    BY <1>3, <2>1
<1>5. Oldest(mine) \in mine
  BY <1>4 DEF Oldest
<1> QED
  BY <1>2, <1>3, <1>5 DEF mine

LEMMA SendFailsKept ==
  ASSUME WidgetInv, SendFails
  PROVE  WidgetInv'
<1> DEFINE w == sends[post.nr]
           mine == Pending(w, "as typed")
<1>1. /\ bubbles' = IF mine = {} THEN bubbles ELSE bubbles \ {Oldest(mine)}
      /\ box' = IF post.at = "failed" THEN box \cup {w} ELSE box
      /\ shut' = (shut \/ post.at = "refused") /\ post' = NoPost /\ post.at \in {"failed", "refused"}
      /\ UNCHANGED <<session, sends, since, seen, polls, standing, events, writing, inbox, stamps>>
  BY DEF SendFails, SendOf, service
<1>2. /\ WidgetTyped /\ StoredOnce /\ OneWaits /\ EachStandsForOne
  BY DEF WidgetInv
<1>3. w \in Words
  <2>1. post.nr \in DOMAIN sends /\ sends \in Seq(Words)
    BY <1>1, <1>2 DEF StoredOnce, WidgetTyped
  <2> QED
    BY <2>1, ElementOfSeq
<1>4. /\ bubbles' \subseteq bubbles /\ \A x \in bubbles' : x.pending => x.word # w
      /\ \A x \in bubbles : ~x.pending => x \in bubbles'
  <2>1. CASE mine = {}
    <3>1. \A x \in bubbles : x.pending /\ x.word = w => x \in mine
      BY <1>2 DEF Pending, OneWaits
    <3> QED
      BY <1>1, <2>1, <3>1
  <2>2. CASE mine # {}
    BY <1>1, <1>3, <2>2, OldestWaits
  <2> QED
    BY <2>1, <2>2
<1> HIDE DEF w, mine
<1>5. WidgetTyped'
  <2>1. NoPost \in PostRows
    BY DEF NoPost, PostRows
  <2>2. shut' \in BOOLEAN
    BY <1>1
  <2> QED
    BY <1>1, <1>2, <1>3, <1>4, <2>1, <2>2 DEF WidgetTyped
<1>6. StoredOnce'
  BY <1>1, <1>2 DEF StoredOnce, NoPost
<1>7. OneWaits'
  BY <1>1, <1>2, <1>4 DEF OneWaits
<1>8. \A v \in Words : Shown(v)' = Shown(v) /\ Heard(v)' = Heard(v)
  BY <1>1, <1>4 DEF Shown, Heard
<1>9. EachStandsForOne'
  BY <1>2, <1>8 DEF EachStandsForOne
<1> QED
  BY <1>5, <1>6, <1>7, <1>9 DEF WidgetInv

(* Of messages that arrive together there is one stamped first.             *)
LEMMA FirstIsThere ==
  ASSUME NEW S, S # {}, \A m \in S : m.stamp \in Nat
  PROVE  \E m \in S : \A n \in S : m.stamp <= n.stamp
<1> DEFINE Below == OpToRel(<, Nat)
           T == {m.stamp : m \in S}
<1>1. IsWellFoundedOn(Below, Nat)
  BY NatLessThanWellFounded
<1>2. \A x, y \in Nat : x < y => <<x, y>> \in Below
  BY DEF OpToRel
<1> HIDE DEF Below
<1>3. T \subseteq Nat /\ T # {}
  OBVIOUS
<1>4. PICK least \in T : \A y \in T : ~ (<<y, least>> \in Below)
  BY <1>1, <1>3, WFMin
<1>5. \A y \in T : least <= y
  <2> SUFFICES ASSUME NEW y \in T PROVE least <= y
    OBVIOUS
  <2>1. y \in Nat /\ least \in Nat
    BY <1>3
  <2>2. ~ (y < least)
    BY <1>2, <1>4, <2>1
  <2> QED
    BY <2>1, <2>2
<1> QED
  BY <1>4, <1>5

LEMMA PollArrivesKept ==
  ASSUME WidgetInv, NEW p \in polls, PollArrives(p)
  PROVE  WidgetInv'
<1> DEFINE fresh == p.rows \ seen
           own == {m \in fresh : m.nr > 0}
           Awaits(m) == Pending(SendOf(m.nr), StoredText(SendOf(m.nr)))
           First(m) == \A o \in own : SendOf(o.nr) = SendOf(m.nr) => m.stamp <= o.stamp
           copies == {m \in own : First(m) /\ Awaits(m) # {}}
           adopted == {Oldest(Awaits(m)) : m \in copies}
           Server(m) == Drawn("server", m.nr, SendOf(m.nr), StoredText(SendOf(m.nr)))
<1>1. /\ seen' = seen \cup fresh
      /\ bubbles' = (bubbles \ adopted) \cup {[x EXCEPT !.pending = FALSE] : x \in adopted}
                      \cup {Server(m) : m \in own \ copies}
      /\ polls' = polls \ {p}
      /\ UNCHANGED <<session, shut, box, sends, post, standing, events, writing, inbox, stamps>>
  BY DEF PollArrives, service
<1>2. /\ WidgetTyped /\ StoredOnce /\ OneWaits /\ EachStandsForOne
  BY DEF WidgetInv
<1>3. /\ fresh \subseteq inbox /\ fresh \cap seen = {}
      /\ \A m \in fresh : m.nr \in Nat /\ m.stamp \in Nat /\ m.nr \in {0} \cup events
  BY <1>2 DEF StoredOnce, WidgetTyped, SentRows
<1>4. \A m \in own : /\ m.nr \in DOMAIN sends /\ SendOf(m.nr) = sends[m.nr] /\ SendOf(m.nr) \in Words
                     /\ m \in fresh
  <2>1. \A m \in own : m.nr \in DOMAIN sends /\ m \in fresh
    BY <1>2, <1>3 DEF WidgetTyped
  <2>2. \A j \in DOMAIN sends : sends[j] \in Words
    BY <1>2, ElementOfSeq DEF WidgetTyped
  <2> QED
    BY <2>1, <2>2 DEF SendOf
(* What adopts a bubble adopts the one of its word that waits.              *)
<1>5. ASSUME NEW m \in copies
      PROVE  /\ Oldest(Awaits(m)) \in bubbles /\ Oldest(Awaits(m)).pending
             /\ Oldest(Awaits(m)).word = SendOf(m.nr) /\ SendOf(m.nr) \notin Masked
             /\ \A x \in bubbles : x.pending /\ x.word = SendOf(m.nr) => x = Oldest(Awaits(m))
  <2>1. Awaits(m) # {} /\ SendOf(m.nr) \in Words
    BY <1>4
  <2>2. StoredText(SendOf(m.nr)) = "as typed" /\ SendOf(m.nr) \notin Masked
    <3>1. PICK x \in bubbles : x.pending /\ x.text = StoredText(SendOf(m.nr))
      BY <2>1 DEF Pending
    <3>2. x.text = "as typed"
      BY <1>2, <3>1 DEF OneWaits
    <3> QED
      BY <3>1, <3>2 DEF StoredText
  <2> DEFINE w == SendOf(m.nr)
  <2>3. Awaits(m) = Pending(w, "as typed") /\ w \in Words
    BY <2>1, <2>2
  <2> HIDE DEF w, Awaits
  <2>4. Pending(w, "as typed") # {}
    BY <2>1, <2>3
  <2>5. /\ Oldest(Awaits(m)) \in bubbles /\ Oldest(Awaits(m)).pending /\ Oldest(Awaits(m)).word = w
        /\ \A x \in bubbles : x.pending /\ x.word = w => x = Oldest(Awaits(m))
    BY <2>3, <2>4, OldestWaits
  <2> QED
    BY <2>2, <2>5 DEF w
<1> DEFINE g == [m \in own |-> IF m \in copies THEN [Oldest(Awaits(m)) EXCEPT !.pending = FALSE]
                            ELSE Server(m)]
<1>6. ASSUME NEW m \in own
      PROVE  g[m] \in BubbleRows /\ g[m].word = SendOf(m.nr) /\ ~g[m].pending
  <2>1. CASE m \in copies
    <3> DEFINE old == Oldest(Awaits(m))
    <3>1. old \in BubbleRows /\ old.word = SendOf(m.nr)
      BY <1>2, <1>5, <2>1 DEF WidgetTyped
    <3>2. g[m] = [old EXCEPT !.pending = FALSE]
      BY <2>1
    <3> HIDE DEF old, g
    <3> QED
      BY <3>1, <3>2 DEF BubbleRows
  <2>2. CASE m \notin copies
    <3> DEFINE w == SendOf(m.nr)
               row == [by |-> "server", of |-> m.nr, word |-> w, text |-> StoredText(w), pending |-> FALSE]
    <3>1. g[m] = row
      BY <2>2 DEF Drawn
    <3>2. w \in Words /\ m.nr \in Nat /\ StoredText(w) \in {"masked", "as typed"}
      BY <1>3, <1>4 DEF StoredText
    <3> HIDE DEF g, w
    <3>3. row \in BubbleRows /\ row.word = w /\ row.pending = FALSE
      BY <3>2 DEF BubbleRows
    <3> QED
      BY <3>1, <3>3 DEF w
  <2> QED
    BY <2>1, <2>2
<1>7. \A x \in bubbles' : (x \in bubbles /\ x \notin adopted) \/ \E m \in own : x = g[m]
  BY <1>1
<1>8. \A m \in copies : Oldest(Awaits(m)) \in adopted
  OBVIOUS
<1>9. ASSUME NEW x \in bubbles, x.pending, x.word \notin Masked, x \notin adopted, NEW m \in own,
             SendOf(m.nr) = x.word
      PROVE  FALSE
  <2> DEFINE O == {o \in own : SendOf(o.nr) = x.word}
  <2>1. O # {} /\ \A o \in O : o.stamp \in Nat /\ o \in own /\ SendOf(o.nr) = x.word
    BY <1>3, <1>4, <1>9
  <2>2. PICK o \in O : \A n \in O : o.stamp <= n.stamp
    <3> HIDE DEF O
    <3> QED
      BY <2>1, FirstIsThere
  <2>3. First(o)
    BY <2>1, <2>2
  <2>4. x \in Awaits(o)
    BY <1>2, <1>9, <2>1 DEF Pending, StoredText, OneWaits
  <2>5. o \in copies
    BY <2>1, <2>3, <2>4
  <2> QED
    BY <1>5, <1>8, <1>9, <2>1, <2>5
<1> HIDE DEF g, fresh, copies, adopted
<1>10. WidgetTyped'
  <2>1. bubbles' \subseteq BubbleRows
    BY <1>2, <1>6, <1>7 DEF WidgetTyped
  <2> QED
    BY <1>1, <1>2, <2>1 DEF WidgetTyped
<1>11. StoredOnce'
  BY <1>1, <1>2, <1>3 DEF StoredOnce
<1>12. OneWaits'
  <2>1. \A x \in bubbles' : x.pending => x \in bubbles /\ x \notin adopted
    BY <1>6, <1>7
  <2>2. ASSUME NEW x \in bubbles', x.pending, x.word \notin Masked, NEW m \in seen', m.nr = x.of
        PROVE  FALSE
    <3>1. x \in bubbles /\ x \notin adopted /\ x.of \in DOMAIN sends /\ sends[x.of] = x.word
      BY <1>2, <2>1, <2>2 DEF OneWaits
    <3>2. m \in fresh
      BY <1>1, <1>2, <2>2, <3>1 DEF OneWaits
    <3>3. x.of \in Nat /\ x.of > 0
      BY <1>2, <3>1, ElementOfSeq DEF WidgetTyped
    <3>4. m \in own /\ SendOf(m.nr) = x.word
      BY <2>2, <3>1, <3>2, <3>3 DEF SendOf
    <3> QED
      BY <1>9, <2>2, <3>1, <3>4
  <2> QED
    BY <1>1, <1>2, <2>1, <2>2 DEF OneWaits
<1>13. EachStandsForOne'
  <2> SUFFICES ASSUME NEW w \in Words \ Masked
               PROVE  \E f \in Injection(Shown(w)', Heard(w)') : TRUE
    BY DEF EachStandsForOne
  <2>1. PICK f \in Injection(Shown(w), Heard(w)) : TRUE
    BY <1>2 DEF EachStandsForOne
  <2> DEFINE O == {m \in own : SendOf(m.nr) = w}
             E == Shown(w)'
  <2>2. Heard(w) \cap O = {}
    BY <1>3, <1>4 DEF Heard
  <2>3. Heard(w)' = Heard(w) \cup O
    BY <1>1, <1>4 DEF Heard, SendOf
  <2>4. \A x \in E : x \in Shown(w) \/ \E m \in O : x = g[m]
    BY <1>6, <1>7 DEF Shown
  <2> HIDE DEF O, E
  <2>5. \E h \in Injection(E, Heard(w) \cup O) : TRUE
    BY <2>2, <2>4, InjectMore
  <2> QED
    BY <2>3, <2>5 DEF E
<1> QED
  BY <1>10, <1>11, <1>12, <1>13 DEF WidgetInv

LEMMA WidgetInvHolds == WidgetSpec => []WidgetInv
<1>1. WidgetInv /\ UNCHANGED widget => WidgetInv'
  BY PageAside DEF widget, WidgetInv, WidgetTyped, StoredOnce
<1>2. WidgetInv /\ WidgetNext => WidgetInv'
  BY ServiceKept, RequestsKept, SubmitKept, SendFailsKept, PollArrivesKept DEF WidgetNext
<1> QED
  BY <1>1, <1>2, WidgetStart, PTL DEF WidgetSpec

LEMMA WidgetTypes == WidgetInv => WidgetTypeOK
<1> SUFFICES ASSUME WidgetInv PROVE WidgetTypeOK
  OBVIOUS
<1>1. Typed \subseteq Words
  BY ElementOfSeq DEF WidgetInv, WidgetTyped, Typed
<1>2. post.at \in {"none", "sent", "taken", "refused", "failed"}
  BY DEF WidgetInv, WidgetTyped, PostRows
<1>3. \A x \in bubbles : x.word \in Words /\ x.pending \in BOOLEAN
  BY DEF WidgetInv, WidgetTyped, BubbleRows
<1> QED
  BY <1>1, <1>2, <1>3 DEF WidgetInv, WidgetTyped, StoredOnce, WidgetTypeOK

(* However sends, stored messages and polls overlap and whatever is lost,   *)
(* no word that redaction leaves alone is on screen more often than it was  *)
(* sent (app.ts takePending).                                               *)
THEOREM NoMoreBubblesThanSends == WidgetSpec => []SaidIsShownOnce
<1>1. WidgetInv => SaidIsShownOnce
  <2> SUFFICES ASSUME WidgetInv, NEW w \in Words \ Masked
               PROVE  Cardinality({x \in bubbles : x.word = w})
                        <= Cardinality({j \in DOMAIN sends : sends[j] = w})
    BY DEF SaidIsShownOnce
  <2> DEFINE S == {x \in bubbles : x.word = w}
             T == {j \in DOMAIN sends : sends[j] = w}
  <2>1. PICK f \in Injection(Shown(w), Heard(w)) : TRUE
    BY DEF WidgetInv, EachStandsForOne
  <2> DEFINE h == [x \in S |-> IF x.pending THEN x.of ELSE f[x].nr]
  <2>2. \A m \in Heard(w) : m \in seen /\ m \in inbox /\ m.nr > 0 /\ m.nr \in DOMAIN sends /\ sends[m.nr] = w
    BY DEF Heard, WidgetInv, WidgetTyped, StoredOnce
  <2>3. \A x \in S : ~x.pending => x \in Shown(w) /\ f[x] \in Heard(w)
    BY DEF Shown, Injection
  <2>4. \A x \in S : x.pending => x.of \in T /\ \A m \in Heard(w) : m.nr # x.of
    BY <2>2 DEF WidgetInv, OneWaits
  <2>5. h \in [S -> T]
    BY <2>2, <2>3, <2>4
  <2>6. \A x, y \in S : h[x] = h[y] => x = y
    <3> SUFFICES ASSUME NEW x \in S, NEW y \in S, h[x] = h[y] PROVE x = y
      OBVIOUS
    <3>1. CASE x.pending /\ y.pending
      BY <3>1 DEF WidgetInv, OneWaits
    <3>2. CASE ~x.pending /\ ~y.pending
      <4>1. f[x].nr = f[y].nr /\ f[x] \in Heard(w) /\ f[y] \in Heard(w)
        BY <2>3, <3>2
      <4>2. f[x] = f[y]
        BY <2>2, <4>1 DEF WidgetInv, StoredOnce
      <4> QED
        BY <2>3, <3>2, <4>2 DEF Injection, IsInjective
    <3>3. CASE x.pending /\ ~y.pending
      BY <2>3, <2>4, <3>3
    <3>4. CASE ~x.pending /\ y.pending
      BY <2>3, <2>4, <3>4
    <3> QED
      BY <3>1, <3>2, <3>3, <3>4
  <2>7. h \in Injection(S, T)
    BY <2>5, <2>6 DEF Injection, IsInjective
  <2>8. IsFiniteSet(T)
    <3>1. DOMAIN sends = 1 .. Len(sends) /\ Len(sends) \in Nat
      BY DEF WidgetInv, WidgetTyped
    <3>2. IsFiniteSet(1 .. Len(sends))
      BY <3>1, FS_Interval
    <3> QED
      BY <3>1, <3>2, FS_Subset
  <2> HIDE DEF h, S, T
  <2>9. Cardinality(S) <= Cardinality(T)
    BY <2>7, <2>8, FS_Injection
  <2> QED
    BY <2>9 DEF S, T
<1> QED
  BY <1>1, WidgetInvHolds, PTL

-----------------------------------------------------------------------------
(* Folding a person's split conversations into one.                         *)

HandRows == [at : {"idle", "begun", "inserted"}, conv : Splits]
ScriptRows == [at : {"idle", "found", "moving"}, survivor : Splits, absorbed : SUBSET Splits,
               next : 1 .. Len(Repointed) + 1, moved : SUBSET Things, saw : SUBSET Things]

RejoinTyped ==
  /\ remaining \subseteq Splits
  /\ lies \in [Things -> Splits \cup Nowhere] /\ hand \in [Things -> HandRows]
  /\ script \in ScriptRows

(* What is being written is not stored yet.                                 *)
UnwrittenInHand == \A j \in Things : hand[j].at # "idle" => lies[j] = "unwritten"

(* While the script moves tables, what it saw is where it was or purged,    *)
(* and what is where it was is moved with its table.                        *)
SeenIsMoved ==
  /\ \A j \in script.saw : lies[j] \notin {"lost", "unwritten"}
  /\ \A j \in script.moved : lies[j] # "unwritten"
  /\ script.at # "moving" => script.next = 1 /\ script.moved = {}
  /\ script.at = "moving" =>
       /\ \A j \in script.saw : lies[j] \in script.absorbed \cup {"purged"}
       /\ \A j \in script.saw, n \in DOMAIN Repointed :
            n < script.next /\ TableOf[j] = Repointed[n] /\ lies[j] \in script.absorbed
              => j \in script.moved

RejoinInv == RejoinTyped /\ UnwrittenInHand /\ SeenIsMoved

LEMMA TablesInOrder ==
  /\ Len(Repointed) \in Nat /\ DOMAIN Repointed = 1 .. Len(Repointed)
  /\ \A j \in Things : \E n \in DOMAIN Repointed : TableOf[j] = Repointed[n]
  /\ Splits \cap Nowhere = {} /\ \E s \in Splits : TRUE
BY RejoinAssumption DEF Nowhere

LEMMA NoRun == NoScript \in ScriptRows /\ NoScript.saw = {} /\ NoScript.at = "idle"
               /\ NoScript.next = 1 /\ NoScript.moved = {} /\ AtRest \in HandRows
<1> DEFINE s == CHOOSE s \in Splits : TRUE
<1>1. s \in Splits
  BY TablesInOrder
<1> HIDE DEF s
<1>2. /\ [at |-> "idle", survivor |-> s, absorbed |-> {}, next |-> 1, moved |-> {}, saw |-> {}] \in ScriptRows
      /\ [at |-> "idle", conv |-> s] \in HandRows
  BY <1>1, TablesInOrder DEF ScriptRows, HandRows
<1> QED
  BY <1>2 DEF NoScript, AtRest, s

LEMMA RejoinStart == RejoinInit => RejoinInv
BY NoRun, TablesInOrder DEF RejoinInit, RejoinInv, RejoinTyped, UnwrittenInHand, SeenIsMoved, Nowhere, NoScript, AtRest

LEMMA WritersKept ==
  ASSUME RejoinInv, NEW j \in Things,
         (\E s \in Splits : BeginThing(j, s)) \/ InsertThing(j) \/ CommitThing(j)
  PROVE  RejoinInv'
<1> USE NoRun, TablesInOrder DEF RejoinInv, RejoinTyped
<1>1. ASSUME NEW s \in Splits, BeginThing(j, s) PROVE RejoinInv'
  <2> DEFINE row == [at |-> "begun", conv |-> s]
  <2>1. row \in HandRows
    BY DEF HandRows
  <2> HIDE DEF row
  <2>2. /\ hand' = [hand EXCEPT ![j] = row] /\ lies[j] = "unwritten" /\ UNCHANGED <<remaining, lies, script>>
    BY <1>1 DEF BeginThing, row
  <2> QED
    BY <2>1, <2>2 DEF UnwrittenInHand, SeenIsMoved
<1>2. ASSUME InsertThing(j) PROVE RejoinInv'
  <2> DEFINE row == IF hand[j].conv \in remaining THEN [hand[j] EXCEPT !.at = "inserted"] ELSE AtRest
  <2>1. row \in HandRows
    BY DEF HandRows
  <2> HIDE DEF row
  <2>2. /\ hand' = [hand EXCEPT ![j] = row] /\ hand[j].at = "begun" /\ UNCHANGED <<remaining, lies, script>>
    BY <1>2 DEF InsertThing, row
  <2> QED
    BY <2>1, <2>2 DEF UnwrittenInHand, SeenIsMoved
<1>3. ASSUME CommitThing(j) PROVE RejoinInv'
  <2>1. /\ hand' = [hand EXCEPT ![j] = AtRest] /\ lies' = [lies EXCEPT ![j] = hand[j].conv]
        /\ hand[j].at = "inserted" /\ UNCHANGED <<remaining, script>>
    BY <1>3 DEF CommitThing
  <2>2. hand[j].conv \in Splits /\ AtRest.at = "idle"
    BY DEF HandRows, AtRest
  <2>3. lies[j] = "unwritten" /\ j \notin script.saw /\ j \notin script.moved
    BY <2>1 DEF UnwrittenInHand, SeenIsMoved
  <2>4. RejoinTyped'
    BY <2>1, <2>2
  <2>5. UnwrittenInHand'
    BY <2>1, <2>2 DEF UnwrittenInHand
  <2>6. \A o \in script.saw \cup script.moved : o \in Things /\ lies'[o] = lies[o]
    BY <2>1, <2>3 DEF ScriptRows
  <2>7. SeenIsMoved'
    BY <2>1, <2>6 DEF SeenIsMoved
  <2> QED
    BY <2>4, <2>5, <2>7
<1> QED
  BY <1>1, <1>2, <1>3

LEMMA PurgeSplitKept ==
  ASSUME RejoinInv, NEW s \in Splits, PurgeSplit(s)
  PROVE  RejoinInv'
<1> USE TablesInOrder DEF RejoinInv, RejoinTyped
<1>1. /\ remaining' = remaining \ {s}
      /\ lies' = [j \in Things |-> IF lies[j] = s THEN "purged" ELSE lies[j]]
      /\ UNCHANGED <<hand, script>>
  BY DEF PurgeSplit
<1>2. RejoinTyped'
  BY <1>1 DEF Nowhere
<1>3. \A j \in Things : /\ lies'[j] = lies[j] \/ lies'[j] = "purged"
                        /\ lies[j] = "unwritten" <=> lies'[j] = "unwritten"
  BY <1>1 DEF Nowhere
<1>4. UnwrittenInHand'
  BY <1>1, <1>3 DEF UnwrittenInHand
<1>5. script.saw \subseteq Things /\ script.moved \subseteq Things /\ "purged" \notin script.absorbed
  BY DEF ScriptRows, Nowhere
<1>6. SeenIsMoved'
  BY <1>1, <1>3, <1>5 DEF SeenIsMoved
<1> QED
  BY <1>2, <1>4, <1>6

LEMMA RunKept ==
  ASSUME RejoinInv, NEW row \in ScriptRows, script' = row, UNCHANGED <<remaining, lies, hand>>,
         row.at # "moving", row.saw = {}, row.next = 1, row.moved = {}
  PROVE  RejoinInv'
BY DEF RejoinInv, RejoinTyped, UnwrittenInHand, SeenIsMoved

LEMMA ScriptKept ==
  ASSUME RejoinInv, FindSplits \/ ReadSplits \/ Repoint \/ ScriptDies
  PROVE  RejoinInv'
<1>1. ASSUME FindSplits PROVE RejoinInv'
  <2>1. PICK s \in remaining :
          script' = [NoScript EXCEPT !.at = "found", !.survivor = s, !.absorbed = remaining \ {s}]
    BY <1>1 DEF FindSplits
  <2> DEFINE row == [NoScript EXCEPT !.at = "found", !.survivor = s, !.absorbed = remaining \ {s}]
  <2>2. s \in Splits /\ remaining \ {s} \subseteq Splits
    BY <2>1 DEF RejoinInv, RejoinTyped
  <2>3. row \in ScriptRows /\ row.at = "found" /\ row.saw = {} /\ row.next = 1 /\ row.moved = {}
    BY <2>2, NoRun DEF ScriptRows
  <2> HIDE DEF row
  <2>4. script' = row
    BY <2>1 DEF row
  <2> QED
    BY <1>1, <2>3, <2>4, RunKept DEF FindSplits
<1>2. ASSUME UNCHANGED <<remaining, lies, hand>>, script' = NoScript PROVE RejoinInv'
  BY <1>2, NoRun, RunKept
<1>3. ASSUME ReadSplits PROVE RejoinInv'
  <2> DEFINE row == [script EXCEPT !.at = "moving", !.saw = Within(script.absorbed)]
  <2>1. script.at = "found" /\ UNCHANGED <<remaining, lies, hand>> /\ (script' = row \/ script' = NoScript)
    BY <1>3 DEF ReadSplits
  <2>2. script \in ScriptRows /\ Within(script.absorbed) \subseteq Things
    BY DEF RejoinInv, RejoinTyped, Within
  <2>3. /\ row \in ScriptRows /\ row.at = "moving" /\ row.saw = Within(script.absorbed)
        /\ row.absorbed = script.absorbed /\ row.next = script.next /\ row.moved = script.moved
    BY <2>2 DEF ScriptRows
  <2> HIDE DEF row
  <2>4. ASSUME script' = row PROVE RejoinInv'
    <3>1. \A j \in row.saw : lies[j] \in script.absorbed /\ lies[j] \notin {"lost", "unwritten"}
      BY <2>2, <2>3, TablesInOrder DEF Within, ScriptRows, Nowhere
    <3>2. script.next = 1 /\ script.moved = {}
      BY <2>1 DEF RejoinInv, SeenIsMoved
    <3> QED
      BY <2>1, <2>3, <2>4, <3>1, <3>2, TablesInOrder DEF RejoinInv, RejoinTyped, UnwrittenInHand, SeenIsMoved
  <2> QED
    BY <1>2, <2>1, <2>4
<1>4. ASSUME Repoint PROVE RejoinInv'
  <2> DEFINE rows == {j \in Within(script.absorbed) : TableOf[j] = Repointed[script.next]}
             row == [script EXCEPT !.next = @ + 1, !.moved = @ \cup rows]
  <2>1. /\ script.at = "moving" /\ script.next <= Len(Repointed)
        /\ UNCHANGED <<remaining, lies, hand>> /\ (script' = row \/ script' = NoScript)
    BY <1>4 DEF Repoint
  <2>2. script \in ScriptRows /\ rows \subseteq Things
    BY DEF RejoinInv, RejoinTyped, Within
  <2>3. script.next \in Nat /\ script.next + 1 \in 1 .. Len(Repointed) + 1
    BY <2>1, <2>2, TablesInOrder DEF ScriptRows
  <2>4. /\ \A j \in script.saw : TableOf[j] = Repointed[script.next] /\ lies[j] \in script.absorbed => j \in rows
        /\ \A j \in rows : lies[j] # "unwritten"
    BY <2>2, TablesInOrder DEF Within, ScriptRows, Nowhere
  <2> HIDE DEF rows
  <2>5. /\ row \in ScriptRows /\ row.at = "moving" /\ row.saw = script.saw /\ row.absorbed = script.absorbed
        /\ row.next = script.next + 1 /\ row.moved = script.moved \cup rows
    BY <2>1, <2>2, <2>3 DEF ScriptRows
  <2> HIDE DEF row
  <2>6. ASSUME script' = row PROVE RejoinInv'
    <3>1. \A n \in DOMAIN Repointed : n < row.next => n < script.next \/ n = script.next
      BY <2>3, <2>5, TablesInOrder
    <3>2. SeenIsMoved'
      BY <2>1, <2>4, <2>5, <2>6, <3>1 DEF RejoinInv, SeenIsMoved
    <3> QED
      BY <2>1, <2>5, <2>6, <3>2 DEF RejoinInv, RejoinTyped, UnwrittenInHand
  <2> QED
    BY <1>2, <2>1, <2>6
<1> QED
  BY <1>1, <1>2, <1>3, <1>4 DEF ScriptDies

LEMMA DeleteEmptiedKept ==
  ASSUME RejoinInv, DeleteEmptied
  PROVE  RejoinInv'
<1> DEFINE row == [NoScript EXCEPT !.saw = script.saw]
<1>1. /\ script.at = "moving" /\ script.next > Len(Repointed)
      /\ remaining' = remaining \ script.absorbed
      /\ lies' = [j \in Things |-> IF j \in script.moved THEN script.survivor
                                   ELSE IF lies[j] \in script.absorbed THEN "lost" ELSE lies[j]]
      /\ script' = row /\ hand' = hand
  BY DEF DeleteEmptied, AllMoved
<1>2. script \in ScriptRows
  BY DEF RejoinInv, RejoinTyped
<1>3. row \in ScriptRows /\ row.at = "idle" /\ row.saw = script.saw
      /\ row.next = 1 /\ row.moved = {}
  BY <1>2, NoRun DEF ScriptRows
<1> HIDE DEF row
<1>4. script.survivor \in Splits /\ script.saw \subseteq Things /\ script.absorbed \subseteq Splits
  BY <1>2 DEF ScriptRows
<1>5. RejoinTyped'
  <2>1. lies' \in [Things -> Splits \cup Nowhere]
    BY <1>1, <1>4 DEF RejoinInv, RejoinTyped, Nowhere
  <2> QED
    BY <1>1, <1>3, <2>1 DEF RejoinInv, RejoinTyped
<1>6. UnwrittenInHand'
  <2>1. \A j \in Things : lies[j] = "unwritten" /\ j \notin script.moved => lies'[j] = "unwritten"
    BY <1>1, <1>4, TablesInOrder DEF Nowhere
  <2> QED
    BY <1>1, <2>1 DEF RejoinInv, UnwrittenInHand, SeenIsMoved
<1>7. \A j \in script.saw : lies'[j] \notin {"lost", "unwritten"}
  <2> SUFFICES ASSUME NEW j \in script.saw PROVE lies'[j] \notin {"lost", "unwritten"}
    OBVIOUS
  <2>1. CASE j \in script.moved
    BY <1>1, <1>4, <2>1, TablesInOrder DEF Nowhere
  <2>2. CASE j \notin script.moved
    <3>1. PICK n \in DOMAIN Repointed : TableOf[j] = Repointed[n]
      BY <1>4, TablesInOrder
    <3>2. n < script.next
      BY <1>1, <1>2, <3>1, TablesInOrder DEF ScriptRows
    <3>3. lies[j] \notin script.absorbed
      BY <1>1, <2>2, <3>1, <3>2 DEF RejoinInv, SeenIsMoved
    <3> QED
      BY <1>1, <1>4, <2>2, <3>3 DEF RejoinInv, SeenIsMoved
  <2> QED
    BY <2>1, <2>2
<1>8. SeenIsMoved'
  BY <1>1, <1>3, <1>7 DEF SeenIsMoved
<1> QED
  BY <1>5, <1>6, <1>8 DEF RejoinInv

LEMMA RejoinInvHolds == RejoinSpec => []RejoinInv
<1>1. RejoinInv /\ UNCHANGED rejoining => RejoinInv'
  BY DEF rejoining, RejoinInv, RejoinTyped, UnwrittenInHand, SeenIsMoved
<1>2. RejoinInv /\ RejoinNext => RejoinInv'
  BY WritersKept, PurgeSplitKept, ScriptKept, DeleteEmptiedKept DEF RejoinNext
<1> QED
  BY <1>1, <1>2, RejoinStart, PTL DEF RejoinSpec

(* What the script read in the conversations it folds is never lost to the  *)
(* cascading delete that ends it, in whatever order people, turns and the   *)
(* retention sweep write and purge meanwhile (merge.ts:490-576).            *)
THEOREM WhatWasReadIsMoved == RejoinSpec => []WhatItSawIsKept
<1>1. RejoinInv => WhatItSawIsKept
  BY DEF RejoinInv, SeenIsMoved, WhatItSawIsKept
<1> QED
  BY <1>1, RejoinInvHolds, PTL


-----------------------------------------------------------------------------
(* Where an agent answers.                                                  *)

DeskFiles == Picked \cup {None}
DeskSources == Suggestions \cup {None}
PaneRows == [open : BOOLEAN, text : DraftTexts, from : DeskSources, file : DeskFiles, uploading : DeskFiles,
             typed : DraftTexts, picked : DeskFiles]
DraftRows == [text : DraftTexts, from : DeskSources, file : DeskFiles]
PressedRows == [mount : Nat, text : DraftTexts, from : DeskSources, file : DeskFiles,
              at : {"sent", "stored", "marked", "over"}]
ThreadTexts == [text : DraftTexts, file : DeskFiles]

TextThere(x) == \E k \in DOMAIN inThread : inThread[k].text = x
FileThere(f) == \E k \in DOMAIN inThread : inThread[k].file = f

(* A pane that is open shows what was put into it, or that is in the thread.*)
Shows(row) == row.open => /\ row.text = row.typed \/ TextThere(row.typed)
                          /\ row.file = row.picked \/ FileThere(row.picked)

PanesShow ==
  /\ panes \in Seq(PaneRows) /\ inThread \in Seq(ThreadTexts)
  /\ \A m \in DOMAIN panes : Shows(panes[m])

(* A reply that was stored is in the thread.                                *)
RepliesAreThere ==
  /\ replies \in Seq(PressedRows)
  /\ \A j \in DOMAIN replies :
       /\ replies[j].mount <= Len(panes)
       /\ replies[j].at \in {"stored", "marked"} => TextThere(replies[j].text) /\ FileThere(replies[j].file)

DeskRest ==
  /\ draftKept \in DraftRows /\ panel \in DeskSources
  /\ offered \in [Suggestions -> [status : {"none", "pending", "sent", "discarded"}, message : Nat]]
  /\ \A s \in Suggestions : offered[s].message <= Len(replies)

DeskInv == PanesShow /\ RepliesAreThere /\ DeskRest

LEMMA NothingDrafted == /\ NoDraft \in DraftRows /\ None \in DraftTexts /\ None \in DeskFiles /\ None \in DeskSources
                        /\ DeskSources \subseteq DraftTexts
BY DEF NoDraft, DraftRows, DraftTexts, DeskFiles, DeskSources

LEMMA RememberedRow == ASSUME NEW entry \in DraftRows PROVE Remembered(entry) \in DraftRows
BY NothingDrafted DEF Remembered

LEMMA DeskStart == DeskInit => DeskInv
<1> SUFFICES ASSUME DeskInit PROVE DeskInv
  OBVIOUS
<1>1. DOMAIN << >> = {} /\ Len(<< >>) = 0 /\ \A S : << >> \in Seq(S)
  BY EmptySeq
<1>2. PanesShow /\ RepliesAreThere
  BY <1>1 DEF DeskInit, PanesShow, RepliesAreThere
<1>3. DeskRest
  BY <1>1, NothingDrafted DEF DeskInit, DeskRest
<1> QED
  BY <1>2, <1>3 DEF DeskInv

LEMMA DeskFacts ==
  ASSUME DeskInv
  PROVE  /\ DOMAIN panes = 1 .. Len(panes) /\ Len(panes) \in Nat
         /\ \A m \in DOMAIN panes : panes[m] \in PaneRows /\ Shows(panes[m])
         /\ DOMAIN replies = 1 .. Len(replies) /\ Len(replies) \in Nat
         /\ \A j \in DOMAIN replies : replies[j] \in PressedRows
         /\ OnScreen => Mount \in DOMAIN panes /\ Pane = panes[Mount] /\ Pane.open
         /\ Mount = Len(panes) /\ draftKept \in DraftRows
<1>1. panes \in Seq(PaneRows) /\ replies \in Seq(PressedRows)
  BY DEF DeskInv, PanesShow, RepliesAreThere
<1>2. \A m \in DOMAIN panes : panes[m] \in PaneRows
  BY <1>1, ElementOfSeq
<1>3. \A j \in DOMAIN replies : replies[j] \in PressedRows
  BY <1>1, ElementOfSeq
<1> QED
  BY <1>1, <1>2, <1>3 DEF DeskInv, PanesShow, DeskRest, OnScreen, Mount, Pane

(* What a pane is changed to.                                               *)
LEMMA PaneChanged ==
  ASSUME DeskInv, NEW m \in DOMAIN panes, NEW row \in PaneRows, Shows(row),
         panes' = [panes EXCEPT ![m] = row], inThread' = inThread
  PROVE  PanesShow' /\ Len(panes') = Len(panes)
<1>1. panes \in Seq(PaneRows) /\ m \in 1 .. Len(panes)
  BY DeskFacts DEF DeskInv, PanesShow
<1>2. /\ panes' \in Seq(PaneRows) /\ Len(panes') = Len(panes)
      /\ \A n \in 1 .. Len(panes) : panes'[n] = IF n = m THEN row ELSE panes[n]
  BY <1>1, ExceptSeq
<1>3. DOMAIN panes' = 1 .. Len(panes)
  BY <1>2
<1>4. \A n \in DOMAIN panes' : Shows(panes'[n])
  BY <1>2, <1>3, DeskFacts
<1> QED
  BY <1>2, <1>4 DEF DeskInv, PanesShow, Shows, TextThere, FileThere

(* ... and where a reply has come to.                                       *)
LEMMA ReplyChanged ==
  ASSUME DeskInv, NEW j \in DOMAIN replies, NEW s \in {"sent", "stored", "marked", "over"},
         ReachApi(j, s), Len(panes') = Len(panes), inThread' = inThread,
         s \in {"stored", "marked"} => replies[j].at \in {"stored", "marked"}
  PROVE  RepliesAreThere' /\ Len(replies') = Len(replies)
<1> DEFINE row == [replies[j] EXCEPT !.at = s]
<1>1. replies \in Seq(PressedRows) /\ j \in 1 .. Len(replies) /\ replies[j] \in PressedRows
  BY DeskFacts DEF DeskInv, RepliesAreThere
<1>2. /\ row \in PressedRows /\ row.at = s /\ row.mount = replies[j].mount /\ row.text = replies[j].text
      /\ row.file = replies[j].file
  BY <1>1 DEF PressedRows
<1>3. replies' = [replies EXCEPT ![j] = row]
  BY DEF ReachApi
<1> HIDE DEF row
<1>4. /\ replies' \in Seq(PressedRows) /\ Len(replies') = Len(replies)
      /\ \A n \in 1 .. Len(replies) : replies'[n] = IF n = j THEN row ELSE replies[n]
  BY <1>1, <1>2, <1>3, ExceptSeq
<1>5. DOMAIN replies' = 1 .. Len(replies)
  BY <1>4
<1> QED
  BY <1>1, <1>2, <1>4, <1>5 DEF DeskInv, RepliesAreThere, TextThere, FileThere

LEMMA MountPaneKept ==
  ASSUME DeskInv, MountPane
  PROVE  DeskInv'
<1> DEFINE row == [open |-> TRUE, text |-> draftKept.text, from |-> draftKept.from,
                   file |-> draftKept.file, uploading |-> None,
                   typed |-> draftKept.text, picked |-> draftKept.file]
<1>1. panes' = Append(panes, row) /\ UNCHANGED <<draftKept, replies, inThread, offered, panel>>
  BY DEF MountPane
<1>2. row \in PaneRows /\ row.text = row.typed /\ row.file = row.picked
  BY DeskFacts, NothingDrafted DEF PaneRows, DraftRows
<1> HIDE DEF row
<1>3. panes \in Seq(PaneRows) /\ DOMAIN panes = 1 .. Len(panes) /\ Len(panes) \in Nat
  BY DeskFacts DEF DeskInv, PanesShow
<1>4. /\ panes' \in Seq(PaneRows) /\ Len(panes') = Len(panes) + 1
      /\ \A n \in 1 .. Len(panes) : panes'[n] = panes[n]
      /\ panes'[Len(panes) + 1] = row
  BY <1>1, <1>2, <1>3, AppendProperties
<1>5. DOMAIN panes' = 1 .. Len(panes) + 1
  BY <1>3, <1>4
<1>6. \A n \in DOMAIN panes' : Shows(panes'[n])
  BY <1>2, <1>3, <1>4, <1>5, DeskFacts DEF Shows
<1>7. PanesShow'
  BY <1>1, <1>4, <1>6 DEF DeskInv, PanesShow, Shows, TextThere, FileThere
<1>8. \A j \in DOMAIN replies : replies[j].mount <= Len(panes) + 1
  BY <1>3, DeskFacts DEF DeskInv, RepliesAreThere, PressedRows
<1> QED
  BY <1>1, <1>4, <1>7, <1>8 DEF DeskInv, RepliesAreThere, DeskRest, TextThere, FileThere

LEMMA PaneStepsKept ==
  ASSUME DeskInv,
         \/ LeavePane \/ Insert \/ RemoveFile
         \/ \E x \in Texts \cup {None} : Type(x)
         \/ \E f \in Picked : PickFile(f)
         \/ \E m \in DOMAIN panes : Uploaded(m) \/ UploadFails(m)
  PROVE  DeskInv'
<1>1. ASSUME NEW m \in DOMAIN panes, NEW row \in PaneRows, Shows(row),
             panes' = [panes EXCEPT ![m] = row], draftKept' \in DraftRows,
             UNCHANGED <<replies, inThread, offered, panel>>
      PROVE  DeskInv'
  BY <1>1, PaneChanged DEF DeskInv, RepliesAreThere, DeskRest, TextThere, FileThere
<1> USE NothingDrafted
<1>2. ASSUME LeavePane PROVE DeskInv'
  <2> DEFINE row == [Pane EXCEPT !.open = FALSE, !.typed = None, !.picked = None, !.from = None,
                       !.text = IF Sending(Mount) THEN @ ELSE None,
                       !.file = IF Sending(Mount) THEN @ ELSE None]
  <2>1. OnScreen /\ Pane = panes[Mount]
    BY <1>2 DEF LeavePane, Pane
  <2>2. Pane \in PaneRows /\ Mount \in DOMAIN panes
    BY <2>1, DeskFacts
  <2>3. panes' = [panes EXCEPT ![Mount] = row]
    BY <1>2, <2>1, <2>2 DEF LeavePane, PaneRows
  <2>4. row \in PaneRows /\ row.open = FALSE
    BY <2>2 DEF PaneRows
  <2>5. draftKept' \in DraftRows /\ UNCHANGED <<replies, inThread, offered, panel>>
    BY <1>2, DeskFacts DEF LeavePane
  <2> HIDE DEF row
  <2>6. Shows(row)
    BY <2>4 DEF Shows
  <2> QED
    BY <1>1, <2>2, <2>3, <2>4, <2>5, <2>6
<1>3. ASSUME NEW x \in DraftTexts, NEW s \in DeskSources, OnScreen,
             panes' = [panes EXCEPT ![Mount].text = x, ![Mount].typed = x, ![Mount].from = s],
             draftKept' \in DraftRows, UNCHANGED <<replies, inThread, offered, panel>>
      PROVE  DeskInv'
  <2> DEFINE row == [Pane EXCEPT !.text = x, !.typed = x, !.from = s]
  <2>1. Mount \in DOMAIN panes /\ Pane = panes[Mount] /\ Pane \in PaneRows /\ Shows(Pane)
    BY <1>3, DeskFacts
  <2>2. panes' = [panes EXCEPT ![Mount] = row]
    BY <1>3, <2>1
  <2>3. /\ row \in PaneRows /\ row.text = row.typed /\ row.file = Pane.file /\ row.picked = Pane.picked
        /\ row.open = Pane.open
    BY <2>1 DEF PaneRows
  <2> HIDE DEF row
  <2>4. Shows(row)
    BY <2>1, <2>3 DEF Shows
  <2> QED
    BY <1>1, <1>3, <2>1, <2>2, <2>3, <2>4
<1>4. ASSUME NEW m \in DOMAIN panes, NEW f \in DeskFiles, NEW u \in DeskFiles, NEW g \in DeskFiles,
             (g = f) \/ (f = panes[m].file /\ g = panes[m].picked),
             panes' = [panes EXCEPT ![m].uploading = u, ![m].file = f, ![m].picked = g],
             draftKept' \in DraftRows, UNCHANGED <<replies, inThread, offered, panel>>
      PROVE  DeskInv'
  <2> DEFINE row == [panes[m] EXCEPT !.uploading = u, !.file = f, !.picked = g]
  <2>1. panes[m] \in PaneRows /\ Shows(panes[m])
    BY DeskFacts
  <2>2. panes' = [panes EXCEPT ![m] = row]
    BY <1>4, <2>1
  <2>3. /\ row \in PaneRows /\ row.text = panes[m].text /\ row.typed = panes[m].typed
        /\ row.file = f /\ row.picked = g /\ row.open = panes[m].open
    BY <2>1 DEF PaneRows
  <2> HIDE DEF row
  <2>4. Shows(row)
    BY <1>4, <2>1, <2>3 DEF Shows
  <2> QED
    BY <1>1, <1>4, <2>2, <2>3, <2>4
<1>5. ASSUME NEW x \in Texts \cup {None}, Type(x) PROVE DeskInv'
  <2> DEFINE s == IF x = None THEN None ELSE Pane.from
  <2>1. OnScreen /\ Mount \in DOMAIN panes /\ Pane = panes[Mount] /\ Pane \in PaneRows
    BY <1>5, DeskFacts DEF Type
  <2>2. s \in DeskSources /\ x \in DraftTexts
    BY <2>1 DEF PaneRows, DraftTexts
  <2>3. panes' = [panes EXCEPT ![Mount].text = x, ![Mount].typed = x, ![Mount].from = s]
    BY <1>5, <2>1 DEF Type
  <2>4. draftKept' \in DraftRows
    <3>1. [draftKept EXCEPT !.text = x] \in DraftRows
      BY <2>2, DeskFacts DEF DraftRows
    <3> QED
      BY <1>5, <3>1, RememberedRow DEF Type
  <2>5. UNCHANGED <<replies, inThread, offered, panel>>
    BY <1>5 DEF Type
  <2> HIDE DEF s
  <2> QED
    BY <1>3, <2>1, <2>2, <2>3, <2>4, <2>5
<1>6. ASSUME Insert PROVE DeskInv'
  <2>1. panel \in DraftTexts /\ panel \in DeskSources
    BY DEF DeskInv, DeskRest
  <2>2. draftKept' \in DraftRows
    BY <1>6, <2>1, DeskFacts DEF Insert, DraftRows
  <2> QED
    BY <1>3, <1>6, <2>1, <2>2 DEF Insert
<1>7. ASSUME RemoveFile PROVE DeskInv'
  <2>1. Mount \in DOMAIN panes /\ Pane = panes[Mount] /\ Pane \in PaneRows
    BY <1>7, DeskFacts DEF RemoveFile
  <2>2. panes' = [panes EXCEPT ![Mount].uploading = Pane.uploading, ![Mount].file = None,
                               ![Mount].picked = None]
    BY <1>7, <2>1 DEF RemoveFile, PaneRows
  <2>3. draftKept' \in DraftRows
    <3>1. [draftKept EXCEPT !.file = None] \in DraftRows
      BY DeskFacts DEF DraftRows
    <3> QED
      BY <1>7, <3>1, RememberedRow DEF RemoveFile
  <2>4. Pane.uploading \in DeskFiles /\ None \in DeskFiles
    BY <2>1 DEF PaneRows
  <2>5. UNCHANGED <<replies, inThread, offered, panel>>
    BY <1>7 DEF RemoveFile
  <2> QED
    BY <1>4, <2>1, <2>2, <2>3, <2>4, <2>5
<1>8. ASSUME NEW f \in Picked, PickFile(f) PROVE DeskInv'
  <2>1. Mount \in DOMAIN panes /\ Pane = panes[Mount] /\ Pane \in PaneRows
    BY <1>8, DeskFacts DEF PickFile
  <2>2. panes' = [panes EXCEPT ![Mount].uploading = f, ![Mount].file = Pane.file,
                               ![Mount].picked = Pane.picked]
    BY <1>8, <2>1 DEF PickFile, PaneRows
  <2>3. f \in DeskFiles /\ Pane.file \in DeskFiles /\ Pane.picked \in DeskFiles /\ draftKept' \in DraftRows
    BY <1>8, <2>1, DeskFacts DEF PaneRows, DeskFiles, PickFile
  <2> QED
    BY <1>4, <1>8, <2>1, <2>2, <2>3 DEF PickFile
<1>9. ASSUME NEW m \in DOMAIN panes, Uploaded(m) PROVE DeskInv'
  <2>1. panes[m] \in PaneRows
    BY DeskFacts
  <2>2. panes[m].uploading \in DeskFiles
    BY <2>1 DEF PaneRows
  <2>3. draftKept' \in DraftRows
    BY <1>9, <2>2, DeskFacts DEF DraftRows, Uploaded
  <2> QED
    BY <1>4, <1>9, <2>2, <2>3 DEF Uploaded
<1>10. ASSUME NEW m \in DOMAIN panes, UploadFails(m) PROVE DeskInv'
  <2>1. panes[m] \in PaneRows
    BY DeskFacts
  <2>2. panes[m].file \in DeskFiles /\ panes[m].picked \in DeskFiles
    BY <2>1 DEF PaneRows
  <2>3. panes' = [panes EXCEPT ![m].uploading = None, ![m].file = panes[m].file,
                               ![m].picked = panes[m].picked]
    BY <1>10, <2>1 DEF UploadFails, PaneRows
  <2>4. None \in DeskFiles /\ draftKept' \in DraftRows /\ UNCHANGED <<replies, inThread, offered, panel>>
    BY <1>10, DeskFacts DEF UploadFails
  <2> QED
    BY <1>4, <2>2, <2>3, <2>4
<1> QED
  BY <1>2, <1>5, <1>6, <1>7, <1>8, <1>9, <1>10

(* A reply that is pressed.                                                 *)
LEMMA ReplyAdded ==
  ASSUME DeskInv, NEW row \in PressedRows, row.at = "sent", row.mount <= Len(panes),
         replies' = Append(replies, row), UNCHANGED <<panes, draftKept, inThread, offered, panel>>
  PROVE  DeskInv'
<1>1. replies \in Seq(PressedRows) /\ DOMAIN replies = 1 .. Len(replies) /\ Len(replies) \in Nat
  BY DeskFacts DEF DeskInv, RepliesAreThere
<1>2. /\ replies' \in Seq(PressedRows) /\ Len(replies') = Len(replies) + 1
      /\ \A n \in 1 .. Len(replies) : replies'[n] = replies[n]
      /\ replies'[Len(replies) + 1] = row
  BY <1>1, AppendProperties
<1>3. DOMAIN replies' = 1 .. Len(replies) + 1
  BY <1>1, <1>2
<1>4. RepliesAreThere'
  BY <1>1, <1>2, <1>3 DEF DeskInv, RepliesAreThere, TextThere, FileThere
<1>5. \A s \in Suggestions : offered[s].message \in Nat /\ offered[s].message <= Len(replies)
  BY DEF DeskInv, DeskRest
<1>6. DeskRest'
  BY <1>1, <1>2, <1>5 DEF DeskInv, DeskRest
<1> QED
  BY <1>4, <1>6 DEF DeskInv, PanesShow, Shows, TextThere, FileThere

LEMMA SendsKept ==
  ASSUME DeskInv, Send \/ InsertAndSend \/ \E s \in Suggestions : ColleagueSends(s)
  PROVE  DeskInv'
<1> USE NothingDrafted
<1>1. ASSUME NEW text \in DraftTexts, NEW from \in DeskSources, SubmitReply(text, from) PROVE DeskInv'
  <2> DEFINE row == [mount |-> Mount, text |-> text, from |-> from, file |-> Pane.file, at |-> "sent"]
  <2>1. Mount \in DOMAIN panes /\ Pane \in PaneRows /\ Mount = Len(panes) /\ Mount \in Nat
    BY <1>1, DeskFacts DEF SubmitReply
  <2>2. row \in PressedRows /\ row.at = "sent" /\ row.mount <= Len(panes)
    BY <2>1 DEF PressedRows, PaneRows
  <2>3. replies' = Append(replies, row) /\ UNCHANGED <<panes, draftKept, inThread, offered, panel>>
    BY <1>1 DEF SubmitReply
  <2> HIDE DEF row
  <2> QED
    BY <2>2, <2>3, ReplyAdded
<1>2. ASSUME Send PROVE DeskInv'
  <2>1. Pane \in PaneRows
    BY <1>2, DeskFacts DEF Send, SubmitReply
  <2>2. Pane.text \in DraftTexts /\ Pane.from \in DeskSources
    BY <2>1 DEF PaneRows
  <2> QED
    BY <1>1, <1>2, <2>2 DEF Send
<1>3. ASSUME InsertAndSend PROVE DeskInv'
  <2>1. panel \in DraftTexts /\ panel \in DeskSources
    BY DEF DeskInv, DeskRest
  <2> QED
    BY <1>1, <1>3, <2>1 DEF InsertAndSend
<1>4. ASSUME NEW s \in Suggestions, ColleagueSends(s) PROVE DeskInv'
  <2> DEFINE row == [mount |-> 0, text |-> s, from |-> s, file |-> None, at |-> "sent"]
  <2>1. row \in PressedRows /\ row.at = "sent" /\ row.mount <= Len(panes)
    BY DeskFacts DEF PressedRows, DraftTexts, DeskSources
  <2>2. replies' = Append(replies, row) /\ UNCHANGED <<panes, draftKept, inThread, offered, panel>>
    BY <1>4 DEF ColleagueSends
  <2> HIDE DEF row
  <2> QED
    BY <2>1, <2>2, ReplyAdded
<1> QED
  BY <1>2, <1>3, <1>4

(* What is in the thread stays there.                                       *)
LEMMA ThreadGrows ==
  ASSUME DeskInv, NEW row \in ThreadTexts, inThread' = Append(inThread, row)
  PROVE  /\ inThread' \in Seq(ThreadTexts)
         /\ \E k \in DOMAIN inThread' : inThread'[k] = row
         /\ \A k \in DOMAIN inThread : k \in DOMAIN inThread' /\ inThread'[k] = inThread[k]
<1>1. inThread \in Seq(ThreadTexts)
  BY DEF DeskInv, PanesShow
<1>2. /\ inThread' \in Seq(ThreadTexts) /\ Len(inThread') = Len(inThread) + 1
      /\ \A n \in 1 .. Len(inThread) : inThread'[n] = inThread[n]
      /\ inThread'[Len(inThread) + 1] = row
  BY <1>1, AppendProperties
<1>3. /\ DOMAIN inThread = 1 .. Len(inThread) /\ DOMAIN inThread' = 1 .. Len(inThread) + 1
      /\ Len(inThread) \in Nat
  BY <1>1, <1>2
<1> QED
  BY <1>2, <1>3

LEMMA StoreReplyKept ==
  ASSUME DeskInv, NEW j \in DOMAIN replies, StoreReply(j)
  PROVE  DeskInv'
<1> DEFINE message == [text |-> replies[j].text, file |-> replies[j].file]
           row == [replies[j] EXCEPT !.at = "stored"]
           TextNow(x) == \E k \in DOMAIN inThread' : inThread'[k].text = x
           FileNow(f) == \E k \in DOMAIN inThread' : inThread'[k].file = f
<1>1. replies \in Seq(PressedRows) /\ j \in 1 .. Len(replies) /\ replies[j] \in PressedRows
  BY DeskFacts DEF DeskInv, RepliesAreThere
<1>2. /\ row \in PressedRows /\ row.mount = replies[j].mount /\ row.text = replies[j].text
      /\ row.file = replies[j].file
  BY <1>1 DEF PressedRows
<1>3. message \in ThreadTexts /\ message.text = replies[j].text /\ message.file = replies[j].file
  BY <1>1 DEF PressedRows, ThreadTexts
<1>4. replies' = [replies EXCEPT ![j] = row] /\ inThread' = Append(inThread, message)
  BY <1>1 DEF StoreReply
<1>5. UNCHANGED <<panes, draftKept, offered, panel>>
  BY DEF StoreReply
<1> HIDE DEF row, message
<1>6. /\ inThread' \in Seq(ThreadTexts)
      /\ \E k \in DOMAIN inThread' : inThread'[k] = message
      /\ \A k \in DOMAIN inThread : k \in DOMAIN inThread' /\ inThread'[k] = inThread[k]
  BY <1>3, <1>4, ThreadGrows
<1>7. /\ TextNow(replies[j].text) /\ FileNow(replies[j].file)
      /\ \A x : TextThere(x) => TextNow(x)
      /\ \A f : FileThere(f) => FileNow(f)
  BY <1>3, <1>6 DEF TextThere, FileThere
<1> HIDE DEF TextNow, FileNow
<1>8. /\ replies' \in Seq(PressedRows) /\ Len(replies') = Len(replies)
      /\ \A n \in 1 .. Len(replies) : replies'[n] = IF n = j THEN row ELSE replies[n]
  BY <1>1, <1>2, <1>4, ExceptSeq
<1>9. DOMAIN replies' = 1 .. Len(replies) /\ DOMAIN replies = 1 .. Len(replies)
  BY <1>8, DeskFacts
<1>10. PanesShow'
  <2>1. panes \in Seq(PaneRows) /\ panes' = panes /\ \A m \in DOMAIN panes : Shows(panes[m])
    BY <1>5 DEF DeskInv, PanesShow
  <2>2. \A m \in DOMAIN panes : panes[m].open =>
          /\ panes[m].text = panes[m].typed \/ TextNow(panes[m].typed)
          /\ panes[m].file = panes[m].picked \/ FileNow(panes[m].picked)
    BY <1>7, <2>1 DEF Shows
  <2> QED
    BY <1>6, <2>1, <2>2 DEF PanesShow, Shows, TextThere, FileThere, TextNow, FileNow
<1>11. RepliesAreThere'
  <2>1. \A n \in DOMAIN replies :
          /\ replies[n].mount <= Len(panes)
          /\ replies[n].at \in {"stored", "marked"} => TextNow(replies[n].text) /\ FileNow(replies[n].file)
    BY <1>7 DEF DeskInv, RepliesAreThere
  <2>2. \A n \in DOMAIN replies' :
          /\ replies'[n].mount <= Len(panes')
          /\ replies'[n].at \in {"stored", "marked"} => TextNow(replies'[n].text) /\ FileNow(replies'[n].file)
    <3> SUFFICES ASSUME NEW n \in DOMAIN replies'
                 PROVE  /\ replies'[n].mount <= Len(panes')
                        /\ replies'[n].at \in {"stored", "marked"} =>
                              TextNow(replies'[n].text) /\ FileNow(replies'[n].file)
      OBVIOUS
    <3>1. CASE n = j
      BY <1>1, <1>2, <1>5, <1>7, <1>8, <1>9, <2>1, <3>1
    <3>2. CASE n # j
      <4>1. n \in DOMAIN replies /\ replies'[n] = replies[n]
        BY <1>8, <1>9, <3>2
      <4> QED
        BY <1>5, <2>1, <4>1
    <3> QED
      BY <3>1, <3>2
  <2> QED
    BY <1>8, <2>2 DEF RepliesAreThere, TextThere, FileThere, TextNow, FileNow
<1>12. DeskRest'
  BY <1>5, <1>8 DEF DeskInv, DeskRest
<1> QED
  BY <1>10, <1>11, <1>12 DEF DeskInv

(* What changes of the suggestions.                                         *)
LEMMA OfferedKept ==
  ASSUME DeskInv, NEW s \in Suggestions, NEW status \in {"none", "pending", "sent", "discarded"},
         NEW n \in Nat, n <= Len(replies),
         offered' = [offered EXCEPT ![s] = [status |-> status, message |-> n]],
         Len(replies') = Len(replies), draftKept' = draftKept, panel' = panel
  PROVE  DeskRest'
BY DEF DeskInv, DeskRest

LEMMA SuggestionStepsKept ==
  ASSUME DeskInv, RefreshPanel \/ \E s \in Suggestions : SuggestReply(s) \/ Discard(s)
  PROVE  DeskInv'
<1>1. ASSUME NEW s \in Suggestions, NEW status \in {"pending", "discarded"},
             offered' = [offered EXCEPT ![s].status = status],
             UNCHANGED <<panes, draftKept, replies, inThread, panel>>
      PROVE  DeskInv'
  <2>1. /\ offered[s] \in [status : {"none", "pending", "sent", "discarded"}, message : Nat]
        /\ offered[s].message <= Len(replies)
    BY DEF DeskInv, DeskRest
  <2>2. offered' = [offered EXCEPT ![s] = [status |-> status, message |-> offered[s].message]]
    <3>1. [offered[s] EXCEPT !.status = status] = [status |-> status, message |-> offered[s].message]
      BY <2>1
    <3> QED
      BY <1>1, <3>1
  <2>3. DeskRest'
    BY <1>1, <2>1, <2>2, OfferedKept
  <2> QED
    BY <1>1, <2>3 DEF DeskInv, PanesShow, RepliesAreThere, Shows, TextThere, FileThere
<1>2. ASSUME RefreshPanel PROVE DeskInv'
  <2>1. panel' \in DeskSources /\ UNCHANGED <<panes, draftKept, replies, inThread, offered>>
    BY <1>2 DEF RefreshPanel, DeskSources
  <2> QED
    BY <2>1 DEF DeskInv, PanesShow, RepliesAreThere, DeskRest, Shows, TextThere, FileThere
<1> QED
  BY <1>1, <1>2 DEF SuggestReply, Discard

LEMMA RouteStepsKept ==
  ASSUME DeskInv, NEW j \in DOMAIN replies, MarkSuggestionSent(j) \/ FailReply(j) \/ HearReplyGone(j)
  PROVE  DeskInv'
<1>0. /\ replies[j] \in PressedRows /\ DOMAIN replies = 1 .. Len(replies) /\ Len(replies) \in Nat
      /\ draftKept \in DraftRows
  BY DeskFacts
<1>1. ASSUME MarkSuggestionSent(j) PROVE DeskInv'
  <2> DEFINE s == IF replies[j].mount = 0 THEN "over" ELSE "marked"
  <2>1. s \in {"sent", "stored", "marked", "over"} /\ ReachApi(j, s) /\ replies[j].at = "stored"
    BY <1>1 DEF MarkSuggestionSent
  <2>2. UNCHANGED <<panes, draftKept, inThread, panel>>
    BY <1>1 DEF MarkSuggestionSent
  <2> HIDE DEF s
  <2>3. RepliesAreThere' /\ Len(replies') = Len(replies)
    BY <2>1, <2>2, ReplyChanged
  <2>4. CASE replies[j].from = None
    BY <1>1, <2>2, <2>3, <2>4 DEF MarkSuggestionSent, DeskInv, DeskRest, PanesShow, Shows, TextThere, FileThere
  <2>5. CASE replies[j].from # None
    <3>1. replies[j].from \in Suggestions /\ j \in Nat /\ j <= Len(replies)
      BY <1>0, <2>5 DEF PressedRows, DeskSources
    <3>2. offered' = [offered EXCEPT ![replies[j].from] = [status |-> "sent", message |-> j]]
      BY <1>1, <2>5 DEF MarkSuggestionSent
    <3>3. DeskRest'
      BY <2>2, <2>3, <3>1, <3>2, OfferedKept
    <3> QED
      BY <2>2, <2>3, <3>3 DEF DeskInv, PanesShow, Shows, TextThere, FileThere
  <2> QED
    BY <2>4, <2>5
<1>2. ASSUME ReachApi(j, "over"), draftKept' \in DraftRows, UNCHANGED <<panes, inThread, offered, panel>>
      PROVE  DeskInv'
  <2>1. RepliesAreThere' /\ Len(replies') = Len(replies)
    BY <1>2, ReplyChanged
  <2> QED
    BY <1>2, <2>1 DEF DeskInv, DeskRest, PanesShow, Shows, TextThere, FileThere
<1>3. ASSUME FailReply(j) PROVE DeskInv'
  BY <1>0, <1>2, <1>3 DEF FailReply
<1>4. ASSUME HearReplyGone(j) PROVE DeskInv'
  <2> DEFINE p == panes[replies[j].mount]
             file == IF replies[j].file # None /\ p.file = replies[j].file THEN None ELSE draftKept.file
             text(runs) == IF runs THEN Emptied(p.text, replies[j].text) ELSE draftKept.text
  <2>1. replies[j].mount \in DOMAIN panes
    <3>1. replies[j].mount > 0 /\ replies[j].mount <= Len(panes) /\ replies[j].mount \in Nat
      BY <1>0, <1>4 DEF HearReplyGone, DeskInv, RepliesAreThere, PressedRows
    <3> QED
      BY <3>1, DeskFacts
  <2>2. p \in PaneRows
    BY <2>1, DeskFacts
  <2>3. file \in DeskFiles
    BY <1>0, NothingDrafted DEF DraftRows
  <2>4. \A runs \in BOOLEAN : text(runs) \in DraftTexts
    BY <1>0, <2>2, NothingDrafted DEF DraftRows, PaneRows, Emptied
  <2>5. PICK runs \in BOOLEAN : draftKept' = Remembered([draftKept EXCEPT !.text = text(runs), !.file = file])
    BY <1>4 DEF HearReplyGone
  <2>6. [draftKept EXCEPT !.text = text(runs), !.file = file] \in DraftRows
    BY <1>0, <2>3, <2>4 DEF DraftRows
  <2>7. draftKept' \in DraftRows
    BY <2>5, <2>6, RememberedRow
  <2>8. ReachApi(j, "over") /\ UNCHANGED <<panes, inThread, offered, panel>>
    BY <1>4 DEF HearReplyGone
  <2> QED
    BY <1>2, <2>7, <2>8
<1> QED
  BY <1>1, <1>3, <1>4

(* Only what was sent is cleared, and that is in the thread.                *)
LEMMA HearReplyKept ==
  ASSUME DeskInv, NEW j \in DOMAIN replies, HearReply(j)
  PROVE  DeskInv'
<1> USE NothingDrafted
<1> DEFINE r == replies[j]
           p == panes[r.mount]
           text == Emptied(p.text, r.text)
           file == IF r.file # None /\ p.file = r.file THEN None ELSE p.file
           kept == IF r.file # None /\ p.file = r.file THEN None ELSE draftKept.file
           row == [p EXCEPT !.text = text, !.from = None, !.file = file]
<1>1. r \in PressedRows /\ draftKept \in DraftRows
  BY DeskFacts
<1>2. r.mount \in DOMAIN panes
  BY <1>1, DeskFacts DEF HearReply, DeskInv, RepliesAreThere, PressedRows
<1>3. p \in PaneRows /\ Shows(p)
  BY <1>2, DeskFacts
<1>4. p.open /\ r.at = "marked" /\ ReachApi(j, "over") /\ UNCHANGED <<inThread, offered, panel>>
  BY DEF HearReply
<1>5. TextThere(r.text) /\ FileThere(r.file)
  BY <1>4 DEF DeskInv, RepliesAreThere
<1>6. text \in DraftTexts /\ file \in DeskFiles /\ kept \in DeskFiles
  BY <1>1, <1>3 DEF PaneRows, DraftRows, Emptied
<1>7. panes' = [panes EXCEPT ![r.mount] = row]
  BY <1>2, <1>3 DEF HearReply, PaneRows
<1>8. /\ row \in PaneRows /\ row.text = text /\ row.file = file /\ row.typed = p.typed
      /\ row.picked = p.picked /\ row.open = p.open
  BY <1>3, <1>6 DEF PaneRows
<1>9. text = p.typed \/ TextThere(p.typed)
  BY <1>3, <1>4, <1>5 DEF Shows, Emptied
<1>10. file = p.picked \/ FileThere(p.picked)
  BY <1>3, <1>4, <1>5 DEF Shows
<1>11. draftKept' = Remembered([draftKept EXCEPT !.text = text, !.file = kept])
  BY DEF HearReply
<1>12. [draftKept EXCEPT !.text = text, !.file = kept] \in DraftRows
  BY <1>1, <1>6 DEF DraftRows
<1>13. draftKept' \in DraftRows
  BY <1>11, <1>12, RememberedRow
<1> HIDE DEF row, text, file, kept
<1>14. Shows(row)
  BY <1>8, <1>9, <1>10 DEF Shows
<1>15. PanesShow' /\ Len(panes') = Len(panes)
  BY <1>2, <1>4, <1>7, <1>8, <1>14, PaneChanged
<1>16. RepliesAreThere' /\ Len(replies') = Len(replies)
  BY <1>4, <1>15, ReplyChanged
<1> QED
  BY <1>4, <1>13, <1>15, <1>16 DEF DeskInv, DeskRest

LEMMA DeskInvHolds == DeskSpec => []DeskInv
<1>1. DeskInv /\ [DeskNext]_composing => DeskInv'
  <2> SUFFICES ASSUME DeskInv, [DeskNext]_composing PROVE DeskInv'
    OBVIOUS
  <2>1. ASSUME UNCHANGED composing PROVE DeskInv'
    BY <2>1 DEF composing, DeskInv, PanesShow, RepliesAreThere, DeskRest, Shows, TextThere, FileThere
  <2> QED
    BY <2>1, MountPaneKept, PaneStepsKept, SendsKept, StoreReplyKept, SuggestionStepsKept, RouteStepsKept,
       HearReplyKept DEF DeskNext
<1> QED
  BY <1>1, DeskStart, PTL DEF DeskSpec

LEMMA DeskTypes == DeskInv => DeskTypeOK
<1> SUFFICES ASSUME DeskInv PROVE DeskTypeOK
  OBVIOUS
<1>1. \A m \in DOMAIN panes :
        /\ panes[m].open \in BOOLEAN /\ panes[m].text \in DraftTexts
        /\ panes[m].from \in Suggestions \cup {None} /\ panes[m].file \in Picked \cup {None}
  BY DeskFacts DEF PaneRows, DeskSources, DeskFiles
<1>2. draftKept.text \in DraftTexts /\ draftKept.file \in Picked \cup {None}
  BY DeskFacts DEF DraftRows, DeskFiles
<1>3. \A i \in DOMAIN replies :
        replies[i].at \in {"sent", "stored", "marked", "over"} /\ replies[i].mount \in 0 .. Mount
  BY DeskFacts DEF PressedRows, DeskInv, RepliesAreThere
<1>4. \A s \in Suggestions : offered[s].message \in 0 .. Len(replies)
  BY DeskFacts DEF DeskInv, DeskRest
<1> QED
  BY <1>1, <1>2, <1>3, <1>4 DEF DeskTypeOK, DeskInv, DeskRest, DeskSources

(* THEOREM ReplyingLosesNoTyping.                                           *)
(* What an agent last put into the composer on the screen, text or file, is *)
(* there or in the thread: the answer to a reply clears what that reply     *)
(* carried and nothing that was typed, inserted or uploaded while it was on *)
(* its way (the onSuccess of Inbox.tsx), for any texts, files, suggestions  *)
(* and number of times the pane is left and opened.                         *)
THEOREM ReplyingLosesNoTyping == DeskSpec => []TypedIsKept
<1>1. DeskInv => TypedIsKept
  <2> SUFFICES ASSUME DeskInv, OnScreen PROVE TypedIsKept
    BY DEF TypedIsKept
  <2>1. Mount \in DOMAIN panes /\ Pane = panes[Mount] /\ Pane.open /\ Shows(panes[Mount])
    BY DeskFacts
  <2> QED
    BY <2>1 DEF TypedIsKept, Shows, TextThere, FileThere
<1> QED
  BY <1>1, DeskInvHolds, PTL
-----------------------------------------------------------------------------
(* Lists made of sets.                                                      *)

(* An order on S: whatever is before something is not after it, and any two *)
(* elements are ordered.                                                    *)
Orders(before, S) ==
  /\ \A x \in S : <<x, x>> \notin before
  /\ \A x, y, z \in S : <<x, y>> \in before /\ <<y, z>> \in before => <<x, z>> \in before
  /\ \A x, y \in S : x = y \/ <<x, y>> \in before \/ <<y, x>> \in before

BeforeIt(S, before, x) == {y \in S : <<y, x>> \in before}

(* A finite set is listed whole, each of it once.                           *)
LEMMA InOrderIsAll ==
  ASSUME NEW S, IsFiniteSet(S), NEW before, Orders(before, S)
  PROVE  /\ InOrder(S, before) \in Seq(S)
         /\ Len(InOrder(S, before)) = Cardinality(S)
         /\ Cardinality(S) \in Nat
         /\ \A x \in S : \E j \in 1 .. Cardinality(S) : InOrder(S, before)[j] = x
         /\ \A i, j \in 1 .. Cardinality(S) : InOrder(S, before)[i] = InOrder(S, before)[j] => i = j
<1> DEFINE n == Cardinality(S)
           A(x) == BeforeIt(S, before, x)
           L == InOrder(S, before)
<1>0. n \in Nat
  BY FS_CardinalityType
<1>1. ASSUME NEW x \in S
      PROVE  /\ IsFiniteSet(A(x)) /\ Cardinality(A(x)) \in Nat /\ Cardinality(A(x)) < n
  <2>1. A(x) \subseteq S /\ A(x) # S
    BY <1>1 DEF Orders, BeforeIt
  <2>2. IsFiniteSet(A(x)) /\ Cardinality(A(x)) <= n /\ (n = Cardinality(A(x)) => S = A(x))
    BY <2>1, FS_Subset
  <2>3. Cardinality(A(x)) \in Nat
    BY <2>2, FS_CardinalityType
  <2> QED BY <2>1, <2>2, <2>3, <1>0
<1>2. ASSUME NEW x \in S, NEW y \in S, <<y, x>> \in before
      PROVE  Cardinality(A(y)) < Cardinality(A(x))
  <2>1. A(y) \subseteq A(x)
    BY <1>2 DEF Orders, BeforeIt
  <2>2. y \in A(x) /\ y \notin A(y)
    BY <1>2 DEF Orders, BeforeIt
  <2>3. Cardinality(A(y)) <= Cardinality(A(x)) /\ (Cardinality(A(x)) = Cardinality(A(y)) => A(x) = A(y))
    BY <1>1, <2>1, FS_Subset
  <2> QED BY <1>1, <2>2, <2>3
<1> DEFINE r == [x \in S |-> Cardinality(A(x)) + 1]
<1>3. \A x \in S : r[x] \in 1 .. n
  BY <1>0, <1>1
<1>4. \A x, y \in S : r[x] = r[y] => x = y
  <2> SUFFICES ASSUME NEW x \in S, NEW y \in S, r[x] = r[y] PROVE x = y
    OBVIOUS
  <2>1. Cardinality(A(x)) = Cardinality(A(y))
    BY <1>1
  <2>2. ~(<<x, y>> \in before) /\ ~(<<y, x>> \in before)
    BY <2>1, <1>2, <1>1
  <2> QED BY <2>2 DEF Orders
<1>5. \A j \in 1 .. n : \E x \in S : r[x] = j
  <2>1. IsFiniteSet(1 .. n) /\ Cardinality(1 .. n) = n
    BY <1>0, FS_Interval
  <2>2. r \in Injection(S, 1 .. n)
    BY <1>3, <1>4, Fun_IsInj DEF Injection
  <2>3. r \in Surjection(S, 1 .. n)
    BY <2>1, <2>2, FS_Injection, Fun_IsSurj
  <2> QED BY <2>3 DEF Surjection
<1> HIDE DEF r, A
<1>6. \A j \in 1 .. n : \E x \in S : Cardinality(A(x)) = j - 1
  BY <1>5, <1>1, <1>0 DEF r
<1>7. ASSUME NEW j \in 1 .. n
      PROVE  L[j] \in S /\ Cardinality(A(L[j])) = j - 1
  <2>1. L[j] = CHOOSE x \in S : Cardinality(A(x)) = j - 1
    BY DEF InOrder, A, BeforeIt
  <2>2. \E x \in S : Cardinality(A(x)) = j - 1
    BY <1>6
  <2> QED BY <2>1, <2>2
<1>8. L \in Seq(S) /\ Len(L) = n
  <2> DEFINE E(j) == CHOOSE x \in S : Cardinality({y \in S : <<y, x>> \in before}) = j - 1
  <2>1. L = [j \in 1 .. n |-> E(j)]
    BY DEF InOrder
  <2> HIDE DEF E, L, n
  <2>2. L \in [1 .. n -> S]
    BY <1>7, <2>1
  <2> QED BY <2>2, <1>0, SeqDef, LenProperties
<1>9. \A x \in S : \E j \in 1 .. n : L[j] = x
  <2> SUFFICES ASSUME NEW x \in S PROVE \E j \in 1 .. n : L[j] = x
    OBVIOUS
  <2>1. r[x] \in 1 .. n /\ r[x] - 1 = Cardinality(A(x))
    BY <1>3, <1>1, <1>0 DEF r
  <2>2. L[r[x]] \in S /\ Cardinality(A(L[r[x]])) = Cardinality(A(x))
    BY <1>7, <2>1
  <2>3. r[L[r[x]]] = r[x]
    BY <2>2 DEF r
  <2> QED BY <1>4, <2>1, <2>2, <2>3
<1>10. \A i, j \in 1 .. n : L[i] = L[j] => i = j
  <2> SUFFICES ASSUME NEW i \in 1 .. n, NEW j \in 1 .. n, L[i] = L[j] PROVE i = j
    OBVIOUS
  <2>1. i - 1 = Cardinality(A(L[i])) /\ j - 1 = Cardinality(A(L[j]))
    BY <1>7
  <2> QED BY <2>1, <1>0
<1> QED BY <1>0, <1>8, <1>9, <1>10

(* A filter leaves what is in the places that are kept, in a list no longer *)
(* than it was, with nothing in it twice that was not there twice.          *)
LEMMA KeptIsWhatIsKept ==
  ASSUME NEW T, NEW s \in Seq(T), NEW places \in SUBSET (DOMAIN s)
  PROVE  /\ Kept(s, places) \in Seq(T)
         /\ Len(Kept(s, places)) = Cardinality(places) /\ Len(Kept(s, places)) <= Len(s)
         /\ \A k \in places : \E j \in DOMAIN Kept(s, places) : Kept(s, places)[j] = s[k]
         /\ \A j \in DOMAIN Kept(s, places) : \E k \in places : Kept(s, places)[j] = s[k]
         /\ (\A i, k \in places : s[i] = s[k] => i = k) =>
               \A i, j \in DOMAIN Kept(s, places) : Kept(s, places)[i] = Kept(s, places)[j] => i = j
<1> DEFINE R == {p \in places \X places : p[1] < p[2]}
           list == InOrder(places, R)
           n == Cardinality(places)
           K == Kept(s, places)
<1>1. DOMAIN s = 1 .. Len(s) /\ Len(s) \in Nat
  BY LenProperties
<1>2. IsFiniteSet(places) /\ n \in Nat /\ n <= Len(s)
  <2>1. IsFiniteSet(1 .. Len(s)) /\ Cardinality(1 .. Len(s)) = Len(s)
    <3>1. \A m \in Nat : IsFiniteSet(1 .. m) /\ Cardinality(1 .. m) = m
      BY FS_Interval
    <3> QED BY <1>1, <3>1
  <2>2. IsFiniteSet(places) /\ n <= Len(s)
    BY <1>1, <2>1, FS_Subset
  <2> QED BY <2>2, FS_CardinalityType
<1>3. \A x, y \in places : <<x, y>> \in R <=> x < y
  OBVIOUS
<1>4. places \subseteq Nat
  BY <1>1
<1>5. Orders(R, places)
  BY <1>3, <1>4 DEF Orders
<1> HIDE DEF R
<1>6. /\ list \in Seq(places) /\ Len(list) = n
      /\ \A x \in places : \E j \in 1 .. n : list[j] = x
      /\ \A i, j \in 1 .. n : list[i] = list[j] => i = j
  BY <1>2, <1>5, InOrderIsAll
<1>7. \A j \in 1 .. n : list[j] \in places
  BY <1>6, LenProperties, ElementOfSeq
<1>8. K = [j \in 1 .. n |-> s[list[j]]]
  BY DEF Kept, R
<1> HIDE DEF list, K, n
<1>9. \A k \in places : s[k] \in T
  BY <1>1, ElementOfSeq
<1>10. K \in [1 .. n -> T]
  BY <1>7, <1>8, <1>9
<1>11. K \in Seq(T) /\ Len(K) = n /\ DOMAIN K = 1 .. n
  BY <1>2, <1>10, SeqDef, LenProperties
<1>12. \A k \in places : \E j \in DOMAIN K : K[j] = s[k]
  BY <1>6, <1>8, <1>11
<1>13. \A j \in DOMAIN K : \E k \in places : K[j] = s[k]
  BY <1>7, <1>8, <1>11
<1>14. (\A i, k \in places : s[i] = s[k] => i = k) => \A i, j \in DOMAIN K : K[i] = K[j] => i = j
  BY <1>6, <1>7, <1>8, <1>11
<1> QED BY <1>2, <1>11, <1>12, <1>13, <1>14 DEF K, n

-----------------------------------------------------------------------------
(* The tags.  Who holds a conversation's row has read the tags it has, and  *)
(* nobody else changes them; a sweep holds rows that carry its tag.         *)
TagRows ==
  [kind : {"add", "remove", "sweep"}, by : {"strip", "colleague", "ai", "admin"}, conv : Tagged,
   words : Seq(TagWords), to : TagWords \cup {NoWord},
   at : {"sent", "locked", "sweeping", "answered", "over"}, read : Seq(TagWords),
   todo : SUBSET Tagged, ok : BOOLEAN, answer : Seq(TagWords)]
TagStrips == [ahead : BOOLEAN, shown : Seq(TagWords), pending : Nat, cached : Seq(TagWords)]
TagFetches == [at : {"idle", "asked", "read"}, tags : Seq(TagWords)]

TagStore ==
  /\ tags \in [Tagged -> Seq(TagWords)] /\ granted \in [Tagged -> SUBSET TagWords]
  /\ locked \in [Tagged -> 0 .. MaxAsks]
TagAsks == asks \in Seq(TagRows) /\ Len(asks) <= MaxAsks
TagScreen == strip \in TagStrips /\ fetch \in TagFetches /\ news \in BOOLEAN

(* Answers the strip is owed.                                               *)
AnswersOwed == {i \in DOMAIN asks : asks[i].by = "strip" /\ asks[i].at # "over"}

TagHolds(i) ==
  /\ asks[i].words # << >>
  /\ asks[i].kind = "sweep" => asks[i].to # Head(asks[i].words) /\ asks[i].by # "strip"
  /\ asks[i].at = "locked" =>
       asks[i].kind = "add" /\ locked[asks[i].conv] = i /\ asks[i].read = tags[asks[i].conv]
  /\ asks[i].at = "sweeping" => asks[i].kind = "sweep"
TagHeld(c) ==
  locked[c] # 0 =>
    /\ locked[c] \in DOMAIN asks
    /\ asks[locked[c]].kind = "add" => asks[locked[c]].at = "locked" /\ asks[locked[c]].conv = c
    /\ asks[locked[c]].kind = "sweep" => Head(asks[locked[c]].words) \in ToSet(tags[c])

TagsInv ==
  /\ TagStore /\ TagAsks /\ TagScreen
  /\ strip.pending = Cardinality(AnswersOwed)
  /\ \A i \in DOMAIN asks : TagHolds(i)
  /\ \A c \in Tagged : TagHeld(c)
  /\ TagsAreKept

-----------------------------------------------------------------------------
(* A set of places has a first.                                             *)
LEMMA FirstPlace ==
  ASSUME NEW places, places \subseteq Nat, places # {}
  PROVE  \E k \in places : \A j \in places : k <= j
<1> DEFINE Below == OpToRel(<, Nat)
<1>1. IsWellFoundedOn(Below, Nat)
  BY NatLessThanWellFounded
<1>2. \A x, y \in Nat : x < y => <<x, y>> \in Below
  BY DEF OpToRel
<1> HIDE DEF Below
<1>4. PICK k \in places : \A j \in places : ~ (<<j, k>> \in Below)
  BY <1>1, WFMin
<1>5. \A j \in places : k <= j
  <2> SUFFICES ASSUME NEW j \in places PROVE k <= j
    OBVIOUS
  <2>1. ~(j < k)
    BY <1>2, <1>4
  <2> QED BY <2>1
<1> QED BY <1>5

(* What is taken off a list is not in it, and everything else is.           *)
LEMMA WithoutIsKept ==
  ASSUME NEW T, NEW s \in Seq(T), NEW w
  PROVE  /\ Without(s, w) \in Seq(T) /\ Len(Without(s, w)) <= Len(s)
         /\ ToSet(Without(s, w)) = ToSet(s) \ {w}
         /\ IsInjective(s) => IsInjective(Without(s, w))
<1> DEFINE places == {k \in DOMAIN s : s[k] # w}
           K == Kept(s, places)
<1>1. places \in SUBSET (DOMAIN s)
  OBVIOUS
<1>2. /\ K \in Seq(T) /\ Len(K) <= Len(s)
      /\ \A k \in places : \E j \in DOMAIN K : K[j] = s[k]
      /\ \A j \in DOMAIN K : \E k \in places : K[j] = s[k]
      /\ (\A i, k \in places : s[i] = s[k] => i = k) =>
            \A i, j \in DOMAIN K : K[i] = K[j] => i = j
  BY <1>1, KeptIsWhatIsKept
<1>3. Without(s, w) = K
  BY DEF Without
<1> HIDE DEF K
<1>4. ToSet(K) = ToSet(s) \ {w}
  BY <1>2 DEF ToSet
<1>5. IsInjective(s) => IsInjective(K)
  BY <1>2 DEF IsInjective
<1> QED BY <1>2, <1>3, <1>4, <1>5

(* A list with each thing once where it first was has the same things.      *)
LEMMA EachOnce ==
  ASSUME NEW T, NEW s \in Seq(T)
  PROVE  /\ Kept(s, FirstOfEach(s)) \in Seq(T) /\ Len(Kept(s, FirstOfEach(s))) <= Len(s)
         /\ ToSet(Kept(s, FirstOfEach(s))) = ToSet(s)
         /\ IsInjective(Kept(s, FirstOfEach(s)))
<1> DEFINE places == FirstOfEach(s)
           K == Kept(s, places)
<1>0. DOMAIN s = 1 .. Len(s) /\ Len(s) \in Nat
  BY LenProperties
<1>1. places \in SUBSET (DOMAIN s)
  BY DEF FirstOfEach
<1>2. /\ K \in Seq(T) /\ Len(K) <= Len(s)
      /\ \A k \in places : \E j \in DOMAIN K : K[j] = s[k]
      /\ \A j \in DOMAIN K : \E k \in places : K[j] = s[k]
      /\ (\A i, k \in places : s[i] = s[k] => i = k) =>
            \A i, j \in DOMAIN K : K[i] = K[j] => i = j
  BY <1>1, KeptIsWhatIsKept
<1>3. \A i, k \in places : s[i] = s[k] => i = k
  BY <1>0 DEF FirstOfEach
<1>4. ASSUME NEW k \in DOMAIN s
      PROVE  \E i \in places : s[i] = s[k]
  <2> DEFINE same == {j \in DOMAIN s : s[j] = s[k]}
  <2>1. same \subseteq Nat /\ same # {}
    BY <1>0
  <2>2. PICK i \in same : \A j \in same : i <= j
    BY <2>1, FirstPlace
  <2>3. i \in places
    BY <1>0, <2>2 DEF FirstOfEach
  <2> QED BY <2>2, <2>3
<1> HIDE DEF K, places
<1>5. ToSet(K) = ToSet(s)
  <2>1. ASSUME NEW j \in DOMAIN K PROVE K[j] \in ToSet(s)
    BY <1>1, <1>2 DEF ToSet
  <2>2. ASSUME NEW k \in DOMAIN s PROVE s[k] \in ToSet(K)
    BY <1>2, <1>4 DEF ToSet
  <2> QED BY <2>1, <2>2 DEF ToSet
<1>6. IsInjective(K)
  BY <1>2, <1>3 DEF IsInjective
<1> QED BY <1>2, <1>5, <1>6 DEF K, places

(* A renamed tag takes the place of the old name, once.                     *)
LEMMA RenamedIsOnce ==
  ASSUME NEW T, NEW s \in Seq(T), IsInjective(s), NEW v \in ToSet(s),
         NEW w \in T \cup {NoWord}, NoWord \notin T
  PROVE  /\ Renamed(s, v, w) \in Seq(T) /\ Len(Renamed(s, v, w)) <= Len(s)
         /\ ToSet(Renamed(s, v, w)) = (ToSet(s) \ {v}) \cup ({w} \ {NoWord})
         /\ IsInjective(Renamed(s, v, w))
<1> DEFINE renamed == [k \in DOMAIN s |-> IF s[k] = v THEN w ELSE s[k]]
<1>0. DOMAIN s = 1 .. Len(s) /\ Len(s) \in Nat /\ \A k \in DOMAIN s : s[k] \in T
  BY LenProperties, ElementOfSeq
<1>1. CASE w = NoWord
  BY <1>1, WithoutIsKept DEF Renamed
<1>2. CASE w # NoWord
  <2>1. renamed \in [1 .. Len(s) -> T]
    BY <1>0, <1>2
  <2>2. renamed \in Seq(T) /\ Len(renamed) = Len(s) /\ DOMAIN renamed = DOMAIN s
    BY <1>0, <2>1, SeqDef, LenProperties
  <2>3. ToSet(renamed) = (ToSet(s) \ {v}) \cup {w}
    <3>1. \A k \in DOMAIN s : renamed[k] \in (ToSet(s) \ {v}) \cup {w}
      BY DEF ToSet
    <3>2. \A x \in (ToSet(s) \ {v}) \cup {w} : \E k \in DOMAIN s : renamed[k] = x
      BY DEF ToSet
    <3> HIDE DEF renamed
    <3> QED BY <2>2, <3>1, <3>2 DEF ToSet
  <2>4. Renamed(s, v, w) = Kept(renamed, FirstOfEach(renamed))
    BY <1>2 DEF Renamed
  <2> HIDE DEF renamed
  <2> QED BY <1>2, <2>2, <2>3, <2>4, EachOnce
<1> QED BY <1>1, <1>2

(* What is added is new, and once.                                          *)
LEMMA AddedIsNew ==
  ASSUME NEW row \in TagRows
  PROVE  /\ Added(row) \in Seq(TagWords) /\ Len(Added(row)) \in Nat
         /\ IsInjective(Added(row)) /\ ToSet(Added(row)) \cap ToSet(row.read) = {}
<1> DEFINE clean == [k \in DOMAIN row.words |-> Mask[row.words[k]]]
           places == {k \in FirstOfEach(clean) : clean[k] \notin ToSet(row.read)}
           K == Kept(clean, places)
<1>0. row.words \in Seq(TagWords)
  BY DEF TagRows
<1>1. DOMAIN row.words = 1 .. Len(row.words) /\ Len(row.words) \in Nat
      /\ \A k \in DOMAIN row.words : row.words[k] \in TagWords
  BY <1>0, LenProperties, ElementOfSeq
<1>2. clean \in [1 .. Len(row.words) -> TagWords]
  BY <1>1, TagsAssumption
<1>3. clean \in Seq(TagWords) /\ DOMAIN clean = 1 .. Len(row.words)
  BY <1>1, <1>2, SeqDef
<1>4. Added(row) = K
  BY DEF Added
<1> HIDE DEF clean
<1>5. places \in SUBSET (DOMAIN clean) /\ \A i, k \in places : clean[i] = clean[k] => i = k
  BY <1>1, <1>3 DEF FirstOfEach
<1>6. /\ K \in Seq(TagWords)
      /\ \A j \in DOMAIN K : \E k \in places : K[j] = clean[k]
      /\ \A i, j \in DOMAIN K : K[i] = K[j] => i = j
  BY <1>3, <1>5, KeptIsWhatIsKept
<1>7. ToSet(K) \cap ToSet(row.read) = {}
  <2>1. \A j \in DOMAIN K : K[j] \notin ToSet(row.read)
    BY <1>6
  <2> HIDE DEF K
  <2> QED BY <2>1 DEF ToSet
<1>8. IsInjective(K) /\ Len(K) \in Nat
  BY <1>6, LenProperties DEF IsInjective
<1> QED BY <1>4, <1>6, <1>7, <1>8

(* As much of it as fits, behind what was there, is no more than fits.      *)
LEMMA FittingFits ==
  ASSUME NEW row \in TagRows, IsInjective(row.read), Len(row.read) <= MaxTags
  PROVE  /\ Fitting(row) \in Seq(TagWords) /\ row.read \o Fitting(row) \in Seq(TagWords)
         /\ ToSet(row.read \o Fitting(row)) = ToSet(row.read) \cup ToSet(Fitting(row))
         /\ IsInjective(row.read \o Fitting(row))
         /\ Len(row.read \o Fitting(row)) <= MaxTags
<1> DEFINE new == Added(row)
           n == IF Len(new) > Room(row) THEN Room(row) ELSE Len(new)
           fit == Fitting(row)
           read == row.read
           all == read \o fit
<1>0. read \in Seq(TagWords) /\ Len(read) \in Nat /\ DOMAIN read = 1 .. Len(read) /\ MaxTags \in Nat
  BY TagsAssumption, LenProperties DEF TagRows
<1>1. Room(row) \in Nat /\ Room(row) + Len(read) <= MaxTags
  <2>1. Len(read) <= MaxTags /\ Room(row) = IF Len(read) >= MaxTags THEN 0 ELSE MaxTags - Len(read)
    BY DEF Room
  <2> HIDE DEF read
  <2>2. CASE Len(read) >= MaxTags
    BY <1>0, <2>1, <2>2
  <2>3. CASE ~(Len(read) >= MaxTags)
    <3>1. Room(row) = MaxTags - Len(read)
      BY <2>1, <2>3
    <3>2. MaxTags - Len(read) \in Nat
      BY <1>0, <2>3
    <3> QED BY <1>0, <3>1, <3>2
  <2> QED BY <2>2, <2>3
<1>2. /\ new \in Seq(TagWords) /\ Len(new) \in Nat /\ IsInjective(new)
      /\ ToSet(new) \cap ToSet(read) = {} /\ DOMAIN new = 1 .. Len(new)
  BY AddedIsNew, LenProperties
<1>3. n \in Nat /\ n <= Len(new) /\ n <= Room(row)
  BY <1>1, <1>2
<1>4. fit = SubSeq(new, 1, n)
  BY DEF Fitting
<1> HIDE DEF n, new, fit, read
<1>5. \A i \in 1 .. n : new[i] \in TagWords
  BY <1>2, <1>3, ElementOfSeq
<1>6. /\ fit \in Seq(TagWords) /\ Len(fit) = n
      /\ \A i \in 1 .. n : fit[i] = new[i]
  BY <1>3, <1>4, <1>5, SubSeqProperties
<1>7. DOMAIN fit = 1 .. n
  BY <1>6, LenProperties
<1>8. /\ all \in Seq(TagWords) /\ Len(all) = Len(read) + n
      /\ \A i \in 1 .. Len(read) + n : all[i] = IF i <= Len(read) THEN read[i] ELSE fit[i - Len(read)]
  BY <1>0, <1>6, ConcatProperties
<1>9. DOMAIN all = 1 .. Len(read) + n
  BY <1>8, LenProperties
<1> HIDE DEF all
<1>10. ToSet(all) = ToSet(read) \cup ToSet(fit)
  <2>1. \A i \in DOMAIN all : all[i] \in ToSet(read) \cup ToSet(fit)
    <3> SUFFICES ASSUME NEW i \in DOMAIN all PROVE all[i] \in ToSet(read) \cup ToSet(fit)
      OBVIOUS
    <3>1. CASE i <= Len(read)
      BY <3>1, <1>0, <1>3, <1>8, <1>9 DEF ToSet
    <3>2. CASE ~(i <= Len(read))
      <4>1. i - Len(read) \in DOMAIN fit /\ all[i] = fit[i - Len(read)]
        BY <3>2, <1>0, <1>3, <1>7, <1>8, <1>9
      <4> QED BY <4>1 DEF ToSet
    <3> QED BY <3>1, <3>2
  <2>2. \A i \in DOMAIN read : read[i] \in ToSet(all)
    BY <1>0, <1>3, <1>8, <1>9 DEF ToSet
  <2>3. \A i \in DOMAIN fit : fit[i] \in ToSet(all)
    <3> SUFFICES ASSUME NEW i \in DOMAIN fit PROVE fit[i] \in ToSet(all)
      OBVIOUS
    <3>1. i + Len(read) \in DOMAIN all /\ all[i + Len(read)] = fit[i]
      BY <1>0, <1>3, <1>7, <1>8, <1>9
    <3> QED BY <3>1 DEF ToSet
  <2> QED BY <2>1, <2>2, <2>3 DEF ToSet
<1>11. IsInjective(all)
  <2> SUFFICES ASSUME NEW i \in DOMAIN all, NEW j \in DOMAIN all, all[i] = all[j], i < j
               PROVE  FALSE
    BY <1>9, <1>0, <1>3 DEF IsInjective
  <2>1. CASE j <= Len(read)
    BY <2>1, <1>0, <1>3, <1>8, <1>9 DEF IsInjective, read
  <2>2. CASE i > Len(read)
    <3>1. i - Len(read) \in 1 .. n /\ j - Len(read) \in 1 .. n
      BY <2>2, <1>0, <1>3, <1>9
    <3>2. all[i] = fit[i - Len(read)] /\ all[j] = fit[j - Len(read)]
      BY <2>2, <1>0, <1>3, <1>8, <1>9
    <3>4. new[i - Len(read)] = new[j - Len(read)]
      BY <3>1, <3>2, <1>6
    <3>3. i - Len(read) = j - Len(read)
      BY <3>1, <3>4, <1>2, <1>3 DEF IsInjective
    <3> QED BY <3>3, <1>0, <1>3, <1>9
  <2>3. CASE i <= Len(read) /\ j > Len(read)
    <3>1. i \in DOMAIN read /\ j - Len(read) \in 1 .. n /\ j - Len(read) \in DOMAIN new
      BY <2>3, <1>0, <1>2, <1>3, <1>9
    <3>2. read[i] = new[j - Len(read)]
      BY <2>3, <3>1, <1>0, <1>3, <1>6, <1>8, <1>9
    <3>3. read[i] \in ToSet(read) /\ new[j - Len(read)] \in ToSet(new)
      BY <3>1 DEF ToSet
    <3> QED BY <3>2, <3>3, <1>2
  <2> QED BY <2>1, <2>2, <2>3, <1>0, <1>3, <1>9
<1>12. Len(all) <= MaxTags
  BY <1>0, <1>1, <1>3, <1>8
<1> QED BY <1>6, <1>8, <1>10, <1>11, <1>12 DEF all, fit, read

-----------------------------------------------------------------------------
LEMMA OwedAreCounted ==
  ASSUME TagAsks
  PROVE  IsFiniteSet(AnswersOwed) /\ Cardinality(AnswersOwed) \in Nat /\ (AnswersOwed # {} => Cardinality(AnswersOwed) > 0)
         /\ DOMAIN asks = 1 .. Len(asks) /\ Len(asks) \in Nat
<1>1. DOMAIN asks = 1 .. Len(asks) /\ Len(asks) \in Nat
  BY LenProperties DEF TagAsks
<1>2. \A m \in Nat : IsFiniteSet(1 .. m)
  BY FS_Interval
<1>3. IsFiniteSet(AnswersOwed)
  BY <1>1, <1>2, FS_Subset DEF AnswersOwed
<1> QED BY <1>1, <1>3, FS_CardinalityType, FS_EmptySet

(* A new request owns nothing yet.                                          *)
LEMMA AskingKeeps ==
  ASSUME TagsInv, NEW row \in TagRows, row.at = "sent", row.words # << >>,
         row.kind = "sweep" => row.to # Head(row.words) /\ row.by # "strip", Asked(row),
         UNCHANGED <<tags, granted, locked, fetch, news>>, strip' \in TagStrips,
         strip'.pending = IF row.by = "strip" THEN strip.pending + 1 ELSE strip.pending
  PROVE  TagsInv'
<1> DEFINE n == Len(asks) + 1
<1>0. /\ IsFiniteSet(AnswersOwed) /\ Cardinality(AnswersOwed) \in Nat
      /\ DOMAIN asks = 1 .. Len(asks) /\ Len(asks) \in Nat /\ MaxAsks \in Nat
  BY OwedAreCounted, TagsAssumption DEF TagsInv
<1>1. asks \in Seq(TagRows) /\ asks' = Append(asks, row) /\ Len(asks) < MaxAsks
  BY DEF TagsInv, TagAsks, Asked
<1>2. /\ asks' \in Seq(TagRows) /\ Len(asks') = n
      /\ \A i \in 1 .. Len(asks) : asks'[i] = asks[i]
      /\ asks'[n] = row
  BY <1>1, AppendProperties
<1>3. DOMAIN asks' = 1 .. n
  BY <1>2, LenProperties
<1>4. TagAsks'
  BY <1>0, <1>1, <1>2 DEF TagAsks
<1>5. TagStore' /\ TagScreen' /\ TagsAreKept'
  BY DEF TagsInv, TagStore, TagScreen, TagsAreKept
<1>6. (strip.pending = Cardinality(AnswersOwed))'
  <2>1. CASE row.by = "strip"
    <3>1. AnswersOwed' = AnswersOwed \cup {n}
      BY <2>1, <1>0, <1>2, <1>3 DEF AnswersOwed
    <3>2. n \notin AnswersOwed
      BY <1>0 DEF AnswersOwed
    <3>3. strip.pending = Cardinality(AnswersOwed) /\ strip'.pending = strip.pending + 1
      BY <2>1 DEF TagsInv
    <3>4. Cardinality(AnswersOwed \cup {n}) = Cardinality(AnswersOwed) + 1
      BY <3>2, <1>0, FS_AddElement
    <3> QED BY <3>1, <3>3, <3>4
  <2>2. CASE row.by # "strip"
    <3>1. AnswersOwed' = AnswersOwed
      BY <2>2, <1>0, <1>2, <1>3 DEF AnswersOwed
    <3> QED BY <2>2, <3>1 DEF TagsInv
  <2> QED BY <2>1, <2>2
<1>7. ASSUME NEW i \in DOMAIN asks' PROVE TagHolds(i)'
  BY <1>0, <1>2, <1>3 DEF TagsInv, TagHolds
<1>8. ASSUME NEW c \in Tagged PROVE TagHeld(c)'
  <2>1. TagHeld(c)
    BY DEF TagsInv
  <2> QED BY <2>1, <1>0, <1>2, <1>3 DEF TagHeld
<1> QED BY <1>4, <1>5, <1>6, <1>7, <1>8 DEF TagsInv

(* A request that goes on is the same request.                              *)
SameAsk(row, old) ==
  /\ row.kind = old.kind /\ row.by = old.by /\ row.conv = old.conv
  /\ row.words = old.words /\ row.to = old.to

LEMMA ReplacingKeeps ==
  ASSUME TagsInv, NEW i \in DOMAIN asks, NEW row \in TagRows, SameAsk(row, asks[i]),
         Replace(i, row)
  PROVE  /\ TagAsks' /\ DOMAIN asks' = DOMAIN asks
         /\ asks'[i] = row /\ \A j \in DOMAIN asks \ {i} : asks'[j] = asks[j]
         /\ asks[i].by # "strip" \/ (row.at # "over" /\ asks[i].at # "over") => AnswersOwed' = AnswersOwed
         /\ asks[i].by = "strip" /\ asks[i].at # "over" /\ row.at = "over" =>
              Cardinality(AnswersOwed') = strip.pending - 1 /\ strip.pending > 0
<1>0. /\ IsFiniteSet(AnswersOwed) /\ Cardinality(AnswersOwed) \in Nat /\ (AnswersOwed # {} => Cardinality(AnswersOwed) > 0)
      /\ DOMAIN asks = 1 .. Len(asks) /\ Len(asks) \in Nat
  BY OwedAreCounted DEF TagsInv
<1>1. /\ asks' \in Seq(TagRows) /\ Len(asks') = Len(asks)
      /\ \A j \in 1 .. Len(asks) : asks'[j] = IF j = i THEN row ELSE asks[j]
  BY <1>0, ExceptSeq DEF TagsInv, TagAsks, Replace
<1>2. DOMAIN asks' = DOMAIN asks
  BY <1>0, <1>1, LenProperties
<1>3. asks[i].by # "strip" \/ (row.at # "over" /\ asks[i].at # "over") => AnswersOwed' = AnswersOwed
  BY <1>0, <1>1, <1>2 DEF AnswersOwed, SameAsk
<1>4. ASSUME asks[i].by = "strip", asks[i].at # "over", row.at = "over"
      PROVE  Cardinality(AnswersOwed') = strip.pending - 1 /\ strip.pending > 0
  <2>1. AnswersOwed' = AnswersOwed \ {i} /\ i \in AnswersOwed
    BY <1>0, <1>1, <1>2, <1>4 DEF AnswersOwed, SameAsk
  <2>2. strip.pending = Cardinality(AnswersOwed)
    BY DEF TagsInv
  <2> QED BY <1>0, <2>1, <2>2, FS_RemoveElement
<1> QED BY <1>0, <1>1, <1>2, <1>3, <1>4 DEF TagsInv, TagAsks

(* Asking.                                                                  *)
LEMMA OneWord ==
  ASSUME NEW v \in TagWords
  PROVE  <<v>> \in Seq(TagWords) /\ <<v>> # << >> /\ Head(<<v>>) = v
OBVIOUS

LEMMA CurrentTyped ==
  ASSUME TagsInv
  PROVE  Current \in Seq(TagWords) /\ strip.pending + 1 \in Nat
BY DEF TagsInv, TagScreen, TagStrips, Current

LEMMA AheadTyped ==
  ASSUME TagsInv, NEW next \in Seq(TagWords), Ahead(next)
  PROVE  strip' \in TagStrips /\ strip'.pending = strip.pending + 1
<1> DEFINE p == strip.pending + 1
<1>1. strip \in TagStrips /\ p \in Nat
  BY CurrentTyped DEF TagsInv, TagScreen
<1>2. strip' = [strip EXCEPT !.ahead = TRUE, !.shown = next, !.pending = p]
  BY DEF Ahead
<1> HIDE DEF p
<1>3. strip' \in TagStrips /\ strip'.pending = p
  BY <1>1, <1>2 DEF TagStrips
<1> QED BY <1>3 DEF p

LEMMA TypingKeeps ==
  ASSUME TagsInv, NEW w \in TagWords, AddHere(w) \/ RemoveHere(w)
  PROVE  TagsInv'
<1>0. Strip \in Tagged /\ NoWord \in TagWords \cup {NoWord}
  BY TagsAssumption
<1>1. Current \in Seq(TagWords)
  BY CurrentTyped
<1>2. Append(Current, w) \in Seq(TagWords) /\ Without(Current, w) \in Seq(TagWords)
  BY <1>1, AppendProperties, WithoutIsKept
<1>3. CASE AddHere(w)
  <2> DEFINE row == Ask("add", "strip", Strip, <<w>>, NoWord)
  <2>1. row \in TagRows /\ row.at = "sent" /\ row.by = "strip" /\ row.kind = "add" /\ row.words = <<w>>
    BY <1>0, OneWord, EmptySeq DEF Ask, TagRows
  <2>2. /\ Asked(row) /\ Ahead(Append(Current, w))
        /\ UNCHANGED <<tags, granted, locked, fetch, news>>
    BY <1>3 DEF AddHere
  <2>3. strip' \in TagStrips /\ strip'.pending = strip.pending + 1
    BY <1>2, <2>2, AheadTyped
  <2> HIDE DEF row
  <2> QED BY <2>1, <2>2, <2>3, OneWord, AskingKeeps
<1>4. CASE RemoveHere(w)
  <2> DEFINE row == Ask("remove", "strip", Strip, <<w>>, NoWord)
  <2>1. row \in TagRows /\ row.at = "sent" /\ row.by = "strip" /\ row.kind = "remove" /\ row.words = <<w>>
    BY <1>0, OneWord, EmptySeq DEF Ask, TagRows
  <2>2. /\ Asked(row) /\ Ahead(Without(Current, w))
        /\ UNCHANGED <<tags, granted, locked, fetch, news>>
    BY <1>4 DEF RemoveHere
  <2>3. strip' \in TagStrips /\ strip'.pending = strip.pending + 1
    BY <1>2, <2>2, AheadTyped
  <2> HIDE DEF row
  <2> QED BY <2>1, <2>2, <2>3, OneWord, AskingKeeps
<1> QED BY <1>3, <1>4

LEMMA AskingOfOthersKeeps ==
  ASSUME TagsInv, NEW c \in Tagged, NEW v \in TagWords, NEW w \in TagWords,
         NEW to \in TagWords \cup {NoWord},
         AskColleague(c, w) \/ AskAi(c, v, w) \/ AskSweep(v, to)
  PROVE  TagsInv'
<1>0. Strip \in Tagged /\ NoWord \in TagWords \cup {NoWord} /\ strip \in TagStrips
  BY TagsAssumption DEF TagsInv, TagScreen
<1>1. CASE AskColleague(c, w)
  <2>1. PICK kind \in {"add", "remove"} : Asked(Ask(kind, "colleague", c, <<w>>, NoWord))
    BY <1>1 DEF AskColleague
  <2> DEFINE row == Ask(kind, "colleague", c, <<w>>, NoWord)
  <2>2. row \in TagRows /\ row.at = "sent" /\ row.by = "colleague" /\ row.kind = kind /\ row.words = <<w>>
    BY <1>0, OneWord, EmptySeq DEF Ask, TagRows
  <2>3. Asked(row) /\ UNCHANGED <<tags, granted, locked, fetch, news>> /\ UNCHANGED strip
    BY <1>1, <2>1 DEF AskColleague
  <2> HIDE DEF row
  <2> QED BY <1>0, <2>2, <2>3, OneWord, AskingKeeps
<1>2. CASE AskAi(c, v, w)
  <2> DEFINE row == Ask("add", "ai", c, <<v, w>>, NoWord)
  <2>1. <<v, w>> \in Seq(TagWords) /\ <<v, w>> # << >>
    OBVIOUS
  <2>2. row \in TagRows /\ row.at = "sent" /\ row.by = "ai" /\ row.kind = "add" /\ row.words = <<v, w>>
    BY <1>0, <2>1, EmptySeq DEF Ask, TagRows
  <2>3. Asked(row) /\ UNCHANGED <<tags, granted, locked, fetch, news>> /\ UNCHANGED strip
    BY <1>2 DEF AskAi
  <2> HIDE DEF row
  <2> QED BY <1>0, <2>1, <2>2, <2>3, AskingKeeps
<1>3. CASE AskSweep(v, to)
  <2> DEFINE row == Ask("sweep", "admin", Strip, <<v>>, to)
  <2>2. /\ row \in TagRows /\ row.at = "sent" /\ row.by = "admin" /\ row.kind = "sweep"
        /\ row.words = <<v>> /\ row.to = to
    BY <1>0, OneWord, EmptySeq DEF Ask, TagRows
  <2>3. Asked(row) /\ UNCHANGED <<tags, granted, locked, fetch, news>> /\ UNCHANGED strip /\ v # to
    BY <1>3 DEF AskSweep
  <2> HIDE DEF row
  <2> QED BY <1>0, <2>2, <2>3, OneWord, AskingKeeps
<1> QED BY <1>1, <1>2, <1>3

(* The strip hears, or does not, and the cache is read anew.                *)
LEMMA AnswersKeep ==
  ASSUME TagsInv, NEW i \in DOMAIN asks, HearTags(i) \/ LoseTags(i)
  PROVE  TagsInv'
<1> DEFINE row == [asks[i] EXCEPT !.at = "over"]
<1>1. asks[i] \in TagRows
  BY ElementOfSeq, OwedAreCounted DEF TagsInv, TagAsks
<1>2. row \in TagRows /\ SameAsk(row, asks[i]) /\ row.at = "over"
  BY <1>1 DEF TagRows, SameAsk
<1>3. /\ asks[i].by = "strip" /\ asks[i].at \in {"sent", "answered"} /\ Replace(i, row)
      /\ UNCHANGED <<tags, granted, locked, fetch, news>>
  BY DEF HearTags, LoseTags
<1>4. PICK cached \in Seq(TagWords) : strip' = Settled(cached)
  <2>1. asks[i].answer \in Seq(TagWords) /\ strip.cached \in Seq(TagWords)
    BY <1>1 DEF TagRows, TagsInv, TagScreen, TagStrips
  <2> QED BY <2>1 DEF HearTags, LoseTags
<1> HIDE DEF row
<1>5. /\ TagAsks' /\ DOMAIN asks' = DOMAIN asks
      /\ asks'[i] = row /\ \A j \in DOMAIN asks \ {i} : asks'[j] = asks[j]
      /\ Cardinality(AnswersOwed') = strip.pending - 1 /\ strip.pending > 0
  BY <1>2, <1>3, ReplacingKeeps
<1>6. strip' \in TagStrips /\ strip'.pending = strip.pending - 1
  <2> DEFINE p == strip.pending - 1
             more == strip.pending > 1
  <2>1. strip \in TagStrips /\ p \in Nat /\ more \in BOOLEAN
    BY <1>5 DEF TagsInv, TagScreen, TagStrips
  <2>2. strip' = [strip EXCEPT !.pending = p, !.ahead = more, !.cached = cached]
    BY <1>4 DEF Settled
  <2> HIDE DEF p, more
  <2>3. strip' \in TagStrips /\ strip'.pending = p
    BY <2>1, <2>2 DEF TagStrips
  <2> QED BY <2>3 DEF p
<1>7. TagStore' /\ TagScreen' /\ TagsAreKept'
  BY <1>3, <1>6 DEF TagsInv, TagStore, TagScreen, TagsAreKept
<1>8. ASSUME NEW j \in DOMAIN asks' PROVE TagHolds(j)'
  <2>1. TagHolds(j)
    BY <1>5 DEF TagsInv
  <2> QED BY <2>1, <1>2, <1>3, <1>5 DEF TagHolds, SameAsk
<1>9. ASSUME NEW c \in Tagged PROVE TagHeld(c)'
  <2>1. TagHeld(c)
    BY DEF TagsInv
  <2> QED BY <2>1, <1>2, <1>3, <1>5 DEF TagHeld, SameAsk
<1> QED BY <1>5, <1>6, <1>7, <1>8, <1>9 DEF TagsInv

LEMMA FetchingKeeps ==
  ASSUME TagsInv, HearTagNews \/ FetchReads \/ FetchLands
  PROVE  TagsInv'
<1>1. TagStore' /\ TagAsks' /\ TagsAreKept' /\ UNCHANGED <<tags, granted, locked, asks>>
  BY DEF TagsInv, TagStore, TagAsks, TagsAreKept, HearTagNews, FetchReads, FetchLands
<1>2. TagScreen' /\ strip'.pending = strip.pending
  <2>1. tags[Strip] \in Seq(TagWords) /\ << >> \in Seq(TagWords)
    BY TagsAssumption, EmptySeq DEF TagsInv, TagStore
  <2>2. strip \in TagStrips /\ fetch \in TagFetches /\ news \in BOOLEAN
    BY DEF TagsInv, TagScreen
  <2>3. CASE HearTagNews
    BY <2>1, <2>2, <2>3 DEF HearTagNews, TagScreen, TagFetches
  <2>4. CASE FetchReads
    BY <2>1, <2>2, <2>4 DEF FetchReads, TagScreen, TagFetches
  <2>5. CASE FetchLands
    <3>1. fetch.tags \in Seq(TagWords) /\ strip' = [strip EXCEPT !.cached = fetch.tags]
          /\ fetch' = [at |-> "idle", tags |-> << >>] /\ news' = news
      BY <2>2, <2>5 DEF FetchLands, TagFetches
    <3>2. strip' \in TagStrips /\ strip'.pending = strip.pending
      BY <2>2, <3>1 DEF TagStrips
    <3>3. fetch' \in TagFetches
      BY <2>1, <3>1 DEF TagFetches
    <3> QED BY <2>2, <3>1, <3>2, <3>3 DEF TagScreen
  <2> QED BY <2>3, <2>4, <2>5
<1>3. AnswersOwed' = AnswersOwed
  BY <1>1 DEF AnswersOwed
<1>4. (\A i \in DOMAIN asks : TagHolds(i))' /\ (\A c \in Tagged : TagHeld(c))'
  BY <1>1 DEF TagsInv, TagHolds, TagHeld
<1> QED BY <1>1, <1>2, <1>3, <1>4 DEF TagsInv

-----------------------------------------------------------------------------
(* What the database does.                                                  *)
LEMMA TheAsk ==
  ASSUME TagsInv, NEW i \in DOMAIN asks
  PROVE  /\ asks[i] \in TagRows /\ asks[i].conv \in Tagged /\ i \in 1 .. MaxAsks /\ i # 0
         /\ tags[asks[i].conv] \in Seq(TagWords) /\ locked[asks[i].conv] \in 0 .. MaxAsks
         /\ Head(asks[i].words) \in TagWords
<1>1. asks[i] \in TagRows /\ i \in 1 .. MaxAsks
  <2>1. asks \in Seq(TagRows) /\ Len(asks) <= MaxAsks /\ MaxAsks \in Nat
    BY TagsAssumption DEF TagsInv, TagAsks
  <2>2. DOMAIN asks = 1 .. Len(asks) /\ Len(asks) \in Nat
    BY OwedAreCounted DEF TagsInv
  <2> QED BY <2>1, <2>2, ElementOfSeq
<1>2. asks[i].conv \in Tagged /\ asks[i].words \in Seq(TagWords) /\ asks[i].words # << >>
  BY <1>1 DEF TagRows, TagsInv, TagHolds
<1> QED BY <1>1, <1>2, HeadTailProperties, TagsAssumption DEF TagsInv, TagStore

LEMMA LockTagsKeeps ==
  ASSUME TagsInv, NEW i \in DOMAIN asks, LockTags(i)
  PROVE  TagsInv'
<1> DEFINE c == asks[i].conv
           row == [asks[i] EXCEPT !.at = "locked", !.read = tags[c]]
<1>1. /\ asks[i] \in TagRows /\ c \in Tagged /\ i \in 1 .. MaxAsks /\ i # 0
      /\ tags[c] \in Seq(TagWords)
  BY TheAsk
<1>2. /\ asks[i].kind = "add" /\ asks[i].at = "sent" /\ locked[c] = 0
      /\ locked' = [locked EXCEPT ![c] = i] /\ Replace(i, row)
      /\ UNCHANGED <<tags, granted, strip, fetch, news>>
  BY DEF LockTags, AskIs, RowIsFree
<1>3. row \in TagRows /\ SameAsk(row, asks[i]) /\ row.at = "locked" /\ row.read = tags[c]
  BY <1>1 DEF TagRows, SameAsk
<1> HIDE DEF row
<1>4. /\ TagAsks' /\ DOMAIN asks' = DOMAIN asks
      /\ asks'[i] = row /\ \A j \in DOMAIN asks \ {i} : asks'[j] = asks[j]
      /\ AnswersOwed' = AnswersOwed
  BY <1>2, <1>3, ReplacingKeeps
<1>5. TagStore' /\ TagScreen' /\ TagsAreKept'
  BY <1>1, <1>2 DEF TagsInv, TagStore, TagScreen, TagsAreKept
<1>6. locked \in [Tagged -> 0 .. MaxAsks]
  BY DEF TagsInv, TagStore
<1>7. ASSUME NEW j \in DOMAIN asks' PROVE TagHolds(j)'
  <2>1. TagHolds(j) /\ TagHolds(i) /\ j \in DOMAIN asks
    BY <1>4 DEF TagsInv
  <2>2. asks[j].conv \in Tagged /\ j # 0
    BY <2>1, TheAsk
  <2> QED BY <2>1, <2>2, <1>1, <1>2, <1>3, <1>4, <1>6 DEF TagHolds, SameAsk
<1>8. ASSUME NEW d \in Tagged PROVE TagHeld(d)'
  <2>1. TagHeld(d)
    BY DEF TagsInv
  <2> QED BY <2>1, <1>1, <1>2, <1>3, <1>4, <1>6 DEF TagHeld, SameAsk
<1> QED BY <1>2, <1>4, <1>5, <1>7, <1>8 DEF TagsInv

LEMMA StoreTagsKeeps ==
  ASSUME TagsInv, NEW i \in DOMAIN asks, StoreTags(i)
  PROVE  TagsInv'
<1> DEFINE ask == asks[i]
           c == ask.conv
           full == ask.by # "ai" /\ Len(Added(ask)) > Room(ask)
           next == IF full THEN ask.read ELSE ask.read \o Fitting(ask)
           row == [ask EXCEPT !.at = IF ask.by = "strip" THEN "answered" ELSE "over",
                              !.ok = ~full, !.answer = next]
<1>1. ask \in TagRows /\ c \in Tagged /\ i \in 1 .. MaxAsks /\ i # 0 /\ tags[c] \in Seq(TagWords)
  BY TheAsk
<1>2. /\ ask.kind = "add" /\ ask.at = "locked"
      /\ tags' = IF next = ask.read THEN tags ELSE [tags EXCEPT ![c] = next]
      /\ granted' = IF full THEN granted ELSE [granted EXCEPT ![c] = @ \cup ToSet(Fitting(ask))]
      /\ locked' = [locked EXCEPT ![c] = IF @ = i THEN 0 ELSE @]
      /\ Replace(i, row) /\ UNCHANGED <<strip, fetch>> /\ news' \in BOOLEAN
  BY DEF StoreTags, AskIs, AnswerTo, TellTags, TagsInv, TagScreen
<1>3. /\ tags \in [Tagged -> Seq(TagWords)] /\ granted \in [Tagged -> SUBSET TagWords]
      /\ locked \in [Tagged -> 0 .. MaxAsks] /\ MaxAsks \in Nat
  BY TagsAssumption DEF TagsInv, TagStore
<1>4. locked[c] = i /\ ask.read = tags[c]
  BY <1>2 DEF TagsInv, TagHolds
<1>5. ToSet(tags[c]) = granted[c] /\ IsInjective(tags[c]) /\ Len(tags[c]) <= MaxTags
  BY <1>1 DEF TagsInv, TagsAreKept
<1>6. /\ Fitting(ask) \in Seq(TagWords) /\ ask.read \o Fitting(ask) \in Seq(TagWords)
      /\ ToSet(ask.read \o Fitting(ask)) = ToSet(ask.read) \cup ToSet(Fitting(ask))
      /\ IsInjective(ask.read \o Fitting(ask)) /\ Len(ask.read \o Fitting(ask)) <= MaxTags
  BY <1>1, <1>4, <1>5, FittingFits
<1>7. /\ next \in Seq(TagWords) /\ IsInjective(next) /\ Len(next) <= MaxTags
      /\ ToSet(next) = IF full THEN granted[c] ELSE granted[c] \cup ToSet(Fitting(ask))
  BY <1>1, <1>4, <1>5, <1>6
<1>8. ToSet(Fitting(ask)) \subseteq TagWords
  BY <1>6, LenProperties, ElementOfSeq DEF ToSet
<1>9. row \in TagRows /\ SameAsk(row, ask) /\ row.at \in {"answered", "over"}
      /\ (ask.by = "strip" => row.at # "over")
  <2> HIDE DEF next, full
  <2>1. (~full) \in BOOLEAN
    BY DEF full
  <2> QED BY <1>1, <1>7, <2>1 DEF TagRows, SameAsk
<1>10. tags' = [tags EXCEPT ![c] = next]
  BY <1>1, <1>2, <1>3, <1>4
<1>11. granted' = [granted EXCEPT ![c] = ToSet(next)]
  BY <1>1, <1>2, <1>3, <1>7
<1>12. locked' = [locked EXCEPT ![c] = 0]
  BY <1>1, <1>2, <1>4
<1>13. ToSet(next) \subseteq TagWords
  BY <1>1, <1>3, <1>7, <1>8
<1> HIDE DEF next, full, row, ask, c
<1>14. /\ TagAsks' /\ DOMAIN asks' = DOMAIN asks
       /\ asks'[i] = row /\ \A j \in DOMAIN asks \ {i} : asks'[j] = asks[j]
       /\ AnswersOwed' = AnswersOwed
  BY <1>2, <1>9, ReplacingKeeps DEF ask
<1>15. TagStore'
  BY <1>1, <1>3, <1>7, <1>10, <1>11, <1>12, <1>13 DEF TagStore
<1>16. TagScreen' /\ strip' = strip
  BY <1>2 DEF TagsInv, TagScreen
<1>17. TagsAreKept'
  BY <1>1, <1>3, <1>7, <1>10, <1>11 DEF TagsInv, TagsAreKept
<1>18. ASSUME NEW j \in DOMAIN asks' PROVE TagHolds(j)'
  <2>1. TagHolds(j) /\ j \in DOMAIN asks
    BY <1>14 DEF TagsInv
  <2>2. asks[j].conv \in Tagged /\ j # 0
    BY <2>1, TheAsk
  <2>3. CASE j = i
    BY <2>1, <2>3, <1>2, <1>9, <1>14 DEF TagHolds, SameAsk, ask
  <2>4. CASE j # i
    BY <2>1, <2>2, <2>4, <1>3, <1>4, <1>10, <1>12, <1>14 DEF TagHolds
  <2> QED BY <2>3, <2>4
<1>19. ASSUME NEW d \in Tagged PROVE TagHeld(d)'
  <2>1. TagHeld(d)
    BY DEF TagsInv
  <2>2. CASE d = c
    BY <2>2, <1>1, <1>3, <1>12 DEF TagHeld
  <2>3. CASE d # c
    <3>1. locked'[d] = locked[d] /\ tags'[d] = tags[d]
      BY <2>3, <1>3, <1>10, <1>12
    <3>2. locked[d] # i \/ locked[d] = 0
      BY <2>1, <2>3, <1>2 DEF TagHeld, ask, c
    <3> QED BY <2>1, <3>1, <3>2, <1>14 DEF TagHeld
  <2> QED BY <2>2, <2>3
<1> QED BY <1>14, <1>15, <1>16, <1>17, <1>18, <1>19 DEF TagsInv

LEMMA RemoveTagKeeps ==
  ASSUME TagsInv, NEW i \in DOMAIN asks, RemoveTag(i)
  PROVE  TagsInv'
<1> DEFINE c == asks[i].conv
           w == Head(asks[i].words)
           next == Without(tags[c], w)
           row == [asks[i] EXCEPT !.at = IF asks[i].by = "strip" THEN "answered" ELSE "over",
                                  !.ok = TRUE, !.answer = next]
<1>1. asks[i] \in TagRows /\ c \in Tagged /\ i \in 1 .. MaxAsks /\ i # 0 /\ tags[c] \in Seq(TagWords)
  BY TheAsk
<1>2. /\ asks[i].kind = "remove" /\ asks[i].at = "sent" /\ locked[c] = 0
      /\ tags' = [tags EXCEPT ![c] = next]
      /\ granted' = [granted EXCEPT ![c] = granted[c] \ {w}]
      /\ Replace(i, row) /\ UNCHANGED <<locked, strip, fetch>> /\ news' \in BOOLEAN
  BY DEF RemoveTag, AskIs, AnswerTo, TellTags, RowIsFree, TagsInv, TagScreen
<1>3. /\ tags \in [Tagged -> Seq(TagWords)] /\ granted \in [Tagged -> SUBSET TagWords]
      /\ locked \in [Tagged -> 0 .. MaxAsks] /\ MaxAsks \in Nat /\ MaxTags \in Nat
  BY TagsAssumption DEF TagsInv, TagStore
<1>5. ToSet(tags[c]) = granted[c] /\ IsInjective(tags[c]) /\ Len(tags[c]) <= MaxTags
  BY <1>1 DEF TagsInv, TagsAreKept
<1>6. /\ next \in Seq(TagWords) /\ Len(next) <= Len(tags[c])
      /\ ToSet(next) = ToSet(tags[c]) \ {w} /\ IsInjective(next)
  BY <1>1, <1>5, WithoutIsKept
<1>7. Len(next) <= MaxTags
  BY <1>1, <1>3, <1>5, <1>6, LenProperties
<1>8. row \in TagRows /\ SameAsk(row, asks[i]) /\ row.at \in {"answered", "over"}
      /\ (asks[i].by = "strip" => row.at # "over")
  <2> HIDE DEF next
  <2> QED BY <1>1, <1>6 DEF TagRows, SameAsk
<1> HIDE DEF next, row, c, w
<1>14. /\ TagAsks' /\ DOMAIN asks' = DOMAIN asks
       /\ asks'[i] = row /\ \A j \in DOMAIN asks \ {i} : asks'[j] = asks[j]
       /\ AnswersOwed' = AnswersOwed
  BY <1>2, <1>8, ReplacingKeeps
<1>15. TagStore'
  BY <1>1, <1>2, <1>3, <1>6 DEF TagStore
<1>16. TagScreen' /\ strip' = strip
  BY <1>2 DEF TagsInv, TagScreen
<1>17. TagsAreKept'
  BY <1>1, <1>2, <1>3, <1>5, <1>6, <1>7 DEF TagsInv, TagsAreKept
<1>18. ASSUME NEW j \in DOMAIN asks' PROVE TagHolds(j)'
  <2>1. TagHolds(j) /\ j \in DOMAIN asks
    BY <1>14 DEF TagsInv
  <2>2. asks[j].conv \in Tagged /\ j # 0
    BY <2>1, TheAsk
  <2>3. CASE j = i
    BY <2>1, <2>3, <1>2, <1>8, <1>14 DEF TagHolds, SameAsk
  <2>4. CASE j # i
    BY <2>1, <2>2, <2>4, <1>2, <1>3, <1>14 DEF TagHolds
  <2> QED BY <2>3, <2>4
<1>19. ASSUME NEW d \in Tagged PROVE TagHeld(d)'
  <2>1. TagHeld(d)
    BY DEF TagsInv
  <2>2. CASE d = c
    BY <2>2, <1>2 DEF TagHeld
  <2>3. CASE d # c
    <3>1. locked'[d] = locked[d] /\ tags'[d] = tags[d]
      BY <2>3, <1>2, <1>3
    <3> QED BY <2>1, <3>1, <1>2, <1>8, <1>14 DEF TagHeld, SameAsk
  <2> QED BY <2>2, <2>3
<1> QED BY <1>14, <1>15, <1>16, <1>17, <1>18, <1>19 DEF TagsInv

LEMMA BeginSweepKeeps ==
  ASSUME TagsInv, NEW i \in DOMAIN asks, BeginSweep(i)
  PROVE  TagsInv'
<1> DEFINE mine == {c \in Tagged : Head(asks[i].words) \in ToSet(tags[c])}
           row == [asks[i] EXCEPT !.at = "sweeping", !.todo = mine]
<1>1. asks[i] \in TagRows /\ mine \in SUBSET Tagged
  BY TheAsk
<1>2. /\ asks[i].kind = "sweep" /\ asks[i].at = "sent" /\ Replace(i, row)
      /\ UNCHANGED <<tags, granted, locked, strip, fetch, news>>
  BY DEF BeginSweep, AskIs
<1> HIDE DEF mine
<1>3. row \in TagRows /\ SameAsk(row, asks[i]) /\ row.at = "sweeping"
  BY <1>1 DEF TagRows, SameAsk
<1> HIDE DEF row
<1>4. /\ TagAsks' /\ DOMAIN asks' = DOMAIN asks
      /\ asks'[i] = row /\ \A j \in DOMAIN asks \ {i} : asks'[j] = asks[j]
      /\ AnswersOwed' = AnswersOwed
  BY <1>2, <1>3, ReplacingKeeps
<1>5. TagStore' /\ TagScreen' /\ TagsAreKept'
  BY <1>2 DEF TagsInv, TagStore, TagScreen, TagsAreKept
<1>7. ASSUME NEW j \in DOMAIN asks' PROVE TagHolds(j)'
  <2>1. TagHolds(j) /\ TagHolds(i) /\ j \in DOMAIN asks
    BY <1>4 DEF TagsInv
  <2> QED BY <2>1, <1>2, <1>3, <1>4 DEF TagHolds, SameAsk
<1>8. ASSUME NEW d \in Tagged PROVE TagHeld(d)'
  <2>1. TagHeld(d)
    BY DEF TagsInv
  <2> QED BY <2>1, <1>2, <1>3, <1>4 DEF TagHeld, SameAsk
<1> QED BY <1>2, <1>4, <1>5, <1>7, <1>8 DEF TagsInv

LEMMA SweepRowKeeps ==
  ASSUME TagsInv, NEW i \in DOMAIN asks, NEW c \in Tagged, SweepRow(i, c)
  PROVE  TagsInv'
<1> DEFINE left == asks[i].todo \ {c}
           row == [asks[i] EXCEPT !.todo = left]
           v == Head(asks[i].words)
<1>1. asks[i] \in TagRows /\ left \in SUBSET Tagged /\ i \in 1 .. MaxAsks /\ i # 0
  BY TheAsk DEF TagRows
<1>2. /\ asks[i].kind = "sweep" /\ asks[i].at = "sweeping" /\ locked[c] = 0 /\ Replace(i, row)
      /\ locked' = IF v \in ToSet(tags[c]) THEN [locked EXCEPT ![c] = i] ELSE locked
      /\ UNCHANGED <<tags, granted, strip, fetch, news>>
  BY DEF SweepRow, AskIs, RowIsFree
<1> HIDE DEF left
<1>3. row \in TagRows /\ SameAsk(row, asks[i]) /\ row.at = "sweeping"
  BY <1>1, <1>2 DEF TagRows, SameAsk
<1> HIDE DEF row, v
<1>4. /\ TagAsks' /\ DOMAIN asks' = DOMAIN asks
      /\ asks'[i] = row /\ \A j \in DOMAIN asks \ {i} : asks'[j] = asks[j]
      /\ AnswersOwed' = AnswersOwed
  BY <1>2, <1>3, ReplacingKeeps
<1>5. TagStore' /\ TagScreen' /\ TagsAreKept'
  BY <1>1, <1>2 DEF TagsInv, TagStore, TagScreen, TagsAreKept
<1>6. locked \in [Tagged -> 0 .. MaxAsks]
  BY DEF TagsInv, TagStore
<1>7. ASSUME NEW j \in DOMAIN asks' PROVE TagHolds(j)'
  <2>1. TagHolds(j) /\ TagHolds(i) /\ j \in DOMAIN asks
    BY <1>4 DEF TagsInv
  <2>2. asks[j].conv \in Tagged /\ j # 0
    BY <2>1, TheAsk
  <2>3. CASE j = i
    BY <2>1, <2>3, <1>2, <1>3, <1>4 DEF TagHolds, SameAsk
  <2>4. CASE j # i
    BY <2>1, <2>2, <2>4, <1>2, <1>4, <1>6 DEF TagHolds
  <2> QED BY <2>3, <2>4
<1>8. ASSUME NEW d \in Tagged PROVE TagHeld(d)'
  <2>1. TagHeld(d)
    BY DEF TagsInv
  <2>2. CASE locked'[d] = locked[d]
    BY <2>1, <2>2, <1>2, <1>3, <1>4 DEF TagHeld, SameAsk
  <2>3. CASE locked'[d] # locked[d]
    <3>1. d = c /\ locked'[d] = i /\ v \in ToSet(tags[d])
      BY <2>3, <1>2, <1>6
    <3> QED BY <3>1, <1>2, <1>3, <1>4 DEF TagHeld, SameAsk, v
  <2> QED BY <2>2, <2>3
<1> QED BY <1>2, <1>4, <1>5, <1>7, <1>8 DEF TagsInv

LEMMA EndSweepKeeps ==
  ASSUME TagsInv, NEW i \in DOMAIN asks, EndSweep(i) \/ SweepIsVictim(i)
  PROVE  TagsInv'
<1> DEFINE row == [asks[i] EXCEPT !.at = "over"]
           v == Head(asks[i].words)
           to == asks[i].to
<1>1. asks[i] \in TagRows /\ i \in 1 .. MaxAsks /\ i # 0 /\ v \in TagWords
  BY TheAsk
<1>2. /\ asks[i].kind = "sweep" /\ asks[i].at = "sweeping" /\ Replace(i, row)
      /\ locked' = [c \in Tagged |-> IF locked[c] = i THEN 0 ELSE locked[c]]
      /\ UNCHANGED <<strip, fetch>> /\ news' \in BOOLEAN
  BY DEF EndSweep, SweepIsVictim, AskIs, TellTags, TagsInv, TagScreen
<1>3. /\ tags \in [Tagged -> Seq(TagWords)] /\ granted \in [Tagged -> SUBSET TagWords]
      /\ locked \in [Tagged -> 0 .. MaxAsks] /\ MaxAsks \in Nat /\ MaxTags \in Nat
      /\ NoWord \notin TagWords
  BY TagsAssumption DEF TagsInv, TagStore
<1>4. to \in TagWords \cup {NoWord} /\ asks[i].by # "strip"
  BY <1>1, <1>2 DEF TagRows, TagsInv, TagHolds
<1>5. row \in TagRows /\ SameAsk(row, asks[i]) /\ row.at = "over"
  BY <1>1 DEF TagRows, SameAsk
<1> HIDE DEF row, v, to
<1>6. /\ TagAsks' /\ DOMAIN asks' = DOMAIN asks
      /\ asks'[i] = row /\ \A j \in DOMAIN asks \ {i} : asks'[j] = asks[j]
      /\ AnswersOwed' = AnswersOwed
  BY <1>2, <1>4, <1>5, ReplacingKeeps
<1>7. locked' \in [Tagged -> 0 .. MaxAsks]
  BY <1>2, <1>3
<1>8. ASSUME NEW c \in Tagged
      PROVE  /\ tags'[c] \in Seq(TagWords) /\ granted'[c] \subseteq TagWords
             /\ ToSet(tags'[c]) = granted'[c] /\ IsInjective(tags'[c]) /\ Len(tags'[c]) <= MaxTags
             /\ locked[c] # i => tags'[c] = tags[c]
  <2>0. /\ tags[c] \in Seq(TagWords) /\ granted[c] \subseteq TagWords
        /\ ToSet(tags[c]) = granted[c] /\ IsInjective(tags[c]) /\ Len(tags[c]) <= MaxTags
    BY <1>3 DEF TagsInv, TagsAreKept
  <2>1. CASE EndSweep(i) /\ locked[c] = i
    <3>1. v \in ToSet(tags[c])
      <4>1. TagHeld(c)
        BY DEF TagsInv
      <4> QED BY <4>1, <2>1, <1>1, <1>2 DEF TagHeld, v
    <3>2. tags'[c] = Renamed(tags[c], v, to) /\ granted'[c] = (granted[c] \ {v}) \cup ({to} \ {NoWord})
      BY <2>1 DEF EndSweep, v, to
    <3>3. /\ Renamed(tags[c], v, to) \in Seq(TagWords) /\ Len(Renamed(tags[c], v, to)) <= Len(tags[c])
          /\ ToSet(Renamed(tags[c], v, to)) = (ToSet(tags[c]) \ {v}) \cup ({to} \ {NoWord})
          /\ IsInjective(Renamed(tags[c], v, to))
      BY <2>0, <3>1, <1>3, <1>4, RenamedIsOnce
    <3>4. Len(Renamed(tags[c], v, to)) <= MaxTags
      BY <2>0, <3>3, <1>3, LenProperties
    <3> QED BY <2>0, <2>1, <3>2, <3>3, <3>4, <1>4
  <2>2. CASE ~(EndSweep(i) /\ locked[c] = i)
    <3>1. tags'[c] = tags[c] /\ granted'[c] = granted[c]
      BY <2>2, <1>3 DEF EndSweep, SweepIsVictim
    <3> QED BY <2>0, <3>1
  <2> QED BY <2>1, <2>2
<1>9. tags' \in [Tagged -> Seq(TagWords)] /\ granted' \in [Tagged -> SUBSET TagWords]
  <2>1. /\ tags' = [c \in Tagged |-> tags'[c]]
        /\ granted' = [c \in Tagged |-> granted'[c]]
    BY <1>3 DEF EndSweep, SweepIsVictim
  <2> QED BY <2>1, <1>8
<1>10. TagStore' /\ TagsAreKept'
  BY <1>7, <1>8, <1>9 DEF TagStore, TagsAreKept
<1>11. TagScreen'
  BY <1>2 DEF TagsInv, TagScreen
<1>12. ASSUME NEW j \in DOMAIN asks' PROVE TagHolds(j)'
  <2>1. TagHolds(j) /\ j \in DOMAIN asks
    BY <1>6 DEF TagsInv
  <2>2. asks[j].conv \in Tagged /\ j # 0
    BY <2>1, TheAsk
  <2>3. CASE j = i
    <3>1. TagHolds(i)
      BY DEF TagsInv
    <3> QED BY <3>1, <2>3, <1>5, <1>6 DEF TagHolds, SameAsk
  <2>4. CASE j # i
    <3>1. asks[j].at = "locked" => locked'[asks[j].conv] = j /\ tags'[asks[j].conv] = tags[asks[j].conv]
      BY <2>1, <2>2, <2>4, <1>2, <1>8 DEF TagHolds
    <3> QED BY <2>1, <2>4, <3>1, <1>6 DEF TagHolds
  <2> QED BY <2>3, <2>4
<1>13. ASSUME NEW d \in Tagged PROVE TagHeld(d)'
  <2>1. TagHeld(d)
    BY DEF TagsInv
  <2>2. locked[d] = i => locked'[d] = 0
    BY <1>2
  <2>3. locked[d] # i => locked'[d] = locked[d] /\ tags'[d] = tags[d]
    BY <1>2, <1>8
  <2> QED BY <2>1, <2>2, <2>3, <1>6 DEF TagHeld
<1> QED BY <1>2, <1>6, <1>10, <1>11, <1>12, <1>13 DEF TagsInv

LEMMA TagsStart == TagsInit => TagsInv
<1> SUFFICES ASSUME TagsInit PROVE TagsInv
  OBVIOUS
<1>1. << >> \in Seq(TagRows) /\ << >> \in Seq(TagWords) /\ Len(<< >>) = 0 /\ DOMAIN << >> = {}
  BY EmptySeq
<1>2. MaxAsks \in Nat /\ MaxTags \in Nat \ {0} /\ Strip \in Tagged /\ Mask \in [TagWords -> TagWords]
  BY TagsAssumption
<1>3. tags \in [Tagged -> {<< >>} \cup {<<Mask[w]>> : w \in TagWords}]
  BY DEF TagsInit
<1>4. ASSUME NEW c \in Tagged
      PROVE  /\ tags[c] \in Seq(TagWords) /\ IsInjective(tags[c]) /\ Len(tags[c]) <= MaxTags
             /\ ToSet(tags[c]) \subseteq TagWords /\ granted[c] = ToSet(tags[c])
  <2>0. granted[c] = ToSet(tags[c])
    BY DEF TagsInit
  <2>1. CASE tags[c] = << >>
    BY <2>0, <2>1, <1>1, <1>2 DEF IsInjective, ToSet
  <2>2. CASE \E w \in TagWords : tags[c] = <<Mask[w]>>
    <3>1. PICK w \in TagWords : tags[c] = <<Mask[w]>>
      BY <2>2
    <3>2. Mask[w] \in TagWords
      BY <1>2
    <3>3. DOMAIN tags[c] = {1} /\ tags[c][1] = Mask[w] /\ Len(tags[c]) = 1 /\ tags[c] \in Seq(TagWords)
      BY <3>1, <3>2
    <3> QED BY <2>0, <3>2, <3>3, <1>2 DEF IsInjective, ToSet
  <2> QED BY <2>1, <2>2, <1>3
<1>5. TagStore /\ TagsAreKept
  <2>1. tags \in [Tagged -> Seq(TagWords)]
    BY <1>3, <1>4
  <2>2. granted \in [Tagged -> SUBSET TagWords]
    BY <1>4 DEF TagsInit
  <2>3. locked \in [Tagged -> 0 .. MaxAsks]
    BY <1>2 DEF TagsInit
  <2> QED BY <1>4, <2>1, <2>2, <2>3 DEF TagStore, TagsAreKept
<1>6. TagAsks
  BY <1>1, <1>2 DEF TagsInit, TagAsks
<1>7. TagScreen
  BY <1>1, <1>2, <1>4 DEF TagsInit, TagScreen, TagStrips, TagFetches
<1>8. strip.pending = Cardinality(AnswersOwed)
  <2>1. AnswersOwed = {}
    BY <1>1 DEF TagsInit, AnswersOwed
  <2> QED BY <2>1, FS_EmptySet DEF TagsInit
<1>9. (\A i \in DOMAIN asks : TagHolds(i)) /\ \A c \in Tagged : TagHeld(c)
  BY <1>1 DEF TagsInit, TagHeld
<1> QED BY <1>5, <1>6, <1>7, <1>8, <1>9 DEF TagsInv

LEMMA TagsStep == TagsInv /\ [TagsNext]_tagging => TagsInv'
<1> SUFFICES ASSUME TagsInv, [TagsNext]_tagging PROVE TagsInv'
  OBVIOUS
<1>0. Mask \in [TagWords -> TagWords]
  BY TagsAssumption
<1>1. CASE UNCHANGED tagging
  BY <1>1 DEF tagging, TagsInv, TagStore, TagAsks, TagScreen, TagHolds, TagHeld, TagsAreKept, AnswersOwed
<1>2. ASSUME NEW w \in TagWords, AddHere(w) \/ RemoveHere(w) PROVE TagsInv'
  BY <1>2, TypingKeeps
<1>3. ASSUME NEW c \in Tagged, NEW w \in TagWords,
             AskColleague(c, w) \/ \E v \in TagWords : AskAi(c, v, w)
      PROVE  TagsInv'
  BY <1>3, AskingOfOthersKeeps
<1>4. ASSUME NEW v \in TagWords, AskSweep(v, NoWord) \/ \E w \in TagWords : AskSweep(v, Mask[w])
      PROVE  TagsInv'
  <2>1. PICK to \in TagWords \cup {NoWord} : AskSweep(v, to)
    BY <1>0, <1>4
  <2>2. Strip \in Tagged
    BY TagsAssumption
  <2> QED BY <2>1, <2>2, AskingOfOthersKeeps
<1>5. ASSUME NEW i \in DOMAIN asks,
             \/ LockTags(i) \/ StoreTags(i) \/ RemoveTag(i)
             \/ BeginSweep(i) \/ EndSweep(i) \/ SweepIsVictim(i)
             \/ \E c \in Tagged : SweepRow(i, c)
             \/ HearTags(i) \/ LoseTags(i)
      PROVE  TagsInv'
  BY <1>5, LockTagsKeeps, StoreTagsKeeps, RemoveTagKeeps, BeginSweepKeeps, EndSweepKeeps,
     SweepRowKeeps, AnswersKeep
<1>6. ASSUME HearTagNews \/ FetchReads \/ FetchLands PROVE TagsInv'
  BY <1>6, FetchingKeeps
<1> QED BY <1>1, <1>2, <1>3, <1>4, <1>5, <1>6 DEF TagsNext

LEMMA TagsTypes == TagsInv => TagsTypeOK
<1> SUFFICES ASSUME TagsInv PROVE TagsTypeOK
  OBVIOUS
<1>1. \A i \in DOMAIN asks : asks[i] \in TagRows
  BY TheAsk
<1> QED BY <1>1 DEF TagsInv, TagStore, TagScreen, TagRows, TagStrips, TagFetches, TagsTypeOK

(* No tag is lost, whoever adds, takes off, renames and deletes at once, on *)
(* any number of conversations: what is read under the lock is what is      *)
(* there when it is written, and a sweep finds its tag where it locked.     *)
THEOREM NoTagIsLost == TagsSpec => []TagsAreKept
<1>1. TagsInit => TagsInv
  BY TagsStart
<1>2. TagsInv /\ [TagsNext]_tagging => TagsInv'
  BY TagsStep
<1>3. TagsInv => TagsAreKept
  BY DEF TagsInv
<1> QED BY <1>1, <1>2, <1>3, PTL DEF TagsSpec

-----------------------------------------------------------------------------
(* Retrieval.  What each search found is over its floor; what the reranker  *)
(* named was offered to it.                                                 *)
FoundBy(list, half) ==
  /\ list \in Seq(Chunks) /\ \A i, j \in DOMAIN list : list[i] = list[j] => i = j
  /\ \A i \in DOMAIN list : scores[list[i]][half] > 0
Least(m, n) == IF m < n THEN m ELSE n

RetrievalTyped ==
  /\ chunks \subseteq Chunks /\ on \subseteq {"a", "b"}
  /\ scores \in [Chunks -> [dense : Levels, keyword : Levels]]
RetrievalInv ==
  /\ RetrievalTyped
  /\ dense = NotYet \/ FoundBy(dense, "dense")
  /\ keyword = NotYet \/ FoundBy(keyword, "keyword")
  /\ promoted # NotYet => Searched /\ promoted \in Seq(ToSet(Survivors))
  /\ result # NotYet =>
       /\ promoted # NotYet
       /\ result \in Seq(ToSet(Survivors)) /\ Len(result) >= Least(Len(Survivors), Limit)

LEMMA ThreeChunks ==
  /\ IsFiniteSet(Chunks) /\ Chunks \subseteq Nat
  /\ NotYet \notin Seq(Chunks)
  /\ \A S \in SUBSET Chunks : IsFiniteSet(S)
<1>1. IsFiniteSet(Chunks)
  <2>1. \A m \in Nat : IsFiniteSet(1 .. m)
    BY FS_Interval
  <2> QED BY <2>1 DEF Chunks
<1>2. NotYet \notin Seq(Chunks)
  <2> SUFFICES ASSUME NotYet \in Seq(Chunks) PROVE FALSE
    OBVIOUS
  <2>1. NotYet[1] \in Chunks /\ NotYet[1] = 0
    BY ElementOfSeq DEF NotYet
  <2> QED BY <2>1 DEF Chunks
<1>3. \A S \in SUBSET Chunks : IsFiniteSet(S)
  BY <1>1, FS_Subset
<1> QED BY <1>1, <1>2, <1>3 DEF Chunks

(* A search lists what it found, each chunk once.                           *)
LEMMA RankedIsFound ==
  ASSUME RetrievalTyped, NEW half \in {"dense", "keyword"}
  PROVE  FoundBy(Ranked(Findable, half), half)
<1> DEFINE score(k) == scores[k][half]
           over == {k \in Findable : score(k) > 0}
           list == Ranked(Findable, half)
<1>1. \A k \in Chunks : score(k) \in Nat
  <2>1. CASE half = "dense"
    BY <2>1, RetrievalAssumption DEF RetrievalTyped
  <2>2. CASE half = "keyword"
    BY <2>2, RetrievalAssumption DEF RetrievalTyped
  <2> QED BY <2>1, <2>2
<1>2. over \subseteq Chunks
  BY DEF RetrievalTyped, Findable
<1>3. \A j, k \in Chunks : <<j, k>> \in ScoreOrder(half) <=> score(j) > score(k) \/ (score(j) = score(k) /\ j < k)
  BY DEF ScoreOrder
<1> HIDE DEF score
<1>4. Orders(ScoreOrder(half), over)
  <2>1. \A k \in over : k \in Nat /\ k \in Chunks /\ score(k) \in Nat
    BY <1>1, <1>2, ThreeChunks
  <2> HIDE DEF over
  <2> QED BY <1>3, <2>1 DEF Orders
<1>5. IsFiniteSet(over)
  BY <1>2, ThreeChunks
<1>6. list = InOrder(over, ScoreOrder(half))
  BY DEF Ranked, score
<1> HIDE DEF list
<1>7. /\ list \in Seq(over) /\ Len(list) = Cardinality(over)
      /\ \A i, j \in 1 .. Cardinality(over) : list[i] = list[j] => i = j
  BY <1>4, <1>5, <1>6, InOrderIsAll
<1> HIDE DEF over
<1>8. DOMAIN list = 1 .. Cardinality(over) /\ \A i \in DOMAIN list : list[i] \in over
  BY <1>7, LenProperties, ElementOfSeq
<1>9. list \in Seq(Chunks)
  BY <1>2, <1>7, SeqMonotonic
<1> QED BY <1>7, <1>8, <1>9 DEF FoundBy, list, score, over

LEMMA Quotient ==
  ASSUME NEW m \in Nat, NEW d \in Nat, d > 0
  PROVE  m \div d \in Nat
OBVIOUS

LEMMA ContributionsAreNumbers ==
  ASSUME NEW list \in Seq(Chunks), NEW k
  PROVE  Contribution(list, k, 5) \in Nat /\ Contribution(list, k, 4) \in Nat
<1> DEFINE at == CHOOSE i \in DOMAIN list : list[i] = k
           part1 == Scale \div (60 + at)
<1>1. CASE k \in ToSet(list)
  <2>1. at \in DOMAIN list
    BY <1>1 DEF ToSet
  <2>2. at \in Nat
    BY <2>1, LenProperties
  <2> HIDE DEF at
  <2>3. Scale \in Nat /\ 60 + at \in Nat /\ 60 + at > 0
    BY <2>2 DEF Scale
  <2>4. part1 \in Nat
    BY <2>3, Quotient
  <2>5. Contribution(list, k, 5) = 5 * part1 /\ Contribution(list, k, 4) = 4 * part1
    BY <1>1 DEF Contribution, at
  <2> HIDE DEF part1
  <2> QED BY <2>4, <2>5
<1>2. CASE k \notin ToSet(list)
  BY <1>2 DEF Contribution
<1> QED BY <1>1, <1>2

(* The survivors are what either search found, each once.                   *)
LEMMA SurvivorsAreFound ==
  ASSUME dense \in Seq(Chunks), keyword \in Seq(Chunks)
  PROVE  /\ Survivors \in Seq(Chunks) /\ ToSet(Survivors) = ToSet(dense) \cup ToSet(keyword)
         /\ \A i, j \in DOMAIN Survivors : Survivors[i] = Survivors[j] => i = j
<1> DEFINE all == ToSet(dense) \cup ToSet(keyword)
<1>1. all \subseteq Chunks
  <2>1. \A i \in DOMAIN dense : dense[i] \in Chunks
    BY LenProperties, ElementOfSeq
  <2>2. \A i \in DOMAIN keyword : keyword[i] \in Chunks
    BY LenProperties, ElementOfSeq
  <2> QED BY <2>1, <2>2 DEF ToSet
<1>2. \A k \in Chunks : Fused(k) \in Nat
  BY ContributionsAreNumbers DEF Fused
<1>3. \A j, k \in Chunks : <<j, k>> \in FusedOrder <=> Fused(j) > Fused(k) \/ (Fused(j) = Fused(k) /\ j < k)
  BY DEF FusedOrder
<1> HIDE DEF all
<1>4. Orders(FusedOrder, all)
  <2>1. \A k \in all : k \in Nat /\ k \in Chunks /\ Fused(k) \in Nat
    BY <1>1, <1>2, ThreeChunks
  <2> QED BY <1>3, <2>1 DEF Orders
<1>5. IsFiniteSet(all)
  BY <1>1, ThreeChunks
<1>6. Survivors = InOrder(all, FusedOrder)
  BY DEF Survivors, all
<1>7. /\ Survivors \in Seq(all) /\ Len(Survivors) = Cardinality(all)
      /\ \A x \in all : \E j \in 1 .. Cardinality(all) : Survivors[j] = x
      /\ \A i, j \in 1 .. Cardinality(all) : Survivors[i] = Survivors[j] => i = j
  BY <1>4, <1>5, <1>6, InOrderIsAll
<1>8. DOMAIN Survivors = 1 .. Cardinality(all) /\ \A i \in DOMAIN Survivors : Survivors[i] \in all
  BY <1>7, LenProperties, ElementOfSeq
<1>9. ToSet(Survivors) = all
  BY <1>7, <1>8 DEF ToSet
<1>10. Survivors \in Seq(Chunks)
  BY <1>1, <1>7, SeqMonotonic
<1> QED BY <1>7, <1>8, <1>9, <1>10 DEF all

(* Behind what a reranker named comes everything it did not name.           *)
LEMMA NothingIsDropped ==
  ASSUME NEW T, NEW s \in Seq(T), \A i, j \in DOMAIN s : s[i] = s[j] => i = j,
         NEW items \in Seq(T)
  PROVE  Behind(items, s) \in Seq(T) /\ Len(Behind(items, s)) >= Len(s)
         /\ Len(Behind(items, s)) \in Nat /\ Len(s) \in Nat
<1> DEFINE left == {i \in DOMAIN s : s[i] \notin ToSet(items)}
           gone == {i \in DOMAIN s : s[i] \in ToSet(items)}
           tail == Kept(s, left)
<1>1. /\ DOMAIN s = 1 .. Len(s) /\ Len(s) \in Nat
      /\ DOMAIN items = 1 .. Len(items) /\ Len(items) \in Nat
  BY LenProperties
<1>2. \A m \in Nat : IsFiniteSet(1 .. m) /\ Cardinality(1 .. m) = m
  BY FS_Interval
<1>3. IsFiniteSet(left) /\ IsFiniteSet(gone)
  BY <1>1, <1>2, FS_Subset
<1>4. Cardinality(left) \in Nat /\ Cardinality(gone) \in Nat
  BY <1>3, FS_CardinalityType
<1>5. Len(s) = Cardinality(left) + Cardinality(gone)
  <2>1. left \cup gone = DOMAIN s /\ left \cap gone = {}
    OBVIOUS
  <2>2. Cardinality(left \cup gone) = Cardinality(left) + Cardinality(gone) - Cardinality(left \cap gone)
    BY <1>3, FS_Union
  <2>3. Cardinality(DOMAIN s) = Len(s) /\ Cardinality({}) = 0
    BY <1>1, <1>2, FS_EmptySet
  <2> HIDE DEF left, gone
  <2>4. Len(s) = Cardinality(left) + Cardinality(gone) - 0
    BY <2>1, <2>2, <2>3
  <2> QED BY <2>4, <1>4
<1>6. Cardinality(gone) <= Len(items)
  <2> DEFINE place == [i \in gone |-> CHOOSE k \in DOMAIN items : items[k] = s[i]]
  <2>1. \A i \in gone : place[i] \in DOMAIN items /\ items[place[i]] = s[i]
    BY DEF ToSet
  <2>2. place \in [gone -> DOMAIN items]
    BY <2>1
  <2>3. \A i, j \in gone : place[i] = place[j] => i = j
    BY <2>1
  <2> HIDE DEF place
  <2>4. place \in Injection(gone, DOMAIN items)
    BY <2>2, <2>3, Fun_IsInj
  <2>5. IsFiniteSet(DOMAIN items) /\ Cardinality(DOMAIN items) = Len(items)
    BY <1>1, <1>2
  <2> QED BY <2>4, <2>5, FS_Injection
<1>7. left \in SUBSET (DOMAIN s)
  OBVIOUS
<1>8. tail \in Seq(T) /\ Len(tail) = Cardinality(left)
  BY <1>7, KeptIsWhatIsKept
<1>9. Behind(items, s) = items \o tail
  BY DEF Behind
<1> HIDE DEF tail, left, gone
<1>10. items \o tail \in Seq(T) /\ Len(items \o tail) = Len(items) + Len(tail)
  BY <1>8, ConcatProperties
<1> QED BY <1>1, <1>4, <1>5, <1>6, <1>8, <1>9, <1>10

-----------------------------------------------------------------------------
LEMMA BothFound ==
  ASSUME RetrievalInv, Searched
  PROVE  FoundBy(dense, "dense") /\ FoundBy(keyword, "keyword")
         /\ dense \in Seq(Chunks) /\ keyword \in Seq(Chunks)
BY DEF RetrievalInv, Searched, FoundBy

LEMMA SurvivorsStay ==
  ASSUME UNCHANGED <<dense, keyword>>
  PROVE  Survivors' = Survivors /\ Searched' = Searched
BY DEF Survivors, FusedOrder, Fused, Contribution, Searched

LEMMA ReturningKeeps ==
  ASSUME RetrievalInv, Return
  PROVE  RetrievalInv'
<1> DEFINE ordered == IF promoted = << >> THEN Survivors ELSE Behind(promoted, Survivors)
           n == IF Len(ordered) < Limit THEN Len(ordered) ELSE Limit
           all == ToSet(Survivors)
<1>1. /\ promoted # NotYet /\ result' = SubSeq(ordered, 1, n)
      /\ UNCHANGED <<chunks, on, scores, dense, keyword, promoted, edits>>
  BY DEF Return
<1>2. Searched /\ promoted \in Seq(all)
  BY <1>1 DEF RetrievalInv
<1>3. /\ Survivors \in Seq(Chunks)
      /\ \A i, j \in DOMAIN Survivors : Survivors[i] = Survivors[j] => i = j
  BY <1>2, BothFound, SurvivorsAreFound
<1>4. DOMAIN Survivors = 1 .. Len(Survivors) /\ Len(Survivors) \in Nat
      /\ Survivors \in [1 .. Len(Survivors) -> Chunks]
  BY <1>3, LenProperties
<1>5. Survivors \in Seq(all)
  <2>1. \A i \in 1 .. Len(Survivors) : Survivors[i] \in all
    BY <1>4 DEF ToSet
  <2> HIDE DEF all
  <2>2. Survivors \in [1 .. Len(Survivors) -> all]
    BY <2>1, <1>4
  <2> QED BY <2>2, <1>4, SeqDef
<1> HIDE DEF all
<1>6. ordered \in Seq(all) /\ Len(ordered) >= Len(Survivors) /\ Len(ordered) \in Nat
  <2>1. CASE promoted = << >>
    BY <2>1, <1>4, <1>5
  <2>2. CASE promoted # << >>
    BY <2>2, <1>2, <1>3, <1>5, NothingIsDropped
  <2> QED BY <2>1, <2>2
<1> HIDE DEF ordered
<1>7. Limit \in Nat /\ n \in Nat /\ n <= Len(ordered) /\ n >= Least(Len(Survivors), Limit)
  BY <1>4, <1>6, RetrievalAssumption DEF Least
<1> HIDE DEF n
<1>8. \A i \in 1 .. n : ordered[i] \in all
  BY <1>6, <1>7, ElementOfSeq
<1>9. result' \in Seq(all) /\ Len(result') = n
  BY <1>1, <1>7, <1>8, SubSeqProperties
<1>10. Survivors' = Survivors /\ Searched' = Searched
  BY <1>1, SurvivorsStay
<1>11. RetrievalTyped' /\ (dense = NotYet \/ FoundBy(dense, "dense"))'
       /\ (keyword = NotYet \/ FoundBy(keyword, "keyword"))'
  BY <1>1 DEF RetrievalInv, RetrievalTyped, FoundBy
<1>12. Len(result') >= Least(Len(Survivors), Limit)
  BY <1>7, <1>9
<1> QED BY <1>1, <1>2, <1>9, <1>10, <1>11, <1>12 DEF RetrievalInv, all

LEMMA RerankingKeeps ==
  ASSUME RetrievalInv, Rerank
  PROVE  RetrievalInv'
<1> DEFINE all == ToSet(Survivors)
<1>1. /\ Searched /\ promoted = NotYet
      /\ promoted' \in {<< >>} \cup UNION {[1 .. n -> all] : n \in 1 .. Len(Survivors)}
      /\ UNCHANGED <<chunks, on, scores, dense, keyword, result, edits>>
  BY DEF Rerank
<1>2. Survivors \in Seq(Chunks)
  BY <1>1, BothFound, SurvivorsAreFound
<1> HIDE DEF all
<1>3. promoted' \in Seq(all)
  <2>1. CASE promoted' = << >>
    BY <2>1, EmptySeq
  <2>2. CASE promoted' # << >>
    <3>1. Len(Survivors) \in Nat
      BY <1>2, LenProperties
    <3>2. PICK n \in 1 .. Len(Survivors) : promoted' \in [1 .. n -> all]
      BY <1>1, <2>2
    <3> QED BY <3>1, <3>2, SeqDef
  <2> QED BY <2>1, <2>2
<1>4. Survivors' = Survivors /\ Searched' = Searched
  BY <1>1, SurvivorsStay
<1>5. RetrievalTyped' /\ (dense = NotYet \/ FoundBy(dense, "dense"))'
      /\ (keyword = NotYet \/ FoundBy(keyword, "keyword"))'
  BY <1>1 DEF RetrievalInv, RetrievalTyped, FoundBy
<1>6. result' = NotYet
  BY <1>1 DEF RetrievalInv
<1> QED BY <1>1, <1>3, <1>4, <1>5, <1>6 DEF RetrievalInv, all, Searched

LEMMA SearchingKeeps ==
  ASSUME RetrievalInv, SearchDense \/ SearchKeyword
  PROVE  RetrievalInv'
<1>1. UNCHANGED <<chunks, on, scores, promoted, result, edits>>
  BY DEF SearchDense, SearchKeyword
<1>2. ~Searched /\ promoted = NotYet /\ result = NotYet
  BY DEF SearchDense, SearchKeyword, Searched, RetrievalInv
<1>3. FoundBy(Ranked(Findable, "dense"), "dense") /\ FoundBy(Ranked(Findable, "keyword"), "keyword")
  BY RankedIsFound DEF RetrievalInv
<1>4. FoundBy(<< >>, "dense")
  BY EmptySeq DEF FoundBy
<1>5. dense' = dense \/ FoundBy(dense', "dense")
  BY <1>3, <1>4 DEF SearchDense, SearchKeyword
<1>6. keyword' = keyword \/ FoundBy(keyword', "keyword")
  BY <1>3 DEF SearchDense, SearchKeyword
<1> QED BY <1>1, <1>2, <1>5, <1>6 DEF RetrievalInv, RetrievalTyped, FoundBy

LEMMA EditingKeeps ==
  ASSUME RetrievalInv, WriteAnew \/ \E e \in {"a", "b"} : SwitchEntry(e)
  PROVE  RetrievalInv'
<1>1. UNCHANGED <<scores, dense, keyword, promoted, result>>
  BY DEF WriteAnew, SwitchEntry
<1>2. chunks' \subseteq Chunks /\ on' \subseteq {"a", "b"}
  <2>1. chunks \subseteq Chunks /\ on \subseteq {"a", "b"} /\ 3 \in Chunks
    BY DEF RetrievalInv, RetrievalTyped, Chunks
  <2>2. CASE WriteAnew
    BY <2>1, <2>2 DEF WriteAnew
  <2>3. CASE \E e \in {"a", "b"} : SwitchEntry(e)
    <3>1. PICK e \in {"a", "b"} : SwitchEntry(e)
      BY <2>3
    <3>2. chunks' = chunks /\ (on' = on \ {e} \/ on' = on \cup {e})
      BY <3>1 DEF SwitchEntry
    <3> QED BY <2>1, <3>2
  <2> QED BY <2>2, <2>3
<1>3. Survivors' = Survivors /\ Searched' = Searched
  BY <1>1, SurvivorsStay
<1> QED BY <1>1, <1>2, <1>3 DEF RetrievalInv, RetrievalTyped, FoundBy

LEMMA RetrievalStart == RetrievalInit => RetrievalInv
BY DEF RetrievalInit, RetrievalInv, RetrievalTyped, Chunks

LEMMA RetrievalStep == RetrievalInv /\ [RetrievalNext]_retrieving => RetrievalInv'
<1> SUFFICES ASSUME RetrievalInv, [RetrievalNext]_retrieving PROVE RetrievalInv'
  OBVIOUS
<1>1. CASE UNCHANGED retrieving
  <2>1. UNCHANGED <<chunks, on, scores, dense, keyword, promoted, result>>
    BY <1>1 DEF retrieving
  <2>2. Survivors' = Survivors /\ Searched' = Searched
    BY <2>1, SurvivorsStay
  <2> QED BY <2>1, <2>2 DEF RetrievalInv, RetrievalTyped, FoundBy
<1> QED BY <1>1, SearchingKeeps, RerankingKeeps, ReturningKeeps, EditingKeeps DEF RetrievalNext

LEMMA ListedAreChunks ==
  ASSUME RetrievalInv, promoted # NotYet
  PROVE  /\ ToSet(Survivors) \subseteq Chunks
         /\ \A k \in ToSet(Survivors) : scores[k].dense > 0 \/ scores[k].keyword > 0
<1>1. FoundBy(dense, "dense") /\ FoundBy(keyword, "keyword")
      /\ dense \in Seq(Chunks) /\ keyword \in Seq(Chunks)
  BY BothFound DEF RetrievalInv
<1>2. ToSet(Survivors) = ToSet(dense) \cup ToSet(keyword)
  BY <1>1, SurvivorsAreFound
<1>3. \A i \in DOMAIN dense : dense[i] \in Chunks /\ scores[dense[i]].dense > 0
  BY <1>1, LenProperties, ElementOfSeq DEF FoundBy
<1>4. \A i \in DOMAIN keyword : keyword[i] \in Chunks /\ scores[keyword[i]].keyword > 0
  BY <1>1, LenProperties, ElementOfSeq DEF FoundBy
<1> QED BY <1>2, <1>3, <1>4 DEF ToSet

LEMMA SeqIsOf ==
  ASSUME NEW T, NEW s \in Seq(T)
  PROVE  ToSet(s) \subseteq T
<1>1. \A i \in DOMAIN s : s[i] \in T
  BY LenProperties, ElementOfSeq
<1> QED BY <1>1 DEF ToSet

LEMMA RetrievalTypes == RetrievalInv => RetrievalTypeOK
<1> SUFFICES ASSUME RetrievalInv PROVE RetrievalTypeOK
  OBVIOUS
<1>1. dense # NotYet => ToSet(dense) \subseteq Chunks
  BY SeqIsOf DEF RetrievalInv, FoundBy
<1>2. keyword # NotYet => ToSet(keyword) \subseteq Chunks
  BY SeqIsOf DEF RetrievalInv, FoundBy
<1>3. promoted # NotYet => ToSet(promoted) \subseteq Chunks
  <2>1. promoted # NotYet => ToSet(promoted) \subseteq ToSet(Survivors)
    BY SeqIsOf DEF RetrievalInv
  <2> QED BY <2>1, ListedAreChunks
<1>4. result # NotYet => ToSet(result) \subseteq Chunks
  <2>1. result # NotYet => ToSet(result) \subseteq ToSet(Survivors) /\ promoted # NotYet
    BY SeqIsOf DEF RetrievalInv
  <2> QED BY <2>1, ListedAreChunks
<1> QED BY <1>1, <1>2, <1>3, <1>4 DEF RetrievalInv, RetrievalTyped, RetrievalTypeOK

LEMMA RetrievalLosesNothing == RetrievalInv => RerankingLosesNothing
<1> SUFFICES ASSUME RetrievalInv, result # NotYet
             PROVE  /\ Len(result) >= (IF Len(Survivors) < Limit THEN Len(Survivors) ELSE Limit)
                    /\ \A i \in DOMAIN result :
                         scores[result[i]].dense > 0 \/ scores[result[i]].keyword > 0
  BY DEF RerankingLosesNothing
<1>1. /\ promoted # NotYet /\ result \in Seq(ToSet(Survivors))
      /\ Len(result) >= Least(Len(Survivors), Limit)
  BY DEF RetrievalInv
<1>2. \A i \in DOMAIN result : result[i] \in ToSet(Survivors)
  BY <1>1, LenProperties, ElementOfSeq
<1> QED BY <1>1, <1>2, ListedAreChunks DEF Least

(* Whatever the reranker answers, in whatever order the searches run and    *)
(* whatever is edited meanwhile, for any limit and any scores: no less is   *)
(* returned than without it, and nothing below both floors.                 *)
THEOREM RerankingKeepsAll == RetrievalSpec => []RerankingLosesNothing
<1>1. RetrievalInit => RetrievalInv
  BY RetrievalStart
<1>2. RetrievalInv /\ [RetrievalNext]_retrieving => RetrievalInv'
  BY RetrievalStep
<1>3. RetrievalInv => RerankingLosesNothing
  BY RetrievalLosesNothing
<1> QED BY <1>1, <1>2, <1>3, PTL DEF RetrievalSpec

-----------------------------------------------------------------------------
(* The parts of one run.                                                    *)
(* What was written last moves to the front of the list, which stays one of *)
(* all of them.                                                             *)
LEMMA MovedToTheFront ==
  ASSUME NEW S, IsFiniteSet(S), NEW s \in SetToSeqs(S), NEW c \in S
  PROVE  <<c>> \o Kept(s, {k \in DOMAIN s : s[k] # c}) \in SetToSeqs(S)
<1> DEFINE n == Cardinality(S)
           places == {k \in DOMAIN s : s[k] # c}
           rest == Kept(s, places)
           new == <<c>> \o rest
<1>1. n \in Nat /\ s \in [1 .. n -> S] /\ \A i, j \in 1 .. n : s[i] = s[j] => i = j
  BY FS_CardinalityType DEF SetToSeqs
<1>2. IsFiniteSet(1 .. n) /\ Cardinality(1 .. n) = n
  <2>1. \A m \in Nat : IsFiniteSet(1 .. m) /\ Cardinality(1 .. m) = m
    BY FS_Interval
  <2> QED BY <1>1, <2>1
<1> HIDE DEF n
<1>3. s \in Injection(1 .. n, S)
  BY <1>1, Fun_IsInj
<1>4. s \in Surjection(1 .. n, S)
  BY <1>2, <1>3, FS_Injection DEF n
<1>5. PICK k \in 1 .. n : s[k] = c
  BY <1>4 DEF Surjection
<1>6. s \in Seq(S) /\ Len(s) = n /\ DOMAIN s = 1 .. n
  BY <1>1, SeqDef, LenProperties
<1>7. places = (1 .. n) \ {k}
  BY <1>1, <1>5, <1>6
<1>8. Cardinality(places) = n - 1
  BY <1>2, <1>5, <1>7, FS_RemoveElement
<1>9. places \in SUBSET (DOMAIN s) /\ \A i, j \in places : s[i] = s[j] => i = j
  BY <1>1, <1>6
<1>10. /\ rest \in Seq(S) /\ Len(rest) = n - 1
       /\ \A j \in DOMAIN rest : \E i \in places : rest[j] = s[i]
       /\ \A i, j \in DOMAIN rest : rest[i] = rest[j] => i = j
  BY <1>6, <1>8, <1>9, KeptIsWhatIsKept
<1>11. DOMAIN rest = 1 .. n - 1 /\ \A j \in 1 .. n - 1 : rest[j] # c
  <2>1. DOMAIN rest = 1 .. n - 1
    BY <1>10, LenProperties
  <2> QED BY <2>1, <1>10
<1> HIDE DEF places, rest
<1>12. <<c>> \in Seq(S) /\ Len(<<c>>) = 1
  OBVIOUS
<1>13. /\ new \in Seq(S) /\ Len(new) = 1 + (n - 1)
       /\ \A i \in 1 .. 1 + (n - 1) : new[i] = IF i <= 1 THEN <<c>>[i] ELSE rest[i - 1]
  BY <1>10, <1>12, ConcatProperties
<1> HIDE DEF new
<1>14. new \in [1 .. n -> S] /\ \A i \in 1 .. n : new[i] = IF i = 1 THEN c ELSE rest[i - 1]
  <2>1. 1 + (n - 1) = n
    BY <1>1
  <2> QED BY <2>1, <1>13, LenProperties
<1>15. \A i, j \in 1 .. n : i # j => new[i] # new[j]
  <2> SUFFICES ASSUME NEW i \in 1 .. n, NEW j \in 1 .. n, new[i] = new[j] PROVE i = j
    OBVIOUS
  <2>1. CASE i = 1
    BY <2>1, <1>1, <1>11, <1>14
  <2>2. CASE j = 1
    BY <2>2, <1>1, <1>11, <1>14
  <2>3. CASE i # 1 /\ j # 1
    <3>1. i - 1 \in 1 .. n - 1 /\ j - 1 \in 1 .. n - 1 /\ rest[i - 1] = rest[j - 1]
      BY <2>3, <1>1, <1>14
    <3>2. i - 1 = j - 1
      BY <3>1, <1>10, <1>11
    <3> QED BY <3>2, <1>1
  <2> QED BY <2>1, <2>2, <2>3
<1> QED BY <1>14, <1>15 DEF SetToSeqs, n, new, rest, places

(* Nothing is folded or purged more often than may be, and every            *)
(* conversation is in the order they were last written in.                  *)
RejoinCounts ==
  recent \in SetToSeqs(Splits) /\ rejoins \in 0 .. MaxRejoins /\ purges \in 0 .. MaxPurges

LEMMA RejoinCountsKept == RejoinInv /\ RejoinCounts /\ [RejoinNext]_rejoining => RejoinCounts'
<1> SUFFICES ASSUME RejoinInv, RejoinCounts, [RejoinNext]_rejoining PROVE RejoinCounts'
  OBVIOUS
<1>0. MaxRejoins \in Nat /\ MaxPurges \in Nat /\ IsFiniteSet(Splits)
  BY RejoinAssumption
<1>1. CASE UNCHANGED rejoining
  BY <1>1 DEF rejoining, RejoinCounts
<1>2. ASSUME NEW i \in Things, InsertThing(i) \/ \E c \in Splits : BeginThing(i, c)
      PROVE  RejoinCounts'
  <2>1. UNCHANGED <<recent, rejoins, purges>>
    BY <1>2 DEF InsertThing, BeginThing
  <2> QED BY <2>1 DEF RejoinCounts
<1>3. ASSUME NEW i \in Things, CommitThing(i) PROVE RejoinCounts'
  <2>1. UNCHANGED <<rejoins, purges>>
    BY <1>3 DEF CommitThing
  <2>2. hand[i].conv \in Splits
    BY DEF RejoinInv, RejoinTyped, HandRows
  <2> DEFINE front == <<hand[i].conv>> \o Kept(recent, {n \in DOMAIN recent : recent[n] # hand[i].conv})
  <2>3. front \in SetToSeqs(Splits)
    BY <1>0, <2>2, MovedToTheFront DEF RejoinCounts
  <2>4. recent' = recent \/ recent' = front
    BY <1>3 DEF CommitThing
  <2> HIDE DEF front
  <2> QED BY <2>1, <2>3, <2>4 DEF RejoinCounts
<1>4. ASSUME NEW c \in Splits, PurgeSplit(c) PROVE RejoinCounts'
  <2>1. purges < MaxPurges /\ purges' = purges + 1 /\ UNCHANGED <<recent, rejoins>>
    BY <1>4 DEF PurgeSplit
  <2> QED BY <2>1, <1>0 DEF RejoinCounts
<1>5. ASSUME FindSplits PROVE RejoinCounts'
  <2>1. rejoins < MaxRejoins /\ rejoins' = rejoins + 1 /\ UNCHANGED <<recent, purges>>
    BY <1>5 DEF FindSplits
  <2> QED BY <2>1, <1>0 DEF RejoinCounts
<1>6. ASSUME ReadSplits \/ Repoint \/ DeleteEmptied \/ ScriptDies PROVE RejoinCounts'
  <2>1. UNCHANGED <<recent, rejoins, purges>>
    BY <1>6 DEF ReadSplits, Repoint, DeleteEmptied, ScriptDies
  <2> QED BY <2>1 DEF RejoinCounts
<1> QED BY <1>1, <1>2, <1>3, <1>4, <1>5, <1>6 DEF RejoinNext

LEMMA RejoinCountsHold == RejoinSpec => []RejoinCounts
<1>1. RejoinInit => RejoinCounts
  BY RejoinAssumption DEF RejoinInit, RejoinCounts
<1> QED
  BY <1>1, RejoinCountsKept, RejoinInvHolds, PTL DEF RejoinSpec

LEMMA RejoinTypes == RejoinInv /\ RejoinCounts => RejoinTypeOK
BY DEF RejoinInv, RejoinTyped, RejoinCounts, RejoinTypeOK, HandRows, ScriptRows

LEMMA TagsInvHolds == TagsSpec => []TagsInv
BY TagsStart, TagsStep, PTL DEF TagsSpec

LEMMA RetrievalInvHolds == RetrievalSpec => []RetrievalInv
BY RetrievalStart, RetrievalStep, PTL DEF RetrievalSpec

(* THEOREM RecordsAreTheirOwn.                                              *)
(* The parts that one run checks side by side behave as each does alone, so *)
(* that what is proved of a part holds of the whole.                        *)
THEOREM RecordsAreTheirOwn ==
  Spec => /\ PeopleSpec /\ MemorySpec /\ FilesSpec /\ WidgetSpec /\ RetrievalSpec
          /\ ReviewSpec /\ DeskSpec /\ TagsSpec /\ RejoinSpec
<1>1. Init => /\ PeopleInit /\ MemoryInit /\ FilesInit /\ WidgetInit /\ RetrievalInit
              /\ ReviewInit /\ DeskInit /\ TagsInit /\ RejoinInit
  BY DEF Init
<1>2. [Next]_parts => /\ [PeopleNext]_records /\ [MemoryNext]_memory /\ [FilesNext]_files
                      /\ [WidgetNext]_widget /\ [RetrievalNext]_retrieving /\ [ReviewNext]_review
                      /\ [DeskNext]_composing /\ [TagsNext]_tagging /\ [RejoinNext]_rejoining
  BY DEF Next, parts
<1> QED
  BY <1>1, <1>2, PTL DEF Spec, PeopleSpec, MemorySpec, FilesSpec, WidgetSpec, RetrievalSpec,
                         ReviewSpec, DeskSpec, TagsSpec, RejoinSpec

(* THEOREM CustomersTypeCorrect.                                            *)
(* Every part keeps its types.                                              *)
THEOREM CustomersTypeCorrect == Spec => []CustomersTypeOK
<1>1. ASSUME PeopleTypeOK, MemoryTypeOK, FilesTypeOK, WidgetTypeOK, RetrievalTypeOK,
             ReviewTypeOK, DeskTypeOK, TagsTypeOK, RejoinTypeOK
      PROVE  CustomersTypeOK
  BY <1>1 DEF CustomersTypeOK
<1> QED
  BY <1>1, PeopleTypes, MemoryTypes, FilesTypes, WidgetTypes, RetrievalTypes, ReviewTypes,
     DeskTypes, TagsTypes, RejoinTypes, RecordsAreTheirOwn, PeopleInvHolds, MemoryInvHolds,
     FilesInvHolds, WidgetInvHolds, RetrievalInvHolds, ReviewInvHolds, DeskInvHolds,
     TagsInvHolds, RejoinInvHolds, RejoinCountsHold, PTL

(* THEOREM WhatIsPutIsKept.                                                 *)
(* What an agent types, what a conversation is tagged with and what hung    *)
(* off the conversations it was folded from stay, each at any size.         *)
THEOREM WhatIsPutIsKept == Spec => []WhatIsPutStays
<1>1. TypedIsKept /\ TagsAreKept /\ WhatItSawIsKept => WhatIsPutStays
  BY DEF WhatIsPutStays
<1> QED
  BY <1>1, RecordsAreTheirOwn, ReplyingLosesNoTyping, NoTagIsLost, WhatWasReadIsMoved, PTL
=============================================================================
