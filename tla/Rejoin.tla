-------------------------------- MODULE Rejoin --------------------------------
(***************************************************************************)
(* Folding a person's split conversations on one channel back into one     *)
(* (mergeConversations, run by merge-conversations.ts over what            *)
(* findAllSplitConversations reports) while the customer, the AI and       *)
(* colleagues go on writing to them.                                       *)
(*                                                                         *)
(* READ COMMITTED: each repointing statement moves what was committed when *)
(* it ran; whoever inserts a row that names a conversation holds it until  *)
(* the insert commits, and the delete waits for them.  What still names an *)
(* emptied conversation goes with it (ON DELETE CASCADE).                  *)
(***************************************************************************)
EXTENDS Naturals, Sequences, FiniteSets, SequencesExt, Listing

CONSTANTS
  Splits,     \* the conversations of one identity
  Things,     \* what is written in them
  TableOf,    \* the table each is a row of
  Repointed,  \* the tables that hang off a conversation, in the order they are moved
  MaxRejoins, \* bound: times the script is run
  MaxPurges   \* bound: conversations that grow older than is kept

ASSUME RejoinAssumption ==
  /\ Splits # {} /\ IsFiniteSet(Splits) /\ Splits \cap {"unwritten", "purged", "lost"} = {}
  /\ MaxRejoins \in Nat /\ MaxPurges \in Nat /\ Repointed \in Seq(STRING)
  /\ TableOf \in [Things -> {Repointed[n] : n \in DOMAIN Repointed}]

VARIABLES
  remaining, \* conversations with a row
  recent,   \* all of them, by their last message, the newest first
  lies,     \* the conversation each thing is stored in, or what became of it
  hand,     \* whoever writes each thing: where they are, and in which conversation
  script,   \* the run of the script
  rejoins,  \* runs begun
  purges    \* conversations purged

rejoining == <<remaining, recent, lies, hand, script, rejoins, purges>>

Nowhere == {"unwritten", "purged", "lost"}
AtRest == [at |-> "idle", conv |-> CHOOSE c \in Splits : TRUE]
NoScript == [at |-> "idle", survivor |-> CHOOSE c \in Splits : TRUE, absorbed |-> {},
             next |-> 1, moved |-> {}, saw |-> {}]

RejoinInit ==
  /\ remaining = Splits
  /\ recent \in SetToSeqs(Splits)
  /\ lies = [i \in Things |-> "unwritten"] /\ hand = [i \in Things |-> AtRest]
  /\ script = NoScript /\ rejoins = 0 /\ purges = 0

\* The conversation an inbound message reopens: the one written in last.
Reopened(c) ==
  \E n \in DOMAIN recent : recent[n] = c /\ \A m \in 1 .. n - 1 : recent[m] \notin remaining
Within(convs) == {i \in Things : lies[i] \in convs}

-----------------------------------------------------------------------------
(* Whoever writes meanwhile.                                                *)

\* An inbound job takes the newest conversation, a turn or a job the one it was queued for,
\* a colleague any.
BeginThing(i, c) ==
  /\ lies[i] = "unwritten" /\ hand[i].at = "idle"
  /\ c \in remaining
  /\ hand' = [hand EXCEPT ![i] = [at |-> "begun", conv |-> c]]
  /\ UNCHANGED <<remaining, recent, lies, script, rejoins, purges>>

\* The insert is refused when its conversation is gone; the job is tried again.
InsertThing(i) ==
  /\ hand[i].at = "begun"
  /\ hand' = [hand EXCEPT ![i] = IF @.conv \in remaining THEN [@ EXCEPT !.at = "inserted"]
                                 ELSE AtRest]
  /\ UNCHANGED <<remaining, recent, lies, script, rejoins, purges>>

\* What was written is stored; a message makes its conversation the newest.
CommitThing(i) ==
  /\ hand[i].at = "inserted"
  /\ lies' = [lies EXCEPT ![i] = hand[i].conv]
  /\ recent' = IF TableOf[i] # Repointed[1] THEN recent
               ELSE <<hand[i].conv>> \o Kept(recent, {n \in DOMAIN recent : recent[n] # hand[i].conv})
  /\ hand' = [hand EXCEPT ![i] = AtRest]
  /\ UNCHANGED <<remaining, script, rejoins, purges>>

\* Retention deletes a conversation with all it holds, once nobody holds it or its rows.
PurgeSplit(c) ==
  /\ purges < MaxPurges /\ c \in remaining
  /\ \A i \in Things : ~(hand[i].at = "inserted" /\ hand[i].conv = c)
  /\ \A i \in script.moved : c \notin {lies[i], script.survivor}
  /\ purges' = purges + 1
  /\ remaining' = remaining \ {c}
  /\ lies' = [i \in Things |-> IF lies[i] = c THEN "purged" ELSE lies[i]]
  /\ UNCHANGED <<recent, hand, script, rejoins>>

-----------------------------------------------------------------------------
(* The script.                                                              *)

\* findSplitConversations: the survivor is the most recently active, because the next
\* message reopens it.
FindSplits ==
  /\ script.at = "idle" /\ rejoins < MaxRejoins
  /\ \E c, d \in remaining : c # d
  /\ rejoins' = rejoins + 1
  /\ \E c \in remaining :
       /\ Reopened(c)
       /\ script' = [NoScript EXCEPT !.at = "found", !.survivor = c, !.absorbed = remaining \ {c}]
  /\ UNCHANGED <<remaining, recent, lies, hand, purges>>

\* mergeConversations reads them again, before its transaction, and goes on only when all
\* of them are there.
ReadSplits ==
  /\ script.at = "found"
  /\ script' = IF {script.survivor} \cup script.absorbed \subseteq remaining
               THEN [script EXCEPT !.at = "moving", !.saw = Within(script.absorbed)]
               ELSE NoScript
  /\ UNCHANGED <<remaining, recent, lies, hand, rejoins, purges>>

\* One table after another is pointed at the survivor, which fails when that is gone.
Repoint ==
  /\ script.at = "moving" /\ script.next <= Len(Repointed)
  /\ LET rows == {i \in Within(script.absorbed) : TableOf[i] = Repointed[script.next]}
     IN script' = IF rows # {} /\ script.survivor \notin remaining THEN NoScript
                  ELSE [script EXCEPT !.next = @ + 1, !.moved = @ \cup rows]
  /\ UNCHANGED <<remaining, recent, lies, hand, rejoins, purges>>

(* A slip: the emptied rows are deleted before the last table has moved.    *)
AllButOneMoved == script.next >= Len(Repointed)

AllMoved == script.next > Len(Repointed)

\* Last the emptied conversations are deleted, once nobody is writing to them, and all of
\* it commits.
DeleteEmptied ==
  /\ script.at = "moving" /\ AllMoved
  /\ \A i \in Things : hand[i].at = "inserted" => hand[i].conv \notin script.absorbed
  /\ remaining' = remaining \ script.absorbed
  /\ lies' = [i \in Things |-> IF i \in script.moved THEN script.survivor
                               ELSE IF lies[i] \in script.absorbed THEN "lost" ELSE lies[i]]
  /\ script' = [NoScript EXCEPT !.saw = script.saw]
  /\ UNCHANGED <<recent, hand, rejoins, purges>>

\* The script dies, or its transaction is rolled back.
ScriptDies ==
  /\ script.at # "idle"
  /\ script' = NoScript
  /\ UNCHANGED <<remaining, recent, lies, hand, rejoins, purges>>

RejoinNext ==
  \/ \E i \in Things : InsertThing(i) \/ CommitThing(i)
  \/ \E c \in Splits : PurgeSplit(c) \/ \E i \in Things : BeginThing(i, c)
  \/ FindSplits \/ ReadSplits \/ Repoint \/ DeleteEmptied \/ ScriptDies

RejoinSpec == RejoinInit /\ [][RejoinNext]_rejoining

-----------------------------------------------------------------------------
(* Every variable holds what its table or the script can hold.              *)
RejoinTypeOK ==
  /\ remaining \subseteq Splits /\ recent \in SetToSeqs(Splits)
  /\ lies \in [Things -> Splits \cup Nowhere]
  /\ hand \in [Things -> [at : {"idle", "begun", "inserted"}, conv : Splits]]
  /\ script \in [at : {"idle", "found", "moving"}, survivor : Splits,
                 absorbed : SUBSET Splits, next : 1 .. Len(Repointed) + 1,
                 moved : SUBSET Things, saw : SUBSET Things]
  /\ rejoins \in 0 .. MaxRejoins /\ purges \in 0 .. MaxPurges

(* Whatever hung off the conversations when the script read them is in the  *)
(* one that is left, whatever is written, purged or rolled back meanwhile:  *)
(* every table moves before the delete, which cascades over all of them     *)
(* (merge.ts:490-500).                                                      *)
WhatItSawIsKept == \A i \in script.saw : lies[i] # "lost"

(* So is what was written to them while it ran.  The code does not promise  *)
(* this: a row stored in an absorbed conversation after its table was moved *)
(* goes with the delete (merge.ts:531-576).                                 *)
NothingIsLostToTheScript == \A i \in Things : lies[i] # "lost"
=============================================================================
