-------------------------------- MODULE Desk --------------------------------
(***************************************************************************)
(* Where an agent answers: the composer of a conversation's pane, the      *)
(* drafts kept while the page is open (Inbox.tsx), the suggestions beside  *)
(* it and the route a reply goes through (POST /:id/messages).  The pane   *)
(* is unmounted when the agent turns to another conversation and mounted   *)
(* anew when they return; a request in flight is answered to the pane that *)
(* made it, whether or not it is still there.                              *)
(*                                                                         *)
(* One agent and one conversation; a colleague sends and discards the same *)
(* suggestions.                                                            *)
(***************************************************************************)
EXTENDS Naturals, Sequences, FiniteSets, SequencesExt

CONSTANTS
  Texts,       \* what the agent types; a saved reply that expands is one of them
  Suggestions, \* suggestions the AI may write, also standing for their texts
  Picked,      \* files the agent picks
  None,
  MaxMounts,   \* bound: times the pane is opened
  MaxSent      \* bound: replies sent from here or by a colleague

ASSUME DeskAssumption ==
  /\ None \notin Texts \cup Suggestions \cup Picked /\ Texts \cap Suggestions = {}
  /\ MaxMounts \in Nat /\ MaxSent \in Nat

VARIABLES
  panes,     \* the mounts of the pane, the last of them the one on screen if it is open
  draftKept, \* drafts.get(conversationId)
  replies,   \* POST /:id/messages, in the order they were pressed
  inThread,  \* messages stored, each with a row of the outbox
  offered,   \* suggestions: status and the reply it is recorded to have become
  panel      \* the suggestion the panel shows

composing == <<panes, draftKept, replies, inThread, offered, panel>>

NoDraft == [text |-> None, from |-> None, file |-> None]
Mount == Len(panes)
OnScreen == Mount > 0 /\ panes[Mount].open
Pane == panes[Mount]

\* remember: nothing is kept of an empty composer.
Remembered(entry) == IF entry.text = None /\ entry.file = None THEN NoDraft ELSE entry
Sending(m) == \E i \in DOMAIN replies : replies[i].mount = m /\ replies[i].at \in {"sent", "stored", "marked"}

DeskInit ==
  /\ panes = << >> /\ draftKept = NoDraft
  /\ replies = << >> /\ inThread = << >>
  /\ offered = [s \in Suggestions |-> [status |-> "none", message |-> 0]]
  /\ panel = None

-----------------------------------------------------------------------------
(* The pane and its composer.                                               *)

MountPane ==
  /\ ~OnScreen /\ Mount < MaxMounts
  /\ panes' = Append(panes, [open |-> TRUE, text |-> draftKept.text, from |-> draftKept.from,
                             file |-> draftKept.file, uploading |-> None,
                             typed |-> draftKept.text, picked |-> draftKept.file])
  /\ UNCHANGED <<draftKept, replies, inThread, offered, panel>>

\* A pane that is left matters for what is still on its way to it.
LeavePane ==
  /\ OnScreen
  /\ panes' = [panes EXCEPT ![Mount].open = FALSE, ![Mount].typed = None,
                            ![Mount].picked = None, ![Mount].from = None,
                            ![Mount].text = IF Sending(Mount) THEN @ ELSE None,
                            ![Mount].file = IF Sending(Mount) THEN @ ELSE None]
  /\ UNCHANGED <<draftKept, replies, inThread, offered, panel>>

\* Emptying the box forgets which suggestion was in it, here and not in what is kept.
Type(x) ==
  /\ OnScreen /\ x # Pane.text
  /\ panes' = [panes EXCEPT ![Mount].text = x, ![Mount].typed = x,
                            ![Mount].from = IF x = None THEN None ELSE @]
  /\ draftKept' = Remembered([draftKept EXCEPT !.text = x])
  /\ UNCHANGED <<replies, inThread, offered, panel>>

Insert ==
  /\ OnScreen /\ panel # None
  /\ panes' = [panes EXCEPT ![Mount].text = panel, ![Mount].typed = panel,
                            ![Mount].from = panel]
  /\ draftKept' = [draftKept EXCEPT !.text = panel, !.from = panel]
  /\ UNCHANGED <<replies, inThread, offered, panel>>

PickFile(f) ==
  /\ OnScreen /\ Pane.uploading = None /\ ~Sending(Mount)
  /\ \A m \in DOMAIN panes : f \notin {panes[m].file, panes[m].uploading, panes[m].picked}
  /\ panes' = [panes EXCEPT ![Mount].uploading = f]
  /\ UNCHANGED <<draftKept, replies, inThread, offered, panel>>

\* The upload is answered, to a pane that may be gone.
Uploaded(m) ==
  /\ panes[m].uploading # None
  /\ panes' = [panes EXCEPT ![m].uploading = None, ![m].file = panes[m].uploading,
                            ![m].picked = panes[m].uploading]
  /\ draftKept' = [draftKept EXCEPT !.file = panes[m].uploading]
  /\ UNCHANGED <<replies, inThread, offered, panel>>

UploadFails(m) ==
  /\ panes[m].uploading # None
  /\ panes' = [panes EXCEPT ![m].uploading = None]
  /\ UNCHANGED <<draftKept, replies, inThread, offered, panel>>

RemoveFile ==
  /\ OnScreen /\ Pane.file # None
  /\ panes' = [panes EXCEPT ![Mount].file = None, ![Mount].picked = None]
  /\ draftKept' = Remembered([draftKept EXCEPT !.file = None])
  /\ UNCHANGED <<replies, inThread, offered, panel>>

\* Send, Enter, and a suggestion's "insert and send": not while one is on its way.
SubmitReply(text, from) ==
  /\ OnScreen /\ ~Sending(Mount) /\ Pane.uploading = None /\ Len(replies) < MaxSent
  /\ text # None \/ Pane.file # None
  /\ replies' = Append(replies, [mount |-> Mount, text |-> text, from |-> from,
                                 file |-> Pane.file, at |-> "sent"])
  /\ UNCHANGED <<panes, draftKept, inThread, offered, panel>>

Send == SubmitReply(Pane.text, Pane.from)
InsertAndSend == panel # None /\ SubmitReply(panel, panel)

-----------------------------------------------------------------------------
(* The route.                                                               *)

ReachApi(i, s) == replies' = [replies EXCEPT ![i].at = s]

\* The message and its delivery, as one commit; then the conversation is the agent's.
StoreReply(i) ==
  /\ replies[i].at = "sent"
  /\ inThread' = Append(inThread, [text |-> replies[i].text, file |-> replies[i].file])
  /\ replies' = [replies EXCEPT ![i].at = "stored"]
  /\ UNCHANGED <<panes, draftKept, offered, panel>>

\* markSuggestionSent, whatever became of the suggestion since.
MarkSuggestionSent(i) ==
  /\ replies[i].at = "stored"
  /\ offered' = IF replies[i].from = None THEN offered
                ELSE [offered EXCEPT ![replies[i].from] = [status |-> "sent", message |-> i]]
  /\ ReachApi(i, IF replies[i].mount = 0 THEN "over" ELSE "marked")
  /\ UNCHANGED <<panes, draftKept, inThread, panel>>

\* Refused, not arrived, or done up to a point and not answered: the composer keeps it all.
FailReply(i) ==
  /\ replies[i].mount > 0 /\ replies[i].at \in {"sent", "stored", "marked"}
  /\ ReachApi(i, "over")
  /\ UNCHANGED <<panes, draftKept, inThread, offered, panel>>

(* A slip: the composer is emptied whatever is in it by now. *)
EmptiedAnyway(text, sent) == None

\* Only what was sent is cleared.
Emptied(text, sent) == IF text = sent THEN None ELSE text

\* onSuccess, on a pane that is there.
HearReply(i) ==
  LET r == replies[i]
      p == panes[r.mount]
      text == Emptied(p.text, r.text)
      sentFile == r.file # None /\ p.file = r.file
  IN /\ r.mount > 0 /\ r.at = "marked" /\ p.open
     /\ panes' = [panes EXCEPT ![r.mount].text = text, ![r.mount].from = None,
                               ![r.mount].file = IF sentFile THEN None ELSE @]
     /\ draftKept' = Remembered([draftKept EXCEPT !.text = text, !.file = IF sentFile THEN None ELSE @])
     /\ ReachApi(i, "over")
     /\ UNCHANGED <<inThread, offered, panel>>

\* ... and on one that is gone: what it last held is put in order and kept, over whatever the
\* agent has written since, when the updater runs at once; React need not run it.
HearReplyGone(i) ==
  LET r == replies[i]
      p == panes[r.mount]
      sentFile == r.file # None /\ p.file = r.file
  IN /\ r.mount > 0 /\ r.at = "marked" /\ ~p.open
     /\ \E runs \in BOOLEAN :
          draftKept' = Remembered([draftKept EXCEPT
            !.text = IF runs THEN Emptied(p.text, r.text) ELSE @,
            !.file = IF sentFile THEN None ELSE @])
     /\ ReachApi(i, "over")
     /\ UNCHANGED <<panes, inThread, offered, panel>>

-----------------------------------------------------------------------------
(* Suggestions.                                                             *)

\* processSuggestion, or a turn whose answer is a draft.
SuggestReply(s) ==
  /\ offered[s].status = "none"
  /\ offered' = [offered EXCEPT ![s].status = "pending"]
  /\ UNCHANGED <<panes, draftKept, replies, inThread, panel>>

\* The detail is read again: a suggestion that is pending, if there is one.
RefreshPanel ==
  /\ OnScreen
  /\ LET pending == {s \in Suggestions : offered[s].status = "pending"}
     IN IF pending = {} THEN panel' = None ELSE panel' \in pending
  /\ UNCHANGED <<panes, draftKept, replies, inThread, offered>>

\* Pressed here, or by a colleague, on a panel that still shows it.
Discard(s) ==
  /\ offered[s].status # "none"
  /\ offered' = [offered EXCEPT ![s].status = "discarded"]
  /\ UNCHANGED <<panes, draftKept, replies, inThread, panel>>

\* A colleague inserts and sends it.
ColleagueSends(s) ==
  /\ offered[s].status # "none" /\ Len(replies) < MaxSent
  /\ replies' = Append(replies, [mount |-> 0, text |-> s, from |-> s,
                                 file |-> None, at |-> "sent"])
  /\ UNCHANGED <<panes, draftKept, inThread, offered, panel>>

-----------------------------------------------------------------------------
DeskNext ==
  \/ MountPane \/ LeavePane \/ Insert \/ RemoveFile \/ Send \/ InsertAndSend
  \/ \E x \in Texts \cup {None} : Type(x)
  \/ \E f \in Picked : PickFile(f)
  \/ \E m \in DOMAIN panes : Uploaded(m) \/ UploadFails(m)
  \/ \E i \in DOMAIN replies :
       \/ StoreReply(i) \/ MarkSuggestionSent(i) \/ FailReply(i)
       \/ HearReply(i) \/ HearReplyGone(i)
  \/ \E s \in Suggestions : SuggestReply(s) \/ Discard(s) \/ ColleagueSends(s)
  \/ RefreshPanel

DeskSpec == DeskInit /\ [][DeskNext]_composing

-----------------------------------------------------------------------------
(* What is promised.                                                        *)

DraftTexts == Texts \cup Suggestions \cup {None}

\* The type invariant of the panes, what is kept of them and the replies.
DeskTypeOK ==
  /\ \A m \in DOMAIN panes :
       /\ panes[m].open \in BOOLEAN /\ panes[m].text \in DraftTexts
       /\ panes[m].from \in Suggestions \cup {None} /\ panes[m].file \in Picked \cup {None}
  /\ draftKept.text \in DraftTexts /\ draftKept.file \in Picked \cup {None}
  /\ \A i \in DOMAIN replies :
       /\ replies[i].at \in {"sent", "stored", "marked", "over"} /\ replies[i].mount \in 0 .. Mount
  /\ \A s \in Suggestions : offered[s].message \in 0 .. Len(replies)
  /\ panel \in Suggestions \cup {None}

\* What the agent last put into the composer they look at, text or file, is there until they
\* change it or it is in the thread ("Clear only what was sent ... clearing unconditionally
\* threw away whatever was typed after pressing Send", Inbox.tsx).
TypedIsKept ==
  OnScreen =>
    /\ Pane.text = Pane.typed \/ \E k \in DOMAIN inThread : inThread[k].text = Pane.typed
    /\ Pane.file = Pane.picked \/ \E k \in DOMAIN inThread : inThread[k].file = Pane.picked

\* What is kept of a pane is what is on the screen ("What an agent was writing, per conversation,
\* for as long as the page is open", Inbox.tsx), and with it the suggestion a reply will be
\* recorded as.  The answer to a reply pressed in a pane that was left empties what was written
\* in the next, and a suggestion emptied out of the box is kept: it is credited with whatever is
\* sent when the agent is back.
DraftsAreKept ==
  OnScreen => /\ draftKept.text = Pane.text /\ draftKept.file = Pane.file
              /\ Pane.text # None => draftKept.from = Pane.from

\* A file goes out with one message.  It goes twice when the answer was lost, or when the pane
\* was left and opened while the reply was on its way.
FilesGoOnce ==
  \A j, k \in DOMAIN inThread : inThread[j].file = inThread[k].file /\ j # k => inThread[j].file = None

\* A suggestion that was sent stays the one that was ("Record that a draft became a real
\* message", repo.ts).  A discard, or a colleague who sends it as well, comes after.
SentStaysSent ==
  [][\A s \in Suggestions : offered[s].status = "sent" => offered'[s] = offered[s]]_composing

=============================================================================
