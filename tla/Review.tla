------------------------------- MODULE Review -------------------------------
(***************************************************************************)
(* The review queue and people's opinions of what the AI wrote.  A         *)
(* conversation the AI handled alone waits to be read (inReviewQueue); a   *)
(* person who marks it reviewed, or rates a reply, takes it out until the  *)
(* AI says more.  Times are the database's: a row's is that of the         *)
(* beginning of its transaction.  The thumbs under a reply                 *)
(* (FeedbackControls) send requests that need not arrive in the order they *)
(* were pressed.                                                           *)
(***************************************************************************)
EXTENDS Naturals, Sequences, FiniteSets, SequencesExt

CONSTANTS
  Replies,   \* replies the AI may write
  Rated,     \* the one of them with thumbs to press
  MaxPresses \* bound: requests of the agent

ASSUME ReviewAssumption == Rated \in Replies /\ MaxPresses \in Nat

VARIABLES
  clock,     \* the database's
  wrote,     \* messages of the AI: how far they are and when their transaction began
  spoken,    \* whether a person wrote in the conversation
  handed,    \* whether the AI handed it over, and nobody gave it back
  reviewed,  \* reviewedAt, or 0
  later,     \* replies begun after the last review
  shown,     \* replies that were to be seen when a review was recorded
  opinion,   \* the agent's row of feedback on the rated reply
  presses,   \* the agent's requests, in the order they were pressed
  thumbs     \* what the controls show: the row as last read, and the panel that asks for a reason

review == <<clock, wrote, spoken, handed, reviewed, later, shown, opinion, presses, thumbs>>

NoOpinion == [rating |-> "none", reason |-> FALSE]
Opinion(rating, reason) == [rating |-> rating, reason |-> rating = "down" /\ reason]
Stored == {r \in Replies : wrote[r].at = "stored"}

\* inReviewQueue: nobody spoke, nobody was fetched, and the AI said something since.
InReviewQueue ==
  /\ ~handed /\ ~spoken
  /\ \E r \in Stored : reviewed = 0 \/ wrote[r].created > reviewed

ReviewInit ==
  /\ clock = 1
  /\ wrote = [r \in Replies |-> [at |-> "none", created |-> 0]]
  /\ spoken = FALSE /\ handed = FALSE
  /\ reviewed = 0 /\ later = Replies /\ shown = {}
  /\ opinion = NoOpinion /\ presses = << >>
  /\ thumbs = [mine |-> NoOpinion, asking |-> FALSE]

-----------------------------------------------------------------------------
(* The conversation.                                                        *)

Conversing == UNCHANGED <<reviewed, shown, opinion, presses, thumbs>>

Free == \A r \in Replies : wrote[r].at # "storing"

\* The transaction that stores a reply begins; its row carries this moment.
BeginReply(r) ==
  /\ wrote[r].at = "none" /\ ~spoken /\ ~handed
  /\ wrote' = [wrote EXCEPT ![r] = [at |-> "begun", created |-> clock]]
  /\ clock' = clock + 1
  /\ Conversing /\ UNCHANGED <<spoken, handed, later>>

\* It locks the conversation before it stores anything.
LockConversation(r) ==
  /\ wrote[r].at = "begun" /\ Free
  /\ wrote' = [wrote EXCEPT ![r].at = "storing"]
  /\ Conversing /\ UNCHANGED <<clock, spoken, handed, later>>

CommitReply(r) ==
  /\ wrote[r].at = "storing"
  /\ wrote' = [wrote EXCEPT ![r].at = "stored"]
  /\ Conversing /\ UNCHANGED <<clock, spoken, handed, later>>

AbandonReply(r) ==
  /\ wrote[r].at \in {"begun", "storing"}
  /\ wrote' = [wrote EXCEPT ![r].at = "withdrawn"]
  /\ Conversing /\ UNCHANGED <<clock, spoken, handed, later>>

PersonWrites ==
  /\ ~spoken
  /\ spoken' = TRUE
  /\ Conversing /\ UNCHANGED <<clock, wrote, handed, later>>

\* A handoff, and the conversation given back, which clears its reason.
HandOver ==
  /\ handed' = ~handed
  /\ Conversing /\ UNCHANGED <<clock, wrote, spoken, later>>

-----------------------------------------------------------------------------
(* The agent.                                                               *)

Press(kind, o) ==
  /\ Len(presses) < MaxPresses
  /\ presses' = Append(presses, [kind |-> kind, opinion |-> o, at |-> "sent",
                                 time |-> 0, unbegun |-> {}])
  /\ UNCHANGED <<clock, wrote, spoken, handed, reviewed, later, shown, opinion>>

\* The thumb that is lit withdraws; any other rates at once, and a thumb down asks why.
PressThumb(rating) ==
  /\ wrote[Rated].at = "stored"
  /\ IF thumbs.mine.rating = rating
     THEN /\ Press("withdraw", NoOpinion)
          /\ thumbs' = [thumbs EXCEPT !.asking = FALSE]
     ELSE /\ Press("rate", Opinion(rating, FALSE))
          /\ thumbs' = [thumbs EXCEPT !.asking = rating = "down"]

\* The reason is an invitation: saved, or skipped.
SaveReason ==
  /\ thumbs.asking
  /\ Press("rate", Opinion("down", TRUE))
  /\ thumbs' = [thumbs EXCEPT !.asking = FALSE]

SkipReason ==
  /\ thumbs.asking
  /\ thumbs' = [thumbs EXCEPT !.asking = FALSE]
  /\ UNCHANGED <<clock, wrote, spoken, handed, reviewed, later, shown, opinion, presses>>

PressReviewed ==
  /\ InReviewQueue
  /\ Press("review", NoOpinion)
  /\ UNCHANGED thumbs

-----------------------------------------------------------------------------
(* The routes.                                                              *)

Reach(i, s) == presses' = [presses EXCEPT ![i].at = s]
Is(i, kind, at) == presses[i].kind = kind /\ presses[i].at = at

\* upsertFeedback: the row of this person and this reply, whatever it said.
Upsert(i) ==
  /\ Is(i, "rate", "sent")
  /\ opinion' = presses[i].opinion
  /\ Reach(i, "rated")
  /\ UNCHANGED <<clock, wrote, spoken, handed, reviewed, later, shown, thumbs>>

\* deleteFeedback; one that is gone already is a 404.
Withdraw(i) ==
  /\ Is(i, "withdraw", "sent")
  /\ opinion' = NoOpinion
  /\ Reach(i, "answered")
  /\ UNCHANGED <<clock, wrote, spoken, handed, reviewed, later, shown, thumbs>>

(* A slip: the time is the process's, whose clock is fast. *)
ApplicationClock == clock + 1

\* markReviewed's time.
ReviewedAt == clock

\* A rating reviews too.  The statement has the time it began at, however long it waits for the
\* row; what the reviewer had before them is not part of the request.
BeginReview(i) ==
  /\ Is(i, "review", "sent") \/ Is(i, "rate", "rated")
  /\ presses' = [presses EXCEPT ![i].at = "waiting", ![i].time = ReviewedAt,
                                ![i].unbegun = {r \in Replies : wrote[r].at = "none"}]
  /\ clock' = clock + 1
  /\ UNCHANGED <<wrote, spoken, handed, reviewed, later, shown, opinion, thumbs>>

MarkReviewed(i) ==
  /\ presses[i].at = "waiting" /\ Free
  /\ reviewed' = presses[i].time
  /\ later' = presses[i].unbegun
  /\ shown' = shown \cup Stored
  /\ Reach(i, "answered")
  /\ UNCHANGED <<clock, wrote, spoken, handed, opinion, thumbs>>

\* The request fails before it has done anything, or between its two statements.
PressFails(i) ==
  /\ presses[i].at \in {"sent", "rated"}
  /\ Reach(i, "failed")
  /\ UNCHANGED <<clock, wrote, spoken, handed, reviewed, later, shown, opinion, thumbs>>

\* The answer, or an event: the detail is read again.
ReadAgain(i) ==
  /\ presses[i].at = "answered"
  /\ Reach(i, "over")
  /\ thumbs' = [thumbs EXCEPT !.mine = opinion]
  /\ UNCHANGED <<clock, wrote, spoken, handed, reviewed, later, shown, opinion>>

-----------------------------------------------------------------------------
ReviewNext ==
  \/ \E r \in Replies : BeginReply(r) \/ LockConversation(r) \/ CommitReply(r) \/ AbandonReply(r)
  \/ PersonWrites \/ HandOver
  \/ \E rating \in {"up", "down"} : PressThumb(rating)
  \/ SaveReason \/ SkipReason \/ PressReviewed
  \/ \E i \in DOMAIN presses :
       \/ Upsert(i) \/ Withdraw(i) \/ BeginReview(i) \/ MarkReviewed(i)
       \/ PressFails(i) \/ ReadAgain(i)

ReviewSpec == ReviewInit /\ [][ReviewNext]_review

-----------------------------------------------------------------------------
(* What is promised.                                                        *)

\* The type invariant of the queue and the opinions.
ReviewTypeOK ==
  /\ clock \in Nat /\ reviewed \in Nat
  /\ \A r \in Replies : wrote[r].at \in {"none", "begun", "storing", "stored", "withdrawn"}
  /\ spoken \in BOOLEAN /\ handed \in BOOLEAN
  /\ later \subseteq Replies /\ shown \subseteq Stored
  /\ opinion \in [rating : {"none", "up", "down"}, reason : BOOLEAN]
  /\ \A i \in DOMAIN presses : presses[i].at \in {"sent", "rated", "waiting", "answered", "failed", "over"}
  /\ thumbs.asking \in BOOLEAN

\* A reply the AI began after the last review puts the conversation back among those to be read,
\* as long as no person was part of it ("An application clock a second fast would mark AI replies
\* reviewed before they were written", review.ts).
LaterRepliesAreRead ==
  (Stored \cap later # {} /\ ~spoken /\ ~handed) => InReviewQueue

\* A conversation is out of the queue only when what the AI said there was to be seen when it was
\* reviewed ("the conversation has already been reviewed since the AI last said anything",
\* review.ts).  A reply whose transaction was open at that moment never was.
ReviewedWasShown ==
  (Stored # {} /\ ~spoken /\ ~handed /\ ~InReviewQueue) => Stored \subseteq shown

\* Once every request is over, the opinion is the one pressed last ("replacing whatever they
\* thought before", feedback.ts).
LastPressCounts ==
  (/\ \E i \in DOMAIN presses : presses[i].kind # "review"
   /\ \A i \in DOMAIN presses : presses[i].at = "over") =>
     \E i \in DOMAIN presses :
       /\ presses[i].kind # "review" /\ opinion = presses[i].opinion
       /\ \A j \in i + 1 .. Len(presses) : presses[j].kind = "review"
=============================================================================
