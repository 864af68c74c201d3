------------------------------- MODULE Widget -------------------------------
(***************************************************************************)
(* The chat in a customer's page: the widget (apps/widget), which draws    *)
(* what is typed at once, sends it and polls for the rest, its API         *)
(* (routes/widget.ts), and the ingestion behind it (ingest.ts), which      *)
(* stores the event and promises the work in one transaction and leaves    *)
(* storing the message to the worker.  One visitor, one page.              *)
(***************************************************************************)
EXTENDS Naturals, Sequences, FiniteSets, FiniteSetsExt

CONSTANTS
  Words,      \* what the visitor means to say, each once
  Masked,     \* of those, the ones the workspace's redaction changes as they are stored
  MaxSends,   \* bound: messages submitted
  MaxReplies, \* bound: replies sent to the visitor
  MaxPolls,   \* bound: polls under way at once
  MaxDrops   \* bound: requests or answers lost, sessions lapsed, suspensions

ASSUME WidgetAssumption ==
  /\ Masked \subseteq Words
  /\ MaxSends \in Nat /\ MaxReplies \in Nat /\ MaxPolls \in Nat /\ MaxDrops \in Nat

VARIABLES
  standing,  \* the workspace's status: "active" or "suspended"
  session,   \* the page's session: "none", "good", or "lapsed"
  shut,      \* shutDownWith: nothing can be sent from this page any more
  box,       \* words still to be typed, and the one put back after a failure
  sends,     \* messages submitted: each one's word, in order of their clientMessageId
  post,      \* the send in flight
  events,    \* inbound_events of the channel: the ids of sends that were accepted
  writing,   \* messages stamped by a transaction that is yet to commit
  inbox,    \* messages of the conversation the visitor may see
  stamps,    \* how many have been stamped
  polls,     \* answers to polls on their way back
  since,     \* the cursor
  seen,      \* messages the page has drawn or adopted
  bubbles,   \* own messages on screen: drawn as typed (pending), or from the server
  wfaults

widget == <<standing, session, shut, box, sends, post, events, writing, inbox, stamps, polls,
            since, seen, bubbles, wfaults>>
page == <<session, shut, box, sends, since, seen, bubbles>>
service == <<standing, events, writing, inbox, stamps>>

Typed == {sends[i] : i \in DOMAIN sends}
Ready == session # "none" /\ ~shut
WidgetFault == wfaults < MaxDrops /\ wfaults' = wfaults + 1
NoPost == [at |-> "none", nr |-> 0]
SendOf(nr) == sends[nr]

\* The text as it is stored, for a bubble to be recognised by.
StoredText(w) == IF w \in Masked THEN "masked" ELSE "as typed"
\* A bubble for a send, drawn by the page as it was submitted or from the stored message.
Drawn(by, nr, w, text) ==
  [by |-> by, of |-> nr, word |-> w, text |-> text, pending |-> by = "page"]

(* A slip: no bubble is recognised. *)
PendingNever(word, text) == {}

\* takePending: the oldest bubble of this text that no stored copy has adopted.
Pending(w, text) == {b \in bubbles : b.pending /\ b.word = w /\ b.text = text}
Oldest(bs) == CHOOSE b \in bs : \A c \in bs : b.of <= c.of

WidgetInit ==
  /\ standing = "active" /\ session = "good" /\ shut = FALSE
  /\ box = Words /\ sends = << >> /\ post = NoPost
  /\ events = {} /\ writing = {} /\ inbox = {} /\ stamps = 0
  /\ polls = {} /\ since = 0 /\ seen = {} /\ bubbles = {} /\ wfaults = 0

-----------------------------------------------------------------------------
(* The worker: a message is stamped when its transaction or its sending     *)
(* begins, and seen by others when that commits.                            *)

StampInbound(nr) ==
  /\ nr \in events /\ ~\E m \in writing \cup inbox : m.nr = nr
  /\ stamps' = stamps + 1
  /\ writing' = writing \cup {[nr |-> nr, stamp |-> stamps']}
  /\ UNCHANGED <<standing, events, inbox, post, polls, wfaults>> /\ UNCHANGED page

\* A reply: nr is 0, and the stamp tells one from another.
StampReply ==
  /\ Cardinality({m \in writing \cup inbox : m.nr = 0}) < MaxReplies
  /\ stamps' = stamps + 1
  /\ writing' = writing \cup {[nr |-> 0, stamp |-> stamps']}
  /\ UNCHANGED <<standing, events, inbox, post, polls, wfaults>> /\ UNCHANGED page

CommitRow(m) ==
  /\ m \in writing
  /\ writing' = writing \ {m} /\ inbox' = inbox \cup {m}
  /\ UNCHANGED <<standing, events, stamps, post, polls, wfaults>> /\ UNCHANGED page

\* An operator suspends the workspace, or lets it back in.
SuspendService ==
  /\ standing = "active" /\ WidgetFault
  /\ standing' = "suspended"
  /\ UNCHANGED <<events, writing, inbox, stamps, post, polls>> /\ UNCHANGED page

RestoreService ==
  /\ standing = "suspended" /\ standing' = "active"
  /\ UNCHANGED <<events, writing, inbox, stamps, post, polls, wfaults>> /\ UNCHANGED page

-----------------------------------------------------------------------------
(* Sending.                                                                 *)

\* The message is drawn at once.  One send is in flight at a time.
Submit(w) ==
  /\ w \in box /\ Ready /\ post = NoPost /\ Len(sends) < MaxSends
  /\ box' = box \ {w}
  /\ sends' = Append(sends, w)
  /\ post' = [at |-> "sent", nr |-> Len(sends')]
  /\ bubbles' = bubbles \cup {Drawn("page", Len(sends'), w, "as typed")}
  /\ UNCHANGED <<session, shut, since, seen, polls, wfaults>> /\ UNCHANGED service

Answered(at) == post' = [post EXCEPT !.at = at]

\* POST /messages: the event is stored, once by its id, and its job promised with it.
AcceptMessage ==
  /\ post.at = "sent" /\ session = "good" /\ standing = "active"
  /\ events' = events \cup {post.nr}
  /\ Answered("taken")
  /\ UNCHANGED <<standing, writing, inbox, stamps, polls, wfaults>> /\ UNCHANGED page

RefuseMessage ==
  /\ post.at = "sent" /\ session = "good" /\ standing = "suspended"
  /\ Answered("refused")
  /\ UNCHANGED <<polls, wfaults>> /\ UNCHANGED <<service, page>>

\* The request is lost on its way, or its answer on the way back.
LoseSend ==
  /\ post.at \in {"sent", "taken"} /\ WidgetFault
  /\ Answered("failed")
  /\ UNCHANGED polls /\ UNCHANGED <<service, page>>

\* A lapsed session is refused like any failure.
RefuseSession ==
  /\ post.at = "sent" /\ session = "lapsed"
  /\ Answered("failed")
  /\ UNCHANGED <<polls, wfaults>> /\ UNCHANGED <<service, page>>

SendTaken ==
  /\ post.at = "taken"
  /\ post' = NoPost
  /\ UNCHANGED <<polls, wfaults>> /\ UNCHANGED <<service, page>>

\* Not sent, as far as the page can tell: the bubble comes down.  A failure puts the text back
\* in the box, to be sent again as a message of its own; a refusal shuts the page.
SendFails ==
  /\ post.at \in {"failed", "refused"}
  /\ LET w == SendOf(post.nr)
         mine == Pending(w, "as typed")
     IN  /\ bubbles' = IF mine = {} THEN bubbles ELSE bubbles \ {Oldest(mine)}
         /\ box' = IF post.at = "failed" THEN box \cup {w} ELSE box
  /\ shut' = (shut \/ post.at = "refused")
  /\ post' = NoPost
  /\ UNCHANGED <<session, sends, since, seen, polls, wfaults>> /\ UNCHANGED service

-----------------------------------------------------------------------------
(* Polling.                                                                 *)

SessionLapses ==
  /\ session = "good" /\ WidgetFault
  /\ session' = "lapsed"
  /\ UNCHANGED <<shut, box, sends, since, seen, bubbles, post, polls>> /\ UNCHANGED service

Renewed(s) ==
  /\ session' = s
  /\ UNCHANGED <<box, sends, since, seen, bubbles, post, polls, wfaults>> /\ UNCHANGED service

\* A poll that is told its session has lapsed drops it, and a new one is asked for, then or
\* with a later poll; a suspended workspace gives none.
DropSession == session = "lapsed" /\ ~shut /\ Renewed("none") /\ UNCHANGED shut
RenewSession == session = "none" /\ ~shut /\ standing = "active" /\ Renewed("good") /\ UNCHANGED shut
RefuseRenewal ==
  /\ session = "none" /\ ~shut /\ standing = "suspended"
  /\ Renewed("none") /\ shut' = TRUE

\* GET /messages: what became visible after the cursor.
Poll ==
  /\ Ready /\ session = "good" /\ Cardinality(polls) < MaxPolls
  /\ polls' = polls \cup
       {[suspended |-> standing = "suspended",
         rows |-> IF standing = "suspended" THEN {} ELSE {m \in inbox : m.stamp > since}]}
  /\ UNCHANGED <<post, wfaults>> /\ UNCHANGED <<service, page>>

\* An answer: each message the page has not seen is drawn, or adopts the bubble it was typed as.
PollArrives(p) ==
  /\ p \in polls /\ ~p.suspended
  /\ LET fresh == p.rows \ seen
         own == {m \in fresh : m.nr > 0}
         first(m) == \A o \in own : SendOf(o.nr) = SendOf(m.nr) => m.stamp <= o.stamp
         copies == {m \in own : first(m) /\ Pending(SendOf(m.nr), StoredText(SendOf(m.nr))) # {}}
         adopted == {Oldest(Pending(SendOf(m.nr), StoredText(SendOf(m.nr)))) : m \in copies}
     IN  /\ seen' = seen \cup fresh
         /\ bubbles' = (bubbles \ adopted)
              \cup {[b EXCEPT !.pending = FALSE] : b \in adopted}
              \cup {Drawn("server", m.nr, SendOf(m.nr), StoredText(SendOf(m.nr))) : m \in own \ copies}
  /\ since' = IF p.rows = {} THEN since ELSE Max({m.stamp : m \in p.rows})
  /\ polls' = polls \ {p}
  /\ UNCHANGED <<session, shut, box, sends, post, wfaults>> /\ UNCHANGED service

PollIsRefused(p) ==
  /\ p \in polls /\ p.suspended
  /\ shut' = TRUE /\ polls' = polls \ {p}
  /\ UNCHANGED <<session, box, sends, since, seen, bubbles, post, wfaults>> /\ UNCHANGED service

LosePoll(p) ==
  /\ p \in polls /\ WidgetFault
  /\ polls' = polls \ {p}
  /\ UNCHANGED post /\ UNCHANGED <<service, page>>

-----------------------------------------------------------------------------
WidgetNext ==
  \/ \E w \in Words : Submit(w)
  \/ \E nr \in events : StampInbound(nr)
  \/ \E m \in writing : CommitRow(m)
  \/ \E p \in polls : PollArrives(p) \/ PollIsRefused(p) \/ LosePoll(p)
  \/ StampReply \/ SuspendService \/ RestoreService
  \/ AcceptMessage \/ RefuseMessage \/ LoseSend \/ RefuseSession \/ SendTaken \/ SendFails
  \/ SessionLapses \/ DropSession \/ RenewSession \/ RefuseRenewal \/ Poll

WidgetSpec == WidgetInit /\ [][WidgetNext]_widget

-----------------------------------------------------------------------------
(* What is promised.                                                        *)

\* The type invariant of the page, its requests and the conversation.
WidgetTypeOK ==
  /\ standing \in {"active", "suspended"} /\ session \in {"none", "good", "lapsed"}
  /\ shut \in BOOLEAN /\ box \subseteq Words /\ Typed \subseteq Words
  /\ post.at \in {"none", "sent", "taken", "refused", "failed"}
  /\ events \subseteq DOMAIN sends
  /\ writing \cap inbox = {} /\ seen \subseteq inbox
  /\ \A m \in writing \cup inbox : m.nr \in {0} \cup events /\ m.stamp \in 1 .. stamps
  /\ \A b \in bubbles : b.word \in Words /\ b.pending \in BOOLEAN

\* However polls and sends overlap and whatever answers are lost, what the customer said is on
\* screen no more often than they sent it ("without this the customer sees everything they said
\* twice", app.ts), as far as redaction leaves it as it was typed.
SaidIsShownOnce ==
  \A w \in Words \ Masked :
    Cardinality({b \in bubbles : b.word = w}) <= Cardinality({i \in DOMAIN sends : sends[i] = w})

\* ... and nothing else either.  A message that redaction changes does not adopt its bubble.
MaskedIsShownOnce ==
  \A w \in Masked :
    Cardinality({b \in bubbles : b.word = w}) <= Cardinality({i \in DOMAIN sends : sends[i] = w})

\* What the customer said once is stored once ("One id for this message across any retry of its
\* request, so the server stores it once", app.ts).  The page retries no request: it puts the
\* text back, and what is sent again has an id of its own.
SaidIsStoredOnce ==
  \A w \in Words : Cardinality({m \in inbox : m.nr > 0 /\ SendOf(m.nr) = w}) <= 1

\* Nothing the visitor may see stays behind the cursor ("a skip is the failure that would
\* matter", widget.ts).  A message stamped before another that commits after it does.
NothingIsSkipped == \A m \in inbox : m.stamp <= since => m \in seen \/ \E p \in polls : m \in p.rows
=============================================================================
