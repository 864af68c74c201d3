------------------------------- MODULE Thread -------------------------------
(***************************************************************************)
(* Reading one conversation in the console (ConversationPane): its newest  *)
(* page, read again whenever something happens in it, and the pages above, *)
(* each asked for once by the id of the oldest message loaded.  Reading a  *)
(* page also marks the conversation read.  Messages are numbered in the    *)
(* order they were written, which is that of their ids.                    *)
(***************************************************************************)
EXTENDS Naturals, Sequences

CONSTANTS
  MessagePage,  \* MESSAGE_PAGE
  MaxWritten,   \* bound: messages ever written
  MaxFailures   \* bound: times the next page up cannot be loaded

ASSUME ThreadAssumption ==
  MessagePage \in Nat \ {0} /\ MaxWritten \in Nat \ {0} /\ MaxFailures \in Nat

VARIABLES
  written,   \* messages of the conversation
  unread,    \* unread_count
  coming,    \* the customer's message on its way into it
  served,    \* the newest message any reader was ever sent
  reading,   \* whether some request's answer is read and its mark still to be made
  pane,      \* the open pane
  failures   \* so far

thread == <<written, unread, coming, served, reading, pane, failures>>

\* query: the newest page.  window is the newest message of the page shown, 0 if none is;
\* older, what was loaded above it; up, the id the next page up was asked for by, or 0.
ClosedPane == [open |-> FALSE, query |-> "idle", answer |-> 0, window |-> 0, older |-> << >>,
           olderMore |-> "unknown", up |-> 0]

Smallest(a, b) == IF a < b THEN a ELSE b
\* The `limit` newest of the messages up to n, oldest first, and whether there are more.
Newest(n) == [i \in 1 .. Smallest(n, MessagePage) |-> n - Smallest(n, MessagePage) + i]
More(n) == n > MessagePage

Live == Newest(pane.window)

(* A slip: the page above is asked for by the newest page, whatever was loaded before. *)
OldestLive == Live[1]

Oldest == IF pane.older # << >> THEN pane.older[1] ELSE Live[1]
CanLoadOlder ==
  pane.window # 0
  /\ IF pane.olderMore = "unknown" THEN More(pane.window) ELSE pane.olderMore = "yes"

\* liveIds: what was loaded above, but for what the newest page has as well; it is drawn above
\* that page (buildThread).
Above == {i \in DOMAIN pane.older : \A k \in DOMAIN Live : Live[k] # pane.older[i]}
Shown == {pane.older[i] : i \in Above} \cup {Live[k] : k \in DOMAIN Live}

ThreadInit ==
  /\ written \in 1 .. MaxWritten /\ unread = written
  /\ coming = "no" /\ served = 0 /\ reading = FALSE
  /\ pane = ClosedPane /\ failures = 0

-----------------------------------------------------------------------------
(* What happens in the conversation.                                        *)

\* A customer's message is counted as unread, stored, and told of.
MessageComes ==
  /\ coming = "no" /\ written < MaxWritten
  /\ unread' = unread + 1 /\ coming' = "counted"
  /\ UNCHANGED <<written, served, reading, pane, failures>>

MessageIsStored ==
  /\ coming = "counted"
  /\ written' = written + 1 /\ coming' = "stored"
  /\ UNCHANGED <<unread, served, reading, pane, failures>>

MessageIsTold ==
  /\ coming = "stored"
  /\ coming' = "no"
  /\ pane' = IF pane.open THEN [pane EXCEPT !.query = "asked"] ELSE pane
  /\ UNCHANGED <<written, unread, served, reading, failures>>

\* An answer of the AI or of a colleague is stored and told of.
AnswerIsStored ==
  /\ coming = "no" /\ written < MaxWritten
  /\ written' = written + 1 /\ coming' = "stored"
  /\ UNCHANGED <<unread, served, reading, pane, failures>>

-----------------------------------------------------------------------------
(* The pane.                                                                *)

\* Keyed by conversation: mounted anew each time, with nothing loaded above.
OpenPane ==
  /\ ~pane.open
  /\ pane' = [ClosedPane EXCEPT !.open = TRUE, !.query = "asked"]
  /\ UNCHANGED <<written, unread, coming, served, reading, failures>>

ClosePane ==
  /\ pane.open
  /\ pane' = ClosedPane
  /\ UNCHANGED <<written, unread, coming, served, reading, failures>>

\* The API reads the newest page ...
ReadNewest ==
  /\ pane.query = "asked"
  /\ pane' = [pane EXCEPT !.query = "answered", !.answer = written]
  /\ served' = written /\ reading' = TRUE
  /\ UNCHANGED <<written, unread, coming, failures>>

\* ... and then marks the conversation read, with whatever has come since; other requests
\* may be between the two as well.
MarkRead ==
  /\ reading
  /\ reading' \in BOOLEAN /\ unread' = 0
  /\ UNCHANGED <<written, coming, served, pane, failures>>

ShowNewest ==
  /\ pane.query = "answered"
  /\ pane' = [pane EXCEPT !.query = "idle", !.answer = 0, !.window = pane.answer]
  /\ UNCHANGED <<written, unread, coming, served, reading, failures>>

\* loadOlder: one request at a time, whatever the scrolling asks.
LoadOlder ==
  /\ CanLoadOlder /\ pane.up = 0
  /\ pane' = [pane EXCEPT !.up = Oldest]
  /\ UNCHANGED <<written, unread, coming, served, reading, failures>>

\* The page above a message: what was written before it, which nothing is added to.
OlderArrives ==
  /\ pane.up # 0
  /\ pane' = [pane EXCEPT !.up = 0, !.older = Newest(pane.up - 1) \o @,
                          !.olderMore = IF More(pane.up - 1) THEN "yes" ELSE "no"]
  /\ reading' = TRUE
  /\ UNCHANGED <<written, unread, coming, served, failures>>

OlderFails ==
  /\ pane.up # 0 /\ failures < MaxFailures
  /\ failures' = failures + 1
  /\ pane' = [pane EXCEPT !.up = 0]
  /\ UNCHANGED <<written, unread, coming, served, reading>>

ThreadNext ==
  \/ MessageComes \/ MessageIsStored \/ MessageIsTold \/ AnswerIsStored
  \/ OpenPane \/ ClosePane \/ ReadNewest \/ MarkRead \/ ShowNewest
  \/ LoadOlder \/ OlderArrives \/ OlderFails

ThreadSpec == ThreadInit /\ [][ThreadNext]_thread

-----------------------------------------------------------------------------
(* The pane shows messages there are, and waits for at most one page up.    *)
ThreadTypeOK ==
  /\ written \in 1 .. MaxWritten /\ unread \in Nat /\ coming \in {"no", "counted", "stored"}
  /\ served \in 0 .. written /\ reading \in BOOLEAN /\ failures \in 0 .. MaxFailures
  /\ pane \in [open : BOOLEAN, query : {"idle", "asked", "answered"}, answer : 0 .. written,
               window : 0 .. written, older : Seq(1 .. written),
               olderMore : {"unknown", "yes", "no"}, up : 0 .. written]

(* However fast somebody scrolls up and whatever arrives meanwhile, no      *)
(* message is drawn twice, nor one above another it came before.            *)
ThreadIsInOrder ==
  \A i \in Above :
    /\ \A j \in Above : i < j => pane.older[i] < pane.older[j]
    /\ \A k \in DOMAIN Live : pane.older[i] < Live[k]

(* Nothing is missing in the middle of what is shown: "a reply arriving     *)
(* while somebody reads history cannot open a gap in the middle of what     *)
(* they are looking at" (conversations.ts:528-530).                         *)
ThreadHasNoGap == \A m, n \in Shown : m .. n \subseteq Shown

(* A conversation that is marked read holds nothing no reader was ever sent.*)
ReadMeansServed == unread = 0 => served = written
=============================================================================
