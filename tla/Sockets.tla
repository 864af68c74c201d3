------------------------------ MODULE Sockets -------------------------------
(***************************************************************************)
(* The live feed of the console: one replica's rooms of sockets (ws.ts),   *)
(* the tabs that dial, refetch and dial again (lib/ws.ts), what is         *)
(* published to them, and the question whether a person may still listen.  *)
(* A published event reaches a subscribed room and its sockets in one step;*)
(* what is published while nobody is subscribed is gone.                   *)
(***************************************************************************)
EXTENDS Naturals, FiniteSets

CONSTANTS
  Tabs,        \* consoles, each of a person of its own, in one workspace
  MaxSockets,  \* bound: connections ever made
  MaxCommits,  \* bound: changes of what the consoles show
  MaxTurns     \* bound: times somebody's access changes

ASSUME SocketsAssumption == Tabs # {} /\ {MaxSockets, MaxCommits, MaxTurns} \subseteq Nat

VARIABLES
  access,     \* tabs whose person is signed in and a member, the workspace being active
  turned,     \* times that has changed
  unheard,    \* tabs whose change is still to be announced (auth.changed, workspace.status)
  committed,  \* changes of what is shown, numbered
  unsaid,     \* whether the last of them is still to be published
  sockets,    \* the connections, at the server and at the browser
  installed,  \* the room in `rooms`, or 0
  opening,    \* the room being opened, or 0
  subscribed, \* rooms whose subscriber is open
  made,       \* rooms made
  tabs        \* what each console shows, and the state of its feed

feed == <<access, turned, unheard, committed, unsaid, sockets, installed, opening, subscribed,
          made, tabs>>
room == <<installed, opening, subscribed, made>>
world == <<access, turned, unheard, committed, unsaid>>

SocketIds == 1 .. MaxSockets
NoSocket == [tab |-> CHOOSE t \in Tabs : TRUE, browser |-> "none", server |-> "none", room |-> 0,
             known |-> FALSE, check |-> FALSE, news |-> FALSE, refused |-> FALSE, hangup |-> "no"]

\* A page that was just loaded: its first query is under way.
Loaded == [feed |-> "connecting", opened |-> FALSE, socket |-> 0, query |-> "asked", answer |-> 0,
           shown |-> 0]

SocketsInit ==
  /\ access = Tabs
  /\ turned = 0 /\ unheard = {} /\ committed = 0 /\ unsaid = FALSE
  /\ sockets = [s \in SocketIds |-> NoSocket]
  /\ installed = 0 /\ opening = 0 /\ subscribed = {} /\ made = 0
  /\ tabs = [t \in Tabs |-> Loaded]

Placed(s) == sockets[s].server = "placed"
Hears(s) == Placed(s) /\ sockets[s].room \in subscribed /\ sockets[s].hangup = "no"
Put(s, f) == sockets' = [sockets EXCEPT ![s] = f]
\* invalidateQueries: whatever is under way is dropped and asked for again.
Refetch(t) == [tabs[t] EXCEPT !.query = "asked"]

-----------------------------------------------------------------------------
(* The browser.                                                             *)

Dial(t) ==
  /\ tabs[t].feed \in {"connecting", "reconnecting"} /\ tabs[t].socket = 0
  /\ \E s \in SocketIds :
       /\ sockets[s].browser = "none" /\ \A r \in 1 .. (s - 1) : sockets[r].browser # "none"
       /\ Put(s, [NoSocket EXCEPT !.tab = t, !.browser = "dialing"])
       /\ tabs' = [tabs EXCEPT ![t].socket = s]
  /\ UNCHANGED <<world, room>>

\* onopen: a tab that had been open before asks again for everything on screen.
SocketOpens(s) ==
  /\ sockets[s].browser = "dialing" /\ sockets[s].server # "none"
  /\ Put(s, [sockets[s] EXCEPT !.browser = "open"])
  /\ LET t == sockets[s].tab
     IN tabs' = [tabs EXCEPT ![t] = [(IF @.opened THEN Refetch(t) ELSE @) EXCEPT
                                       !.feed = "open", !.opened = TRUE]]
  /\ UNCHANGED <<world, room>>

HearNews(s) ==
  /\ sockets[s].browser = "open" /\ sockets[s].news
  /\ Put(s, [sockets[s] EXCEPT !.news = FALSE])
  /\ tabs' = [tabs EXCEPT ![sockets[s].tab] = Refetch(sockets[s].tab)]
  /\ UNCHANGED <<world, room>>

\* onclose: dialled again after a while, unless the server meant it.
SocketCloses(s, refused) ==
  /\ sockets[s].browser \in {"dialing", "open"}
  /\ refused => sockets[s].refused
  /\ Put(s, [sockets[s] EXCEPT !.browser = "closed", !.news = FALSE,
               !.hangup = IF @ = "no" /\ sockets[s].server # "none" THEN "due" ELSE @])
  /\ tabs' = [tabs EXCEPT ![sockets[s].tab].socket = 0,
                          ![sockets[s].tab].feed = IF refused THEN "stopped" ELSE "reconnecting"]
  /\ UNCHANGED <<world, room>>

\* A stopped tab is loaded again by somebody who has signed in.
Reload(t) ==
  /\ tabs[t].feed = "stopped" /\ t \in access
  /\ tabs' = [tabs EXCEPT ![t] = Loaded]
  /\ UNCHANGED <<world, sockets, room>>

\* The API reads what it has, and the browser shows it.
AnswerQuery(t) ==
  /\ tabs[t].query = "asked"
  /\ tabs' = [tabs EXCEPT ![t].query = "answered", ![t].answer = committed]
  /\ UNCHANGED <<world, sockets, room>>

ShowAnswer(t) ==
  /\ tabs[t].query = "answered"
  /\ tabs' = [tabs EXCEPT ![t].query = "idle", ![t].answer = 0, ![t].shown = tabs[t].answer]
  /\ UNCHANGED <<world, sockets, room>>

-----------------------------------------------------------------------------
(* The server: open, join, close, leave.                                    *)

\* The server closes it, with a code the browser does not dial again after.
Refused(f) == [f EXCEPT !.refused = TRUE, !.hangup = IF @ = "no" THEN "due" ELSE @]

Arrive(s) ==
  /\ sockets[s].browser = "dialing" /\ sockets[s].server = "none"
  /\ Put(s, [sockets[s] EXCEPT !.server = "arrived"])
  /\ UNCHANGED <<world, room, tabs>>

\* The session and the membership are read, and the workspace's status.
Authorise(s) ==
  /\ sockets[s].server = "arrived"
  /\ Put(s, IF sockets[s].tab \in access THEN [sockets[s] EXCEPT !.server = "allowed"]
            ELSE Refused([sockets[s] EXCEPT !.server = "gone"]))
  /\ UNCHANGED <<world, room, tabs>>

\* Its state and its timer are set, and it joins: the room there is, the one being opened,
\* or one of its own.
Join(s) ==
  /\ sockets[s].server = "allowed"
  /\ LET known == [sockets[s] EXCEPT !.known = TRUE]
     IN IF installed # 0
        THEN /\ Put(s, [known EXCEPT !.server = "placed", !.room = installed])
             /\ UNCHANGED room
        ELSE /\ Put(s, [known EXCEPT !.server = "joining"])
             /\ IF opening # 0 THEN UNCHANGED room
                ELSE /\ made' = made + 1 /\ opening' = made'
                     /\ UNCHANGED <<installed, subscribed>>
  /\ UNCHANGED <<world, tabs>>

Joining == {s \in SocketIds : sockets[s].server = "joining"}

\* Redis confirms: whoever waits is placed, except those that have closed meanwhile, and a
\* room nobody is left in is closed.
OpenRoom ==
  /\ opening # 0
  /\ LET staying == {s \in Joining : sockets[s].known}
     IN /\ sockets' = [s \in SocketIds |->
             IF s \in staying THEN [sockets[s] EXCEPT !.server = "placed", !.room = opening]
             ELSE IF s \in Joining THEN [sockets[s] EXCEPT !.server = "gone"]
             ELSE sockets[s]]
        /\ installed' = IF staying = {} THEN 0 ELSE opening
        /\ subscribed' = IF staying = {} THEN subscribed ELSE subscribed \cup {opening}
  /\ opening' = 0
  /\ UNCHANGED <<world, made, tabs>>

\* The connection has ended, which the server hears of once: what it knows of the socket is
\* forgotten first, and the room left once Redis has forgotten what was being viewed.  A
\* socket whose state is not set yet is not known, and nothing is done.
HandleClose(s) ==
  /\ sockets[s].hangup = "due"
  /\ Put(s, [sockets[s] EXCEPT !.hangup = "done", !.known = FALSE, !.check = FALSE,
               !.server = IF @ = "placed" THEN "closing" ELSE @])
  /\ UNCHANGED <<world, room, tabs>>

\* leave: the last one out closes the room.
LeaveRoom(s) ==
  /\ sockets[s].server = "closing"
  /\ Put(s, [sockets[s] EXCEPT !.server = "gone", !.room = 0])
  /\ LET others == {r \in SocketIds \ {s} : sockets[r].room = sockets[s].room}
     IN IF others = {} /\ sockets[s].room = installed
        THEN installed' = 0 /\ subscribed' = subscribed \ {installed}
        ELSE UNCHANGED <<installed, subscribed>>
  /\ UNCHANGED <<world, opening, made, tabs>>

-----------------------------------------------------------------------------
(* What is published, and whether a socket may go on.                       *)

Commit ==
  /\ committed < MaxCommits /\ ~unsaid
  /\ committed' = committed + 1 /\ unsaid' = TRUE
  /\ UNCHANGED <<access, turned, unheard, sockets, room, tabs>>

Publish ==
  /\ unsaid
  /\ unsaid' = FALSE
  /\ sockets' = [s \in SocketIds |->
       IF Hears(s) THEN [sockets[s] EXCEPT !.news = TRUE] ELSE sockets[s]]
  /\ UNCHANGED <<access, turned, unheard, committed, room, tabs>>

\* Removed, demoted, reset, signed out, suspended; or let in again.
AccessChanges(t) ==
  /\ turned < MaxTurns
  /\ turned' = turned + 1
  /\ access' = IF t \in access THEN access \ {t} ELSE access \cup {t}
  /\ unheard' = unheard \cup {t}
  /\ UNCHANGED <<committed, unsaid, sockets, room, tabs>>

\* The sockets of that person prove themselves again ...
Announce(t) ==
  /\ t \in unheard
  /\ unheard' = unheard \ {t}
  /\ sockets' = [s \in SocketIds |->
       IF sockets[s].tab = t /\ sockets[s].known /\ Hears(s) THEN [sockets[s] EXCEPT !.check = TRUE] ELSE sockets[s]]
  /\ UNCHANGED <<access, turned, committed, unsaid, room, tabs>>

\* ... if the announcement is made: Redis may be down, and the failure is ignored.
LoseAnnouncement(t) ==
  /\ t \in unheard
  /\ unheard' = unheard \ {t}
  /\ UNCHANGED <<access, turned, committed, unsaid, sockets, room, tabs>>

\* Every five minutes each socket proves itself, whatever was announced; joining takes less.
TimerFires(s) ==
  /\ sockets[s].known /\ Placed(s) /\ ~sockets[s].check
  /\ Put(s, [sockets[s] EXCEPT !.check = TRUE])
  /\ UNCHANGED <<world, room, tabs>>

(* A slip: the answer is looked at, and nothing done about it. *)
RevalidateIdly(s) ==
  /\ sockets[s].check
  /\ Put(s, [sockets[s] EXCEPT !.check = FALSE])
  /\ UNCHANGED <<world, room, tabs>>

\* revalidate: it goes on, or is closed for good.
Revalidate(s) ==
  /\ sockets[s].check
  /\ LET proved == [sockets[s] EXCEPT !.check = FALSE]
     IN Put(s, IF sockets[s].tab \in access THEN proved ELSE Refused(proved))
  /\ UNCHANGED <<world, room, tabs>>

SocketStep(s) ==
  \/ Arrive(s) \/ Authorise(s) \/ Join(s) \/ HandleClose(s) \/ LeaveRoom(s)
  \/ TimerFires(s) \/ Revalidate(s)
TabStep(t) == AnswerQuery(t) \/ ShowAnswer(t)

SocketsNext ==
  \/ \E t \in Tabs : \/ Dial(t) \/ Reload(t) \/ TabStep(t) \/ AccessChanges(t) \/ Announce(t)
                     \/ LoseAnnouncement(t)
  \/ \E s \in SocketIds : \/ SocketOpens(s) \/ HearNews(s) \/ SocketStep(s)
                          \/ \E refused \in BOOLEAN : SocketCloses(s, refused)
  \/ OpenRoom \/ Commit \/ Publish

SocketsSpec == SocketsInit /\ [][SocketsNext]_feed
\* Timers fire and handlers that were started go on.
SocketsFairness ==
  \A s \in SocketIds : /\ WF_feed(TimerFires(s)) /\ WF_feed(Revalidate(s))
                       /\ WF_feed(HandleClose(s)) /\ WF_feed(LeaveRoom(s))

-----------------------------------------------------------------------------
(* Every socket, room and tab holds what the two programs can hold.         *)
SocketsTypeOK ==
  /\ access \subseteq Tabs /\ unheard \subseteq Tabs /\ turned \in 0 .. MaxTurns
  /\ committed \in 0 .. MaxCommits /\ unsaid \in BOOLEAN
  /\ sockets \in [SocketIds ->
       [tab : Tabs, browser : {"none", "dialing", "open", "closed"},
        server : {"none", "arrived", "allowed", "joining", "placed", "closing", "gone"},
        room : Nat, known : BOOLEAN, check : BOOLEAN, news : BOOLEAN, refused : BOOLEAN,
        hangup : {"no", "due", "done"}]]
  /\ {installed, opening, made} \subseteq Nat /\ subscribed \subseteq Nat
  /\ tabs \in [Tabs ->
       [feed : {"connecting", "open", "reconnecting", "stopped"}, opened : BOOLEAN,
        socket : SocketIds \cup {0}, query : {"idle", "asked", "answered"}, answer : Nat,
        shown : Nat]]

(* The sockets of a workspace share one subscription: two that join at once *)
(* make one room, nobody is left in a room that hears nothing, and the last *)
(* one out closes it (ws.ts:58-61, 78-81).                                  *)
OneRoomOfListeners ==
  /\ subscribed = (IF installed = 0 THEN {} ELSE {installed})
  /\ \A s \in SocketIds : Placed(s) => sockets[s].room = installed /\ installed # 0
  /\ installed # 0 => \E s \in SocketIds : sockets[s].room = installed

(* Whoever loses their access stops hearing the workspace, though nobody    *)
(* announces it: a socket outlives the session it was opened with.          *)
LostAccessClosesSockets ==
  \A s \in SocketIds :
    Hears(s) /\ sockets[s].tab \notin access ~> ~Hears(s) \/ sockets[s].tab \in access

(* A connection that has ended is out of its room in the end: a closed      *)
(* socket never left it when closes went unnoticed (ws.ts:62-67).           *)
ClosedSocketsLeave ==
  \A s \in SocketIds : Placed(s) /\ sockets[s].hangup # "no" ~> ~Placed(s)

(* A console that is connected and has nothing under way shows what there   *)
(* is: a reconnect refetches everything on screen (lib/ws.ts:17-20).        *)
ConnectedMeansCurrent ==
  \A t \in Tabs : \A s \in SocketIds :
    /\ tabs[t].socket = s /\ Hears(s) /\ sockets[s].browser = "open"
    /\ tabs[t].query = "idle" /\ ~unsaid /\ ~sockets[s].news
    => tabs[t].shown = committed
=============================================================================
