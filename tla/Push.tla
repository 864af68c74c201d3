-------------------------------- MODULE Push --------------------------------
(***************************************************************************)
(* Notifications on agents' devices (ADR 0010): who turned them on where   *)
(* (routes/push.ts, the console's lib/push.ts), who has the conversation   *)
(* on screen (presence.ts, reported over the console's sockets), and the   *)
(* job that decides, when it runs, whom to tell (push.ts).  One            *)
(* conversation, in one of the workspaces its agents belong to.            *)
(***************************************************************************)
EXTENDS Naturals, FiniteSets

CONSTANTS
  Agents,      \* people who use the console
  Devices,     \* their devices, one push endpoint each
  Spaces,      \* workspaces
  Home,        \* the conversation's
  Assignee,    \* who holds the conversation when somebody does
  MaxTurns,    \* bound: changes of the conversation, of members and of who holds a device
  MaxReports,  \* bound: reports of what a console shows
  MaxAttempts  \* the queue tries a job so often

ASSUME PushAssumption ==
  /\ Home \in Spaces /\ Assignee \in Agents
  /\ MaxTurns \in Nat /\ MaxReports \in Nat /\ MaxAttempts \in Nat \ {0}

Reasons == {"handoff", "customer_message", "draft_ready"}
Modes == {"human", "waiting_human", "ai_supervised", "resolved"}
Nobody == "nobody"

VARIABLES
  belongs,   \* who may answer where: <<person, workspace>>
  hands,     \* who is signed in on each device
  browser,   \* devices whose browser is subscribed
  rows,      \* push_subscriptions
  screen,    \* people whose console shows the conversation
  reports,   \* what their consoles have said of it, not yet recorded: in whatever order
  presence,  \* people recorded as having it open
  now,       \* the conversation's mode, or "resolved"
  job,       \* the push job
  shown,     \* how often each device has shown this occasion's notification
  slips,     \* whether an answer of a push service was lost, or the worker died
  turns, said

push == <<belongs, hands, browser, rows, screen, reports, presence, now, job, shown, slips,
          turns, said>>
world == <<belongs, now>>
device == <<hands, browser, rows>>
reading == <<screen, reports, presence, said>>
sending == <<job, shown, slips>>

Turn == turns < MaxTurns /\ turns' = turns + 1

\* An occasion has just been queued; every agent belongs everywhere, and what
\* consoles have said before may still stand.
PushInit ==
  /\ belongs = Agents \X Spaces
  /\ hands = [d \in Devices |-> Nobody] /\ browser = {} /\ rows = {}
  /\ screen = {} /\ reports = {} /\ presence \in SUBSET Agents /\ said = 0
  /\ now \in Modes
  /\ \E reason \in Reasons :
       job = [at |-> "queued", reason |-> reason, left |-> {}, sent |-> 0, passing |-> 0,
              failed |-> 0, tries |-> 0]
  /\ shown = [d \in Devices |-> 0] /\ slips = FALSE /\ turns = 0

-----------------------------------------------------------------------------
(* The devices.                                                             *)

SignIn(d, p) ==
  /\ hands[d] = Nobody /\ hands' = [hands EXCEPT ![d] = p]
  /\ UNCHANGED <<browser, rows, turns>> /\ UNCHANGED <<world, reading, sending>>

\* A row per workspace and device: who turns it on there takes the row over.
Enable(d, s) ==
  /\ <<hands[d], s>> \in belongs
  /\ browser' = browser \cup {d}
  /\ rows' = {r \in rows : r.device # d \/ r.space # s}
               \cup {[device |-> d, space |-> s, user |-> hands[d]]}
  /\ UNCHANGED <<hands, turns>> /\ UNCHANGED <<world, reading, sending>>

Disable(d, s) ==
  /\ d \in browser
  /\ rows' = {r \in rows : ~(r.device = d /\ r.space = s /\ r.user = hands[d])}
  /\ UNCHANGED <<hands, browser, turns>> /\ UNCHANGED <<world, reading, sending>>

\* Signing out: this person's rows of the device go, in every workspace, and the browser
\* unsubscribes.
SignOut(d) ==
  /\ hands[d] # Nobody /\ Turn
  /\ hands' = [hands EXCEPT ![d] = Nobody]
  /\ IF d \in browser
     THEN browser' = browser \ {d} /\ rows' = {r \in rows : ~(r.device = d /\ r.user = hands[d])}
     ELSE UNCHANGED <<browser, rows>>
  /\ UNCHANGED <<world, reading, sending>>

\* The session expires, or the server cannot be reached while signing out: best effort.
LeaveDevice(d) ==
  /\ hands[d] # Nobody /\ Turn
  /\ hands' = [hands EXCEPT ![d] = Nobody]
  /\ UNCHANGED <<browser, rows>> /\ UNCHANGED <<world, reading, sending>>

\* The app is removed from the home screen, or the site's permission withdrawn.
BrowserGone(d) ==
  /\ d \in browser /\ Turn
  /\ browser' = browser \ {d}
  /\ UNCHANGED <<hands, rows>> /\ UNCHANGED <<world, reading, sending>>

-----------------------------------------------------------------------------
(* What is on screen.                                                       *)

\* A console opens the conversation or leaves it, and says so.
Report(p) ==
  /\ said < MaxReports /\ said' = said + 1
  /\ screen' = IF p \in screen THEN screen \ {p} ELSE screen \cup {p}
  /\ reports' = reports \cup {[user |-> p, open |-> p \in screen', nr |-> said']}
  /\ UNCHANGED presence /\ UNCHANGED <<world, device, sending, turns>>

\* The socket server records it.  What opens the conversation is looked up first, so that a
\* report may overtake the one before it; a failure to record is let go.
Record(r) ==
  /\ reports' = reports \ {r}
  /\ \/ presence' = IF r.open THEN presence \cup {r.user} ELSE presence \ {r.user}
     \/ UNCHANGED presence
  /\ UNCHANGED <<screen, said>> /\ UNCHANGED <<world, device, sending, turns>>

\* A report that nothing has renewed counts no longer.
PresenceLapses(p) ==
  /\ p \in presence \ screen
  /\ presence' = presence \ {p}
  /\ UNCHANGED <<screen, reports, said>> /\ UNCHANGED <<world, device, sending, turns>>

\* The console renews what it shows.
Renew(p) ==
  /\ p \in screen \ presence /\ ~\E r \in reports : r.user = p
  /\ presence' = presence \cup {p}
  /\ UNCHANGED <<screen, reports, said>> /\ UNCHANGED <<world, device, sending, turns>>

-----------------------------------------------------------------------------
(* The conversation, its workspace's members, and the job.                  *)

Move(m) ==
  /\ Turn /\ m # now /\ now' = m
  /\ UNCHANGED belongs /\ UNCHANGED <<device, reading, sending>>

\* Removing a member deletes their rows of the workspace.
RemoveMember(p, s) ==
  /\ Turn /\ <<p, s>> \in belongs
  /\ belongs' = belongs \ {<<p, s>>}
  /\ rows' = {r \in rows : ~(r.user = p /\ r.space = s)}
  /\ UNCHANGED <<now, hands, browser>> /\ UNCHANGED <<reading, sending>>

StillOwed ==
  CASE job.reason = "draft_ready"      -> now = "ai_supervised"
    [] job.reason = "customer_message" -> now \in {"human", "waiting_human"}
    [] OTHER                           -> now = "waiting_human"

\* Whom the job would tell: whoever holds the conversation, or everyone who could be that person.
Recipients ==
  {r \in rows :
     /\ r.space = Home /\ <<r.user, Home>> \in belongs
     /\ job.reason = "customer_message" /\ now = "human" => r.user = Assignee}

StartPush ==
  /\ job.at = "queued"
  /\ job' = IF StillOwed /\ Recipients # {}
            THEN [job EXCEPT !.at = "asking", !.left = Recipients, !.tries = @ + 1]
            ELSE [job EXCEPT !.at = "done"]
  /\ UNCHANGED <<world, device, reading, turns, shown, slips>>

\* Whoever is reading the conversation is left out, on all their devices; if Redis does not
\* answer, nobody is.
LeaveReadersOut ==
  /\ job.at = "asking"
  /\ \/ job' = [job EXCEPT !.at = "posting"]
     \/ /\ job.reason = "customer_message"
        /\ job' = [job EXCEPT !.at = "posting", !.left = {r \in @ : r.user \notin presence}]
  /\ UNCHANGED <<world, device, reading, turns, shown, slips>>

Posting(r) == job.at = "posting" /\ r \in job.left
Buzz(d) == shown' = [shown EXCEPT ![d] = @ + 1]

PostArrives(r) ==
  /\ Posting(r) /\ r.device \in browser
  /\ job' = [job EXCEPT !.left = @ \ {r}, !.sent = @ + 1]
  /\ Buzz(r.device)
  /\ UNCHANGED slips /\ UNCHANGED <<world, device, reading, turns>>

\* 404 and 410: the device will never take another.
PostFindsNobody(r) ==
  /\ Posting(r) /\ r.device \notin browser
  /\ job' = [job EXCEPT !.left = @ \ {r}]
  /\ rows' = rows \ {r}
  /\ UNCHANGED <<hands, browser, shown, slips>> /\ UNCHANGED <<world, reading, turns>>

\* 429, 5xx and a network failure may pass; anything else does not.  The notification may have
\* been taken all the same, its answer lost.
PostFails(r) ==
  /\ Posting(r)
  /\ \E passing \in {0, 1} :
       job' = [job EXCEPT !.left = @ \ {r}, !.failed = @ + 1, !.passing = @ + passing]
  /\ \/ UNCHANGED <<shown, slips>>
     \/ job'.passing > job.passing /\ r.device \in browser /\ Buzz(r.device) /\ slips' = TRUE
  /\ UNCHANGED <<world, device, reading, turns>>

(* A slip: any device that failed is worth another go. *)
RetriableAnyway == job.passing > 0

\* Worth another try: nothing arrived anywhere, and every failure might pass.
Retriable == job.sent = 0 /\ job.passing > 0 /\ job.passing = job.failed

(* A slip: the job is queued again for ever. *)
AgainForEver ==
  job' = [job EXCEPT !.at = "queued", !.left = {}, !.sent = 0, !.passing = 0, !.failed = 0]

Again ==
  job' = [job EXCEPT !.at = IF job.tries < MaxAttempts THEN "queued" ELSE "done",
                     !.left = {}, !.sent = 0, !.passing = 0, !.failed = 0]

FinishPush ==
  /\ job.at = "posting" /\ job.left = {}
  /\ IF Retriable THEN Again ELSE job' = [job EXCEPT !.at = "done"]
  /\ UNCHANGED <<world, device, reading, turns, shown, slips>>

CrashPush ==
  /\ job.at \in {"asking", "posting"}
  /\ Again /\ slips' = TRUE
  /\ UNCHANGED <<world, device, reading, turns, shown>>

-----------------------------------------------------------------------------
PushNext ==
  \/ \E d \in Devices :
       \/ \E p \in Agents : SignIn(d, p)
       \/ \E s \in Spaces : Enable(d, s) \/ Disable(d, s)
       \/ SignOut(d) \/ LeaveDevice(d) \/ BrowserGone(d)
  \/ \E p \in Agents : Report(p) \/ PresenceLapses(p) \/ Renew(p) \/ (\E s \in Spaces : RemoveMember(p, s))
  \/ \E r \in reports : Record(r)
  \/ \E m \in Modes : Move(m)
  \/ \E r \in rows \cup job.left : PostArrives(r) \/ PostFindsNobody(r) \/ PostFails(r)
  \/ StartPush \/ LeaveReadersOut \/ FinishPush \/ CrashPush

PushSpec == PushInit /\ [][PushNext]_push

-----------------------------------------------------------------------------
(* What is promised.                                                        *)

Subscriptions == [device : Devices, space : Spaces, user : Agents]

\* The type invariant of the subscriptions, the presence records and the job.
PushTypeOK ==
  /\ belongs \subseteq Agents \X Spaces /\ hands \in [Devices -> Agents \cup {Nobody}]
  /\ browser \subseteq Devices /\ rows \subseteq Subscriptions
  /\ screen \subseteq Agents /\ presence \subseteq Agents /\ now \in Modes
  /\ \A r \in reports : r.user \in Agents /\ r.open \in BOOLEAN
  /\ job.at \in {"queued", "asking", "posting", "done"} /\ job.reason \in Reasons
  /\ job.left \subseteq Subscriptions /\ job.tries <= MaxAttempts
  /\ shown \in [Devices -> Nat] /\ slips \in BOOLEAN

\* Short of a crash and of a push service's answer that is lost, no device shows one occasion
\* twice: a try that reached any device is the last ("a second pass would buzz it twice",
\* push.ts), whoever takes a device over in between.
OneBuzzPerOccasion == ~slips => \A d \in Devices : shown[d] <= 1

\* A device somebody turned on is theirs ("becomes theirs rather than notifying both").  Only
\* in that workspace: the one before them stays told of others.
DevicesAreTheirHolders ==
  \A r, o \in rows : r.device = o.device /\ hands[r.device] = r.user => o.user = r.user

\* Signing out silences a device ("deletes the device's rows everywhere").  Not when the
\* session has expired, or the server could not be reached.
SignedOutIsSilent == \A r \in rows : hands[r.device] # Nobody

\* Somebody left out has the conversation on screen, or a report of theirs is on its way
\* ("losing it means one notification too many, nothing worse", ws.ts).  A report that is lost
\* or overtaken leaves out somebody who has turned away, until it expires.
OnlyReadersAreLeftOut ==
  \A p \in presence : p \in screen \/ \E r \in reports : r.user = p
=============================================================================
