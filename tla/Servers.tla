------------------------------ MODULE Servers ------------------------------
(***************************************************************************)
(* A workspace's MCP server: the sign-in its row holds, the turns that use *)
(* and refresh it, the tools an admin approved from what the server listed,*)
(* and the authorization server that issues the tokens (external).         *)
(*                                                                         *)
(* A refresh happens under the row's lock (oauthHeaders); every change an  *)
(* admin's sign-in makes is merged into the row under the same lock        *)
(* (persister); marks of the status, the console's patches and the lists   *)
(* fetched from the server are plain updates that wait for it.  The error   *)
(* text its card shows (last_error) is left out.                            *)
(***************************************************************************)
EXTENDS Naturals, FiniteSets

CONSTANTS
  Callers,    \* turns that may use the server, and fetches of its list of tools
  Fetches,    \* those of Callers that are such fetches
  Names,      \* names its tools have
  MaxTokens,  \* bound: tokens ever issued
  MaxSignIns, \* bound: sign-ins ever started
  MaxUrls,    \* bound: addresses the server has had
  MaxLists,   \* bound: times a server changes what it lists
  MaxFaults   \* bound: calls that are lost and processes that die

ASSUME ServersAssumption ==
  /\ Fetches \subseteq Callers
  /\ {MaxTokens, MaxSignIns, MaxUrls, MaxLists, MaxFaults} \subseteq Nat

VARIABLES
  server,   \* the row of mcp_servers, or Gone
  holder,   \* the caller whose refresh holds the row's lock, or a singleton of none
  caller,   \* where each caller is, and what it has read
  patch,    \* the row a save of the card has read, before it writes
  leaving,  \* what a sign-out or a deletion has still to do
  signins,  \* sign-ins whose person is at the server's page or on the way back
  issuer,   \* what the authorization server has issued, accepts and refuses
  lists,    \* what the server at each address offers now
  relisted, \* times that has changed
  faults

servers == <<server, holder, caller, patch, leaving, signins, issuer, lists, relisted, faults>>
\* What only the other side changes, and what only the console does.
others == <<lists, relisted>>
console == <<patch, leaving, signins>>

Tokens == 1 .. MaxTokens
Urls == 1 .. MaxUrls
Effects == {"read", "write"}
NoToken == [access |-> 0, refresh |-> 0]
Away == [at |-> "away", access |-> 0, refresh |-> 0, rejected |-> 0, url |-> 0, approved |-> {}]
Entry == [name : Names, effect : Effects, url : Urls]
\* A list of tools: what a server says of each name, or an admin chooses for it.
Lists == {l \in SUBSET [name : Names, effect : Effects] : \A t, u \in l : t.name = u.name => t = u}

Gone == [there |-> FALSE, ok |-> FALSE, access |-> 0, refresh |-> 0, verifier |-> 0,
         url |-> 0, snapshot |-> {}, allowed |-> {}]
NoPatch == [open |-> FALSE, snapshot |-> {}, url |-> 0]

\* A server that is registered, and signed in to or not; what is counted has begun anywhere.
ServersInit ==
  /\ \E u \in Urls, n \in 0 .. MaxTokens, k \in 0 .. MaxSignIns :
       /\ server = [Gone EXCEPT !.there = TRUE, !.ok = TRUE, !.url = u, !.access = n, !.refresh = n]
       /\ issuer = [issued |-> n, started |-> k, accepts |-> {n} \ {0}, spent |-> {},
                    unheard |-> {}, expiring |-> {}]
  /\ holder = {}
  /\ caller = [c \in Callers |-> Away]
  /\ patch = NoPatch /\ leaving = {}
  /\ signins = {}
  /\ lists = [u \in Urls |-> [name : Names, effect : {"read"}]]
  /\ relisted \in 0 .. MaxLists /\ faults \in 0 .. MaxFaults

(* A slip: nobody waits for the lock. *)
UnlockedAlways == TRUE

Unlocked == holder = {}
Fault == faults < MaxFaults /\ faults' = faults + 1
\* A token about to expire, or one the server has refused, is stale (isStale).
Stale(access, rejected) == access \in issuer.expiring \/ access = rejected
Go(c, at) == caller' = [caller EXCEPT ![c].at = at]
\* The call is over, or the turn goes on without the server.
LeaveOut(c) == caller' = [caller EXCEPT ![c] = Away]
\* An UPDATE of a row that is gone changes nothing.
Update(row) == server' = IF server.there THEN row ELSE server

-----------------------------------------------------------------------------
(* A caller: oauthHeaders, then the call.                                   *)

\* The row is read without a lock.  No sign-in to use, or one that an admin has to renew,
\* and the caller goes without the server.
Peek(c, rejected) ==
  LET seen == [caller[c] EXCEPT !.rejected = rejected, !.access = server.access]
  IN caller' = [caller EXCEPT ![c] =
       IF ~server.there \/ ~server.ok \/ server.access = 0 THEN Away
       ELSE IF Stale(server.access, rejected) THEN [seen EXCEPT !.at = "stale"]
       ELSE [seen EXCEPT !.at = "ready"]]

\* A turn loads the servers it may use; a fetch has read the row before it asks for headers.
Begin(c) ==
  /\ caller[c].at = "away"
  /\ c \in Fetches \/ server.allowed # {}
  /\ IF c \in Fetches
     THEN /\ server.there
          /\ caller' = [caller EXCEPT ![c] = [Away EXCEPT !.at = "read", !.url = server.url,
                                                         !.approved = server.allowed]]
     ELSE Peek(c, 0)
  /\ UNCHANGED <<server, holder, console, issuer, others, faults>>

AskForHeaders(c) ==
  /\ caller[c].at = "read"
  /\ Peek(c, 0)
  /\ UNCHANGED <<server, holder, console, issuer, others, faults>>

\* The lock is taken, and the row read again: another caller may have refreshed it.
Lock(c) ==
  /\ caller[c].at = "stale" /\ Unlocked
  /\ IF ~server.there \/ ~server.ok \/ server.access = 0
     THEN /\ LeaveOut(c)
          /\ UNCHANGED holder
     ELSE IF ~Stale(server.access, caller[c].rejected)
     THEN /\ caller' = [caller EXCEPT ![c].at = "ready", ![c].access = server.access]
          /\ UNCHANGED holder
     ELSE IF server.refresh = 0
     THEN Go(c, "lost") /\ UNCHANGED holder
     ELSE /\ caller' = [caller EXCEPT ![c].at = "refreshing", ![c].refresh = server.refresh]
          /\ holder' = {c}
  /\ UNCHANGED <<server, console, issuer, others, faults>>

\* Five seconds go by at somebody else's lock.
LockTimesOut(c) ==
  /\ caller[c].at = "stale" /\ ~Unlocked
  /\ LeaveOut(c)
  /\ UNCHANGED <<server, holder, console, issuer, others, faults>>

\* What the authorization server does with a refresh token: good ones are exchanged, and
\* replaced by a new one where it rotates them.
Exchange(r, n, rotates) ==
  issuer' = [issuer EXCEPT !.issued = n,
               !.accepts = IF rotates THEN (@ \ {r}) \cup {n} ELSE @,
               !.spent = IF rotates THEN @ \cup {r} ELSE @]

\* It answers: new tokens, a refusal that only an admin can fix, or an error.
Refresh(c) ==
  /\ caller[c].at = "refreshing"
  /\ \/ /\ caller[c].refresh \in issuer.accepts /\ issuer.issued < MaxTokens
        /\ \E rotates \in BOOLEAN :
             /\ Exchange(caller[c].refresh, issuer.issued + 1, rotates)
             /\ caller' = [caller EXCEPT ![c].at = "refreshed", ![c].access = issuer.issued + 1,
                             ![c].refresh = IF rotates THEN issuer.issued + 1 ELSE @]
        /\ UNCHANGED <<holder, faults>>
     \/ /\ caller[c].refresh \notin issuer.accepts
        /\ Go(c, "lost") /\ holder' = {}
        /\ UNCHANGED <<issuer, faults>>
     \/ /\ Fault
        /\ LeaveOut(c) /\ holder' = {}
        /\ UNCHANGED issuer
  /\ UNCHANGED <<server, console, others>>

\* The tokens are merged into the row and the transaction commits.
SaveRefreshed(c) ==
  /\ caller[c].at = "refreshed"
  /\ Update([server EXCEPT !.access = caller[c].access, !.refresh = caller[c].refresh,
                           !.verifier = 0])
  /\ holder' = {}
  /\ Go(c, "ready")
  /\ UNCHANGED <<console, issuer, others, faults>>

\* The answer is lost on its way, or the commit fails: the token was spent for nothing.
LoseAnswer(c) ==
  /\ caller[c].at = "refreshed" /\ Fault
  /\ issuer' = [issuer EXCEPT !.unheard = @ \cup {server.refresh}]
  /\ holder' = {}
  /\ LeaveOut(c)
  /\ UNCHANGED <<server, console, others>>

\* The refusal is marked on the row outside the transaction that met it.
MarkLost(c) ==
  /\ caller[c].at = "lost" /\ Unlocked
  /\ Update([server EXCEPT !.ok = FALSE])
  /\ LeaveOut(c)
  /\ UNCHANGED <<holder, console, issuer, others, faults>>

\* The turn's call: done, or a 401, which may come before the expiry that was stored and is
\* worth one forced refresh.
Call(c) ==
  /\ caller[c].at = "ready" /\ c \notin Fetches
  /\ \/ LeaveOut(c)
     \/ /\ caller[c].rejected = 0
        /\ Peek(c, caller[c].access)
  /\ UNCHANGED <<server, holder, console, issuer, others, faults>>

\* The fetch's: the list of the address it read, and what was allowed then and still holds.
StoreTools(c) ==
  /\ caller[c].at = "ready" /\ c \in Fetches /\ Unlocked
  /\ LET listed == lists[caller[c].url]
     IN Update([server EXCEPT
          !.snapshot = {[name |-> l.name, effect |-> l.effect, url |-> caller[c].url] : l \in listed},
          !.allowed = {e \in caller[c].approved :
                         \E l \in listed : l.name = e.name /\ (e.effect = "read" => l.effect = "read")}])
  /\ LeaveOut(c)
  /\ UNCHANGED <<holder, console, issuer, others, faults>>

-----------------------------------------------------------------------------
(* An admin at the console.                                                 *)

\* The server is registered with if need be, and the verifier of this sign-in stored.
StartSignIn ==
  /\ server.there /\ Unlocked
  /\ issuer.started < MaxSignIns
  /\ issuer' = [issuer EXCEPT !.started = @ + 1]
  /\ Update([server EXCEPT !.verifier = issuer'.started])
  /\ signins' = signins \cup {[at |-> "page", challenge |-> issuer'.started, verifier |-> 0,
                               tokens |-> 0]}
  /\ UNCHANGED <<holder, caller, patch, leaving, others, faults>>

SignInStep(s, t) == signins' = (signins \ {s}) \cup {t}

\* The callback has checked who is back, and reads the verifier that is stored now.
ComeBack(s) ==
  /\ s.at = "page"
  /\ IF server.there /\ server.verifier # 0
     THEN SignInStep(s, [s EXCEPT !.at = "back", !.verifier = server.verifier])
     ELSE signins' = signins \ {s}
  /\ UNCHANGED <<server, holder, caller, patch, leaving, issuer, others, faults>>

\* The code is swapped for tokens, one to refresh them not always among them, if it was asked
\* for with this verifier.
SwapCode(s) ==
  /\ s.at = "back"
  /\ IF s.verifier = s.challenge
     THEN /\ issuer.issued < MaxTokens
          /\ issuer' = [issuer EXCEPT !.issued = @ + 1, !.accepts = @ \cup {issuer.issued + 1}]
          /\ SignInStep(s, [s EXCEPT !.at = "swapped", !.tokens = issuer.issued + 1])
     ELSE signins' = signins \ {s} /\ UNCHANGED issuer
  /\ UNCHANGED <<server, holder, caller, patch, leaving, others, faults>>

SaveTokens(s) ==
  /\ s.at = "swapped" /\ Unlocked
  /\ \E refresh \in {0, s.tokens} :
       Update([server EXCEPT !.access = s.tokens, !.refresh = refresh, !.verifier = 0])
  /\ SignInStep(s, [s EXCEPT !.at = "saved"])
  /\ UNCHANGED <<holder, caller, patch, leaving, issuer, others, faults>>

MarkSignedIn(s) ==
  /\ s.at = "saved" /\ Unlocked
  /\ Update([server EXCEPT !.ok = TRUE])
  /\ signins' = signins \ {s}
  /\ UNCHANGED <<holder, caller, patch, leaving, issuer, others, faults>>

\* They close the page, or the API dies on the way.
AbandonSignIn(s) ==
  /\ signins' = signins \ {s}
  /\ UNCHANGED <<server, holder, caller, patch, leaving, issuer, others, faults>>

\* Signing out, and deleting the server: what the row holds is revoked at the issuer, as far
\* as it can be, the row forgets it, and is deleted.
RevokeStored ==
  /\ server.there /\ leaving = {}
  /\ issuer' = [issuer EXCEPT !.accepts = @ \ {server.refresh}]
  /\ leaving' \in {{"forget"}, {"forget", "delete"}}
  /\ UNCHANGED <<server, holder, caller, patch, signins, others, faults>>

ForgetSignIn ==
  /\ "forget" \in leaving /\ Unlocked
  /\ Update([server EXCEPT !.ok = TRUE, !.access = 0, !.refresh = 0, !.verifier = 0])
  /\ leaving' = leaving \ {"forget"}
  /\ UNCHANGED <<holder, caller, patch, signins, issuer, others, faults>>

DeleteServer ==
  /\ leaving = {"delete"} /\ Unlocked
  /\ server' = Gone
  /\ leaving' = {}
  /\ UNCHANGED <<holder, caller, patch, signins, issuer, others, faults>>

\* The card is saved: the row is read first.
ReadForPatch ==
  /\ server.there /\ ~patch.open
  /\ patch' = [open |-> TRUE, snapshot |-> server.snapshot, url |-> server.url]
  /\ UNCHANGED <<server, holder, caller, leaving, signins, issuer, others, faults>>

\* The tools ticked in it: names of the list that was read, and only as a write where the
\* server itself says a tool changes things.
Approve ==
  /\ patch.open /\ Unlocked
  /\ patch' = NoPatch
  /\ \E chosen \in Lists :
       /\ \A t \in chosen : \E l \in patch.snapshot :
            l.name = t.name /\ (t.effect = "read" => l.effect = "read")
       /\ Update([server EXCEPT !.allowed =
            {[name |-> t.name, effect |-> t.effect, url |-> patch.url] : t \in chosen}])
  /\ UNCHANGED <<holder, caller, leaving, signins, issuer, others, faults>>

\* Another address is another list: nothing approved for the old one carries over.
ChangeUrl ==
  /\ patch.open /\ Unlocked /\ patch.url < MaxUrls
  /\ patch' = NoPatch
  /\ Update([server EXCEPT !.url = patch.url + 1, !.snapshot = {}, !.allowed = {}])
  /\ UNCHANGED <<holder, caller, leaving, signins, issuer, others, faults>>

-----------------------------------------------------------------------------
(* The other side.                                                          *)

\* An access token nears its end; the issuer withdraws a grant; a server lists otherwise.
NearExpiry(a) ==
  /\ a = server.access /\ a \notin issuer.expiring
  /\ issuer' = [issuer EXCEPT !.expiring = {a}]
  /\ UNCHANGED <<server, holder, caller, console, others, faults>>

Withdraw ==
  /\ Fault
  /\ issuer' = [issuer EXCEPT !.accepts = {}]
  /\ UNCHANGED <<server, holder, caller, console, others>>

ListOtherwise(u) ==
  /\ relisted < MaxLists
  /\ relisted' = relisted + 1
  /\ \E l \in Lists : lists' = [lists EXCEPT ![u] = l]
  /\ UNCHANGED <<server, holder, caller, console, issuer, faults>>

CallerStep(c) ==
  \/ Begin(c) \/ AskForHeaders(c) \/ Lock(c) \/ LockTimesOut(c) \/ Refresh(c) \/ SaveRefreshed(c)
  \/ LoseAnswer(c) \/ MarkLost(c) \/ Call(c) \/ StoreTools(c)

ServersNext ==
  \/ \E c \in Callers : CallerStep(c)
  \/ \E s \in signins : \/ ComeBack(s) \/ SwapCode(s) \/ SaveTokens(s) \/ MarkSignedIn(s)
                        \/ AbandonSignIn(s)
  \/ StartSignIn \/ RevokeStored \/ ForgetSignIn \/ DeleteServer
  \/ ReadForPatch \/ Approve \/ ChangeUrl
  \/ \E a \in Tokens : NearExpiry(a)
  \/ Withdraw \/ \E u \in Urls : ListOtherwise(u)

ServersSpec == ServersInit /\ [][ServersNext]_servers

-----------------------------------------------------------------------------
ServersTypeOK ==
  /\ server.access \in 0 .. MaxTokens /\ server.refresh \in 0 .. MaxTokens
  /\ server.verifier \in 0 .. MaxSignIns /\ server.url \in 0 .. MaxUrls
  /\ server.snapshot \subseteq Entry /\ server.allowed \subseteq Entry
  /\ {server.there, server.ok} \subseteq BOOLEAN
  /\ leaving \subseteq {"forget", "delete"}
  /\ patch \in [open : BOOLEAN, snapshot : SUBSET Entry, url : 0 .. MaxUrls]
  /\ holder \subseteq Callers /\ Cardinality(holder) <= 1
  /\ caller \in [Callers ->
       [at : {"away", "read", "stale", "refreshing", "refreshed", "lost", "ready"},
        access : 0 .. MaxTokens, refresh : 0 .. MaxTokens, rejected : 0 .. MaxTokens,
        url : 0 .. MaxUrls, approved : SUBSET Entry]]
  /\ signins \subseteq [at : {"page", "back", "swapped", "saved"}, challenge : 1 .. MaxSignIns,
                        verifier : 0 .. MaxSignIns, tokens : 0 .. MaxTokens]
  /\ issuer.accepts \subseteq Tokens /\ issuer.spent \subseteq Tokens

(* Two turns never both spend a single-use refresh token: whoever is about  *)
(* to spend one finds it unspent, unless an answer was lost on its way.     *)
RefreshTokensAreSpentOnce ==
  \A c \in Callers : caller[c].at = "refreshing" =>
    caller[c].refresh \notin issuer.spent \ issuer.unheard

(* A server is marked as needing an admin only when its sign-in is refused. *)
ReconnectOnlyWhenRefused ==
  [][server'.there /\ server.ok /\ ~server'.ok =>
       server.refresh = 0 \/ server.refresh \notin issuer.accepts]_servers

(* Another server is another list: nothing approved for the old address     *)
(* carries over (routes/mcp.ts).                                            *)
ApprovedHere == \A e \in server.allowed : e.url = server.url
=============================================================================
