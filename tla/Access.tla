------------------------------- MODULE Access -------------------------------
(***************************************************************************)
(* Who may come in: the single-use links of a workspace (an invitation, a  *)
(* password reset, the proof of who a customer is) and the people who      *)
(* administer it and the installation.  A link is minted in two statements *)
(* (the earlier one spent, the new one inserted), read without being spent,*)
(* and spent by one statement that checks it; what it opens may be further *)
(* statements.  Changes of roles lock every admin's row first.             *)
(***************************************************************************)
EXTENDS Naturals, FiniteSets

CONSTANTS
  People,     \* accounts there are or may be
  Customers,  \* customers who may be asked to prove who they are
  Roles,      \* of a member, "admin" among them
  MaxLinks,   \* bound: links ever minted
  MaxChanges, \* bound: changes of roles and of reach asked for
  MaxRequests \* bound: requests under way at once

ASSUME AccessAssumption ==
  /\ People \cap Customers = {} /\ "admin" \in Roles /\ "none" \notin Roles
  /\ MaxLinks \in Nat /\ MaxChanges \in Nat /\ MaxRequests \in Nat

VARIABLES
  members,   \* the role of each of People in this workspace, or "none"
  elsewhere, \* who is a member of another one
  platform,  \* platform_admins
  accounts,  \* people with an account
  links,     \* workspace_invitations and identity_verifications
  minting,   \* requests for a link under way
  visits,    \* requests made with one
  changes,   \* changes of a role, or removals, under way
  asked,     \* changes asked for so far
  confirmed  \* what each link's confirmation left: message, delivery, turn

access == <<members, elsewhere, platform, accounts, links, minting, visits, changes, asked, confirmed>>

LinkIds == 1 .. MaxLinks
Purposes == {"invite", "reset", "verify"}
NoLink == [state |-> "none", purpose |-> "invite", who |-> CHOOSE p \in People : TRUE,
           role |-> "none", scope |-> "workspace", opened |-> 0]

Admins(body) == IF body = "here" THEN {p \in People : members[p] = "admin"} ELSE platform
\* Somebody whose account opens more than this workspace (accountReach).
ReachesFurther(p) == p \in elsewhere \/ p \in platform
Live(l) == links[l].state = "live"
Room == Cardinality(minting) + Cardinality(visits) + Cardinality(changes) < MaxRequests
Asked == asked < MaxChanges /\ asked' = asked + 1

\* A workspace with one member, who also runs the installation.
AccessInit ==
  \E first \in People :
    /\ members \in {f \in [People -> Roles \cup {"none"}] : f[first] = "admin"}
    /\ platform = {first} /\ accounts = {p \in People : members[p] # "none"}
    /\ elsewhere = {}
    /\ links = [l \in LinkIds |-> NoLink]
    /\ minting = {} /\ visits = {} /\ changes = {} /\ asked = 0
    /\ confirmed = [l \in LinkIds |-> {}]

-----------------------------------------------------------------------------
(* Minting a link.                                                          *)

Ask(purpose, who, role, scope) ==
  /\ Room
  /\ minting' = minting \cup {[at |-> "checked", purpose |-> purpose, who |-> who,
                               role |-> role, scope |-> scope]}
  /\ UNCHANGED <<members, elsewhere, platform, accounts, links, visits, changes, asked, confirmed>>

\* An admin invites somebody who is not a member, or a platform admin the first of a tenant.
Invite(p, role) == members[p] = "none" /\ Ask("invite", p, role, "workspace")
\* An admin resets a member whose account reaches this workspace alone, a platform admin
\* any account that belongs to one.
ResetMember(p) == members[p] # "none" /\ ~ReachesFurther(p) /\ Ask("reset", p, "none", "workspace")
ResetAccount(p) == (members[p] # "none" \/ p \in elsewhere) /\ Ask("reset", p, "none", "platform")
\* An agent, or the AI's turn, asks a customer in a chat of their own to prove who they are.
AskForProof(c) == Ask("verify", c, "none", "workspace")

SpendEarlier(m) ==
  /\ m.at = "checked"
  /\ minting' = (minting \ {m}) \cup {[m EXCEPT !.at = "spent"]}
  /\ links' = [l \in LinkIds |->
       IF Live(l) /\ links[l].purpose = m.purpose /\ links[l].who = m.who
       THEN [links[l] EXCEPT !.state = "dead"] ELSE links[l]]
  /\ UNCHANGED <<members, elsewhere, platform, accounts, visits, changes, asked, confirmed>>

InsertLink(m) ==
  /\ m.at = "spent"
  /\ minting' = minting \ {m}
  /\ \E l \in LinkIds :
       /\ links[l].state = "none" /\ \A k \in 1 .. (l - 1) : links[k].state # "none"
       /\ links' = [links EXCEPT ![l] = [state |-> "live", purpose |-> m.purpose, who |-> m.who,
                                         role |-> m.role, scope |-> m.scope, opened |-> 0]]
  /\ UNCHANGED <<members, elsewhere, platform, accounts, visits, changes, asked, confirmed>>

\* The API dies, or the database refuses it.
AbandonMinting(m) ==
  /\ minting' = minting \ {m}
  /\ UNCHANGED <<members, elsewhere, platform, accounts, links, visits, changes, asked, confirmed>>

RevokeLink(l) ==
  /\ Live(l) /\ links[l].purpose = "invite"
  /\ links' = [links EXCEPT ![l].state = "dead"]
  /\ UNCHANGED <<members, elsewhere, platform, accounts, minting, visits, changes, asked, confirmed>>

ExpireLink(l) ==
  /\ Live(l)
  /\ links' = [links EXCEPT ![l].state = "dead"]
  /\ UNCHANGED <<members, elsewhere, platform, accounts, minting, visits, changes, asked, confirmed>>

-----------------------------------------------------------------------------
(* Using one.                                                               *)

Visit(v, at) == visits' = (visits \ {v}) \cup {[v EXCEPT !.at = at]}
EndVisit(v) == visits' = visits \ {v}
Spend(l, opens) == links' = [links EXCEPT ![l].state = "spent", ![l].opened = @ + opens]

\* findInvitation and findVerificationCode read a live link and spend nothing; two requests
\* may come with the same one, n telling them apart.  Whoever was asked to prove who they
\* are also brings a token the tenant signed: without it the visit is over and the link
\* still good.
FindLink(l, n) ==
  /\ Live(l) /\ Room
  /\ visits' = visits \cup {[link |-> l, n |-> n, at |-> "found"]}
  /\ UNCHANGED <<members, elsewhere, platform, accounts, links, minting, changes, asked, confirmed>>

\* A new account is made before the link is spent, so that a refused password burns nothing.
SignUp(v) ==
  /\ v.at = "found" /\ links[v.link].purpose = "invite"
  /\ links[v.link].who \notin accounts
  /\ accounts' = accounts \cup {links[v.link].who}
  /\ UNCHANGED <<members, elsewhere, platform, links, minting, visits, changes, asked, confirmed>>

\* claim: the link is spent and the membership made in one transaction, or neither.
Claim(v) ==
  /\ v.at = "found" /\ links[v.link].purpose = "invite"
  /\ links[v.link].who \in accounts
  /\ IF Live(v.link)
     THEN LET l == links[v.link]
          IN /\ Spend(v.link, 1)
             /\ members' = [members EXCEPT ![l.who] = IF @ = "none" THEN l.role ELSE @]
     ELSE UNCHANGED <<links, members>>
  /\ EndVisit(v)
  /\ UNCHANGED <<elsewhere, platform, accounts, minting, changes, asked, confirmed>>

\* The authority of whoever issued a reset is asked again ...
CheckAuthority(v) ==
  /\ v.at = "found" /\ links[v.link].purpose = "reset"
  /\ LET l == links[v.link]
     IN IF l.scope = "platform" \/ (members[l.who] # "none" /\ ~ReachesFurther(l.who))
        THEN Visit(v, "allowed") ELSE EndVisit(v)
  /\ UNCHANGED <<members, elsewhere, platform, accounts, links, minting, changes, asked, confirmed>>

\* ... before its link is spent, or a proof's; only the one that spends it goes on.
Consume(v) ==
  /\ v.at = (IF links[v.link].purpose = "verify" THEN "found" ELSE "allowed")
  /\ links[v.link].purpose # "invite"
  /\ IF Live(v.link)
     THEN Spend(v.link, 0) /\ Visit(v, "spent")
     ELSE EndVisit(v) /\ UNCHANGED links
  /\ UNCHANGED <<members, elsewhere, platform, accounts, minting, changes, asked, confirmed>>

\* setPassword; the identity is recorded as the one the tenant vouched for.
OpenUp(v) ==
  /\ v.at = "spent"
  /\ links' = [links EXCEPT ![v.link].opened = @ + 1]
  /\ IF links[v.link].purpose = "verify" THEN Visit(v, "proven") ELSE EndVisit(v)
  /\ UNCHANGED <<members, elsewhere, platform, accounts, minting, changes, asked, confirmed>>

\* The confirmation is stored, its delivery promised, and a turn promised if the AI owns the
\* conversation, in that order and each in a statement of its own.
Confirm(v) ==
  /\ v.at = "proven"
  /\ LET done == confirmed[v.link]
     IN \/ /\ "message" \notin done
           /\ confirmed' = [confirmed EXCEPT ![v.link] = {"message"}]
           /\ UNCHANGED visits
        \/ /\ done = {"message"}
           /\ confirmed' = [confirmed EXCEPT ![v.link] = {"message", "delivery"}]
           /\ UNCHANGED visits
        \/ /\ done = {"message", "delivery"}
           /\ confirmed' \in {confirmed, [confirmed EXCEPT ![v.link] = @ \cup {"turn"}]}
           /\ EndVisit(v)
  /\ UNCHANGED <<members, elsewhere, platform, accounts, links, minting, changes, asked>>

\* The page is closed, the token refused, the API dies.
AbandonVisit(v) ==
  /\ EndVisit(v)
  /\ UNCHANGED <<members, elsewhere, platform, accounts, links, minting, changes, asked, confirmed>>

-----------------------------------------------------------------------------
(* Roles, and the reach of an account.                                      *)

\* An admin changes a member's role or removes them; a platform admin revokes one.  What the
\* statement that locks the admins' rows is to lock is fixed when it begins.
AskChange(body, p, to) ==
  /\ Asked /\ Room
  /\ changes' = changes \cup {[body |-> body, who |-> p, to |-> to, at |-> "asked",
                               rows |-> Admins(body)]}
  /\ UNCHANGED <<members, elsewhere, platform, accounts, links, minting, visits, confirmed>>

ChangeMember(p, to) == members[p] # "none" /\ to # members[p] /\ AskChange("here", p, to)
RevokePlatformAdmin(p) == p \in platform /\ AskChange("platform", p, "none")

HeldBy(c, rows) == c.at = "locked" /\ c.rows \cap rows # {}

(* A slip: the admins are read without a lock. *)
FreeAnyway(c, rows) == TRUE

FreeFor(c, rows) == \A d \in changes \ {c} : d.body = c.body => ~HeldBy(d, rows)
Drop(c) == changes' = changes \ {c}

\* wouldStrandWorkspace: the rows are locked once nobody else holds one of them, those that
\* are no admin's any more are left out, and the last one may not go.
LockAdmins(c) ==
  /\ c.at = "asked" /\ c.to # "admin"
  /\ FreeFor(c, c.rows)
  /\ LET admins == c.rows \cap Admins(c.body)
     IN IF admins = {c.who}
        THEN Drop(c)
        ELSE changes' = (changes \ {c}) \cup {[c EXCEPT !.at = "locked", !.rows = admins]}
  /\ UNCHANGED <<members, elsewhere, platform, accounts, links, minting, visits, asked, confirmed>>

\* The update or the delete, in the same transaction; there may be no such row any more.
Change(c) ==
  /\ c.at = (IF c.to = "admin" THEN "asked" ELSE "locked")
  /\ FreeFor(c, {c.who})
  /\ IF c.body = "here"
     THEN /\ members' = [members EXCEPT ![c.who] = IF @ = "none" THEN @ ELSE c.to]
          /\ UNCHANGED platform
     ELSE platform' = platform \ {c.who} /\ UNCHANGED members
  /\ Drop(c)
  /\ UNCHANGED <<elsewhere, accounts, links, minting, visits, asked, confirmed>>

AbandonChange(c) ==
  /\ Drop(c)
  /\ UNCHANGED <<members, elsewhere, platform, accounts, links, minting, visits, asked, confirmed>>

GrantPlatformAdmin(p) ==
  /\ p \in accounts \ platform /\ Asked
  /\ platform' = platform \cup {p}
  /\ UNCHANGED <<members, elsewhere, accounts, links, minting, visits, changes, confirmed>>

\* Another workspace takes them in, or lets them go.
JoinElsewhere(p) ==
  /\ p \in accounts \ elsewhere /\ Asked
  /\ elsewhere' = elsewhere \cup {p}
  /\ UNCHANGED <<members, platform, accounts, links, minting, visits, changes, confirmed>>

VisitStep(v) ==
  \/ SignUp(v) \/ Claim(v) \/ CheckAuthority(v) \/ Consume(v) \/ OpenUp(v) \/ Confirm(v)
  \/ AbandonVisit(v)
ChangeStep(c) == LockAdmins(c) \/ Change(c) \/ AbandonChange(c)

AccessNext ==
  \/ \E p \in People : \/ \E role \in Roles : Invite(p, role)
                       \/ ResetMember(p) \/ ResetAccount(p)
                       \/ \E to \in Roles \cup {"none"} : ChangeMember(p, to)
                       \/ RevokePlatformAdmin(p) \/ GrantPlatformAdmin(p) \/ JoinElsewhere(p)
  \/ \E c \in Customers : AskForProof(c)
  \/ \E m \in minting : SpendEarlier(m) \/ InsertLink(m) \/ AbandonMinting(m)
  \/ \E l \in LinkIds : RevokeLink(l) \/ ExpireLink(l) \/ \E n \in 1 .. 2 : FindLink(l, n)
  \/ \E v \in visits : VisitStep(v)
  \/ \E c \in changes : ChangeStep(c)

AccessSpec == AccessInit /\ [][AccessNext]_access

-----------------------------------------------------------------------------
(* Every row and every request holds what its type allows.                  *)
AccessTypeOK ==
  /\ members \in [People -> Roles \cup {"none"}]
  /\ elsewhere \subseteq People /\ platform \subseteq People /\ accounts \subseteq People
  /\ links \in [LinkIds ->
       [state : {"none", "live", "dead", "spent"}, purpose : Purposes,
        who : People \cup Customers, role : Roles \cup {"none"},
        scope : {"workspace", "platform"}, opened : Nat]]
  /\ minting \subseteq [at : {"checked", "spent"}, purpose : Purposes, who : People \cup Customers,
                        role : Roles \cup {"none"}, scope : {"workspace", "platform"}]
  /\ visits \subseteq [link : LinkIds, n : 1 .. 2, at : {"found", "allowed", "spent", "proven"}]
  /\ changes \subseteq [body : {"here", "platform"}, who : People, to : Roles \cup {"none"},
                        at : {"asked", "locked"}, rows : SUBSET People]
  /\ asked \in 0 .. MaxChanges
  /\ confirmed \in [LinkIds -> SUBSET {"message", "delivery", "turn"}]

(* Two admins who demote, remove or revoke each other at the same moment    *)
(* never leave the workspace, or the installation, with none (the lock of   *)
(* wouldStrandWorkspace): whoever changes one has locked another, unless    *)
(* all that it was to lock had gone by then and it locked nobody.           *)
AnAdminRemains ==
  [][\A body \in {"here", "platform"} : Admins(body) # {} =>
       \/ Admins(body)' # {}
       \/ \E c \in changes : c \notin changes' /\ c.body = body /\ c.rows = {}]_access

(* So that none is left when the only one is somebody who was made an admin *)
(* after the rows to lock were chosen.  The code does not keep this: they   *)
(* are chosen by a statement that does not see them (admin.ts:55-61).       *)
AnAdminAlwaysRemains ==
  [][\A body \in {"here", "platform"} : Admins(body) # {} => Admins(body)' # {}]_access

(* However many requests come with a link, it opens what it opens once; and *)
(* a spent invitation has let somebody in.                                  *)
LinksOpenOnce ==
  \A l \in LinkIds :
    /\ links[l].opened <= 1
    /\ links[l].state = "spent" /\ links[l].purpose = "invite" => links[l].opened = 1

(* Minting a link stops any earlier one for the same person and purpose     *)
(* (invitations.ts, identity.ts): two are never good at once.               *)
OneLiveLink ==
  \A k, l \in LinkIds :
    Live(k) /\ Live(l) /\ links[k].purpose = links[l].purpose /\ links[k].who = links[l].who => k = l

(* A workspace's admin sets the password of no account that reaches further *)
(* (routes/invitations.ts).                                                 *)
ResetsStayWithinAuthority ==
  [][\A v \in visits : v.at = "spent" /\ v \notin visits' /\ links' # links
       /\ links[v.link].purpose = "reset" /\ links[v.link].scope = "workspace"
       => ~ReachesFurther(links[v.link].who)]_access
=============================================================================
