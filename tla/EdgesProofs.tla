---------------------------- MODULE EdgesProofs -----------------------------
(***************************************************************************)
(* What holds of the parts of MCEdges for any number of accounts, admins,  *)
(* settings, callers, tokens, devices, pages, tools and requests: a        *)
(* workspace keeps an admin, a save replaces only what its admin saw, a    *)
(* refresh token is spent once, a device shows an occasion once, a reply   *)
(* keeps its word, and what an admin chose stays chosen.                   *)
(***************************************************************************)
EXTENDS MCEdges, SequenceTheorems, FiniteSetTheorems, TLAPS


-----------------------------------------------------------------------------
(* Who administers what.                                                    *)

(* What a change that holds locks knows: it takes somebody's role away, the *)
(* rows it holds are still admins', and one of them is of somebody else.    *)
Guards(c) ==
  /\ c.to # "admin"
  /\ c.rows \subseteq Admins(c.body)
  /\ c.rows # {} => \E w \in c.rows : w # c.who

Guarded ==
  /\ \A c \in changes : c.at = "locked" => Guards(c)
  /\ \A c \in changes : c.to = "admin" => c.body = "here"
  /\ \A c, d \in changes : c # d /\ c.at = "locked" /\ d.at = "locked" /\ c.body = d.body =>
       c.rows \cap d.rows = {}

LinkRows == [state : {"none", "live", "dead", "spent"}, purpose : Purposes,
             who : People \cup Customers, role : Roles \cup {"none"},
             scope : {"workspace", "platform"}, opened : Nat]
MintRows == [at : {"checked", "spent"}, purpose : Purposes, who : People \cup Customers,
             role : Roles \cup {"none"}, scope : {"workspace", "platform"}]
LinkTypes == {l \in LinkRows : l.purpose = "invite" => l.who \in People}
MintTypes == {m \in MintRows : m.purpose = "invite" => m.who \in People}
VisitTypes == [link : LinkIds, n : 1 .. 2, at : {"found", "allowed", "spent", "proven"}]
ChangeTypes == [body : {"here", "platform"}, who : People, to : Roles \cup {"none"},
                at : {"asked", "locked"}, rows : SUBSET People]

(* The type invariant, and that an invitation is a person's.                *)
AccessTyped ==
  /\ members \in [People -> Roles \cup {"none"}]
  /\ elsewhere \subseteq People /\ platform \subseteq People /\ accounts \subseteq People
  /\ links \in [LinkIds -> LinkTypes] /\ minting \subseteq MintTypes
  /\ visits \subseteq VisitTypes /\ changes \subseteq ChangeTypes
  /\ asked \in 0 .. MaxChanges
  /\ confirmed \in [LinkIds -> SUBSET {"message", "delivery", "turn"}]

AccessInv == AccessTyped /\ Guarded

LEMMA TypedIsTypeOK == AccessTyped => AccessTypeOK
BY DEF AccessTypeOK, AccessTyped, LinkTypes, LinkRows, MintTypes, MintRows, VisitTypes, ChangeTypes

LEMMA AccessStarts == AccessInit => AccessInv
<1> SUFFICES ASSUME AccessInit PROVE AccessInv
  OBVIOUS
<1>1. PICK first \in People :
        /\ members \in {f \in [People -> Roles \cup {"none"}] : f[first] = "admin"}
        /\ platform = {first} /\ accounts = {p \in People : members[p] # "none"}
        /\ elsewhere = {}
        /\ links = [l \in LinkIds |-> NoLink]
        /\ minting = {} /\ visits = {} /\ changes = {} /\ asked = 0
        /\ confirmed = [l \in LinkIds |-> {}]
  BY DEF AccessInit
<1>2. (CHOOSE p \in People : TRUE) \in People
  OBVIOUS
<1>3. NoLink \in LinkTypes
  BY <1>2 DEF NoLink, LinkTypes, LinkRows, Purposes
<1>4. AccessTyped
  BY <1>1, <1>3, AccessAssumption DEF AccessTyped
<1>5. Guarded
  BY <1>1 DEF Guarded
<1> QED
  BY <1>4, <1>5 DEF AccessInv

(* A step that leaves the admins and their changes alone keeps the guard.   *)
LEMMA GuardedAside ==
  ASSUME Guarded, UNCHANGED <<members, platform, changes>>
  PROVE  Guarded' 
<1>1. \A c : Guards(c)' = Guards(c)
  BY DEF Guards, Admins
<1> QED
  BY <1>1 DEF Guarded

(* So does one that takes no admin's row away.                              *)
LEMMA GuardedMore ==
  ASSUME Guarded, AccessTyped, changes' \subseteq changes,
         \A body \in {"here", "platform"} : Admins(body) \subseteq Admins(body)'
  PROVE  Guarded'
<1>1. ASSUME NEW c \in changes', c.at = "locked" PROVE Guards(c)'
  <2>1. c \in changes /\ c.body \in {"here", "platform"}
    BY <1>1 DEF AccessTyped, ChangeTypes
  <2>2. Guards(c)
    BY <1>1, <2>1 DEF Guarded
  <2>3. c.rows \subseteq Admins(c.body)'
    BY <2>1, <2>2 DEF Guards
  <2> QED
    BY <2>2, <2>3 DEF Guards
<1> QED
  BY <1>1 DEF Guarded

-----------------------------------------------------------------------------
(* The links.                                                               *)

LEMMA MintingKept ==
  ASSUME AccessTyped, NEW purpose \in Purposes, NEW who \in People \cup Customers,
         NEW role \in Roles \cup {"none"}, NEW scope \in {"workspace", "platform"},
         purpose = "invite" => who \in People, Ask(purpose, who, role, scope)
  PROVE  AccessTyped' /\ UNCHANGED <<members, platform, changes>>
<1>1. [at |-> "checked", purpose |-> purpose, who |-> who, role |-> role, scope |-> scope]
        \in MintTypes
  BY DEF MintTypes, MintRows
<1> QED
  BY <1>1 DEF AccessTyped, Ask

LEMMA LinkRequestsKept ==
  ASSUME AccessTyped,
         \/ \E p \in People : \/ \E role \in Roles : Invite(p, role)
                              \/ ResetMember(p) \/ ResetAccount(p)
         \/ \E c \in Customers : AskForProof(c)
         \/ \E m \in minting : SpendEarlier(m) \/ InsertLink(m) \/ AbandonMinting(m)
         \/ \E l \in LinkIds : RevokeLink(l) \/ ExpireLink(l) \/ \E n \in 1 .. 2 : FindLink(l, n)
  PROVE  AccessTyped' /\ UNCHANGED <<members, platform, changes>>
<1> USE DEF AccessTyped
<1>1. ASSUME NEW p \in People, NEW role \in Roles, Invite(p, role)
      PROVE  AccessTyped' /\ UNCHANGED <<members, platform, changes>>
  BY <1>1, MintingKept DEF Invite, Purposes
<1>2. ASSUME NEW p \in People, ResetMember(p) \/ ResetAccount(p)
      PROVE  AccessTyped' /\ UNCHANGED <<members, platform, changes>>
  BY <1>2, MintingKept DEF ResetMember, ResetAccount, Purposes
<1>3. ASSUME NEW c \in Customers, AskForProof(c)
      PROVE  AccessTyped' /\ UNCHANGED <<members, platform, changes>>
  BY <1>3, MintingKept DEF AskForProof, Purposes
<1>4. ASSUME NEW m \in minting, SpendEarlier(m)
      PROVE  AccessTyped' /\ UNCHANGED <<members, platform, changes>>
  <2>1. [m EXCEPT !.at = "spent"] \in MintTypes
    BY DEF MintTypes, MintRows
  <2>2. ASSUME NEW l \in LinkIds PROVE [links[l] EXCEPT !.state = "dead"] \in LinkTypes
    BY DEF LinkTypes, LinkRows
  <2>3. links' \in [LinkIds -> LinkTypes]
    BY <1>4, <2>2 DEF SpendEarlier
  <2> QED
    BY <1>4, <2>1, <2>3 DEF SpendEarlier
<1>5. ASSUME NEW m \in minting, InsertLink(m)
      PROVE  AccessTyped' /\ UNCHANGED <<members, platform, changes>>
  <2>1. m \in MintTypes
    OBVIOUS
  <2>2. [state |-> "live", purpose |-> m.purpose, who |-> m.who, role |-> m.role,
         scope |-> m.scope, opened |-> 0] \in LinkTypes
    BY <2>1 DEF MintTypes, MintRows, LinkTypes, LinkRows
  <2>3. links' \in [LinkIds -> LinkTypes]
    BY <1>5, <2>2 DEF InsertLink
  <2> QED
    BY <1>5, <2>3 DEF InsertLink
<1>6. ASSUME NEW m \in minting, AbandonMinting(m)
      PROVE  AccessTyped' /\ UNCHANGED <<members, platform, changes>>
  BY <1>6 DEF AbandonMinting
<1>7. ASSUME NEW l \in LinkIds, RevokeLink(l) \/ ExpireLink(l)
      PROVE  AccessTyped' /\ UNCHANGED <<members, platform, changes>>
  <2>1. [links[l] EXCEPT !.state = "dead"] \in LinkTypes
    BY DEF LinkTypes, LinkRows
  <2>2. links' = [links EXCEPT ![l] = [links[l] EXCEPT !.state = "dead"]]
    BY <1>7 DEF RevokeLink, ExpireLink
  <2>3. links' \in [LinkIds -> LinkTypes]
    BY <2>1, <2>2
  <2> QED
    BY <1>7, <2>3 DEF RevokeLink, ExpireLink
<1>8. ASSUME NEW l \in LinkIds, NEW n \in 1 .. 2, FindLink(l, n)
      PROVE  AccessTyped' /\ UNCHANGED <<members, platform, changes>>
  <2>1. [link |-> l, n |-> n, at |-> "found"] \in VisitTypes
    BY DEF VisitTypes
  <2> QED
    BY <1>8, <2>1 DEF FindLink
<1> QED
  BY <1>1, <1>2, <1>3, <1>4, <1>5, <1>6, <1>7, <1>8

(* A use of a link keeps the types, takes no admin's row away, and leaves   *)
(* the changes of roles alone: what it opens is a membership to somebody    *)
(* who has none.                                                            *)
LEMMA VisitKept ==
  ASSUME AccessTyped, NEW v \in visits, VisitStep(v)
  PROVE  /\ AccessTyped' /\ UNCHANGED <<platform, changes>>
         /\ \A p \in People : members[p] # "none" => members'[p] = members[p]
<1> USE DEF AccessTyped
<1>1. v \in VisitTypes /\ v.link \in LinkIds /\ links[v.link] \in LinkTypes
  BY DEF VisitTypes
<1>2. ASSUME NEW at \in {"found", "allowed", "spent", "proven"}, Visit(v, at)
      PROVE  visits' \subseteq VisitTypes
  <2>1. [v EXCEPT !.at = at] \in VisitTypes
    BY <1>1 DEF VisitTypes
  <2> QED
    BY <1>2, <2>1 DEF Visit
<1>3. EndVisit(v) => visits' \subseteq VisitTypes
  BY DEF EndVisit
<1>4. ASSUME NEW opens \in {0, 1}, Spend(v.link, opens) PROVE links' \in [LinkIds -> LinkTypes]
  <2>1. [links[v.link] EXCEPT !.state = "spent", !.opened = @ + opens] \in LinkTypes
    <3>1. links[v.link].opened + opens \in Nat
      BY <1>1, <1>4 DEF LinkTypes, LinkRows
    <3> QED
      BY <1>1, <3>1 DEF LinkTypes, LinkRows
  <2>2. links' = [links EXCEPT ![v.link] = [links[v.link] EXCEPT !.state = "spent",
                                                               !.opened = @ + opens]]
    BY <1>4 DEF Spend
  <2> QED
    BY <2>1, <2>2
<1>5. CASE SignUp(v)
  <2>1. links[v.link].who \in People
    BY <1>5, AccessAssumption, <1>1 DEF SignUp, LinkTypes, LinkRows
  <2> QED
    BY <1>5, <2>1 DEF SignUp
<1>6. CASE Claim(v)
  <2>1. links[v.link].who \in accounts /\ links[v.link].role \in Roles \cup {"none"}
    BY <1>1, <1>6 DEF Claim, LinkTypes, LinkRows
  <2>2. links' \in [LinkIds -> LinkTypes]
    BY <1>4, <1>6 DEF Claim
  <2>3. /\ members' \in [People -> Roles \cup {"none"}]
        /\ \A p \in People : members[p] # "none" => members'[p] = members[p]
    BY <1>6, <2>1 DEF Claim
  <2>4. visits' \subseteq VisitTypes
    BY <1>3, <1>6 DEF Claim
  <2> QED
    BY <1>6, <2>2, <2>3, <2>4 DEF Claim
<1>7. CASE CheckAuthority(v)
  <2>1. visits' \subseteq VisitTypes
    BY <1>2, <1>3, <1>7 DEF CheckAuthority
  <2> QED
    BY <1>7, <2>1 DEF CheckAuthority
<1>8. CASE Consume(v)
  <2>1. visits' \subseteq VisitTypes /\ links' \in [LinkIds -> LinkTypes]
    BY <1>2, <1>3, <1>4, <1>8 DEF Consume
  <2> QED
    BY <1>8, <2>1 DEF Consume
<1>9. CASE OpenUp(v)
  <2>1. visits' \subseteq VisitTypes
    BY <1>2, <1>3, <1>9 DEF OpenUp
  <2>2. [links[v.link] EXCEPT !.opened = @ + 1] \in LinkTypes
    BY <1>1 DEF LinkTypes, LinkRows
  <2>3. links' = [links EXCEPT ![v.link] = [links[v.link] EXCEPT !.opened = @ + 1]]
    BY <1>9 DEF OpenUp
  <2>4. links' \in [LinkIds -> LinkTypes]
    BY <2>2, <2>3
  <2> QED
    BY <1>9, <2>1, <2>4 DEF OpenUp
<1>10. CASE Confirm(v)
  <2>1. visits' \subseteq VisitTypes
    BY <1>3, <1>10 DEF Confirm
  <2>2. confirmed' \in [LinkIds -> SUBSET {"message", "delivery", "turn"}]
    BY <1>1, <1>10 DEF Confirm
  <2> QED
    BY <1>10, <2>1, <2>2 DEF Confirm
<1>11. CASE AbandonVisit(v)
  BY <1>3, <1>11 DEF AbandonVisit
<1> QED
  BY <1>5, <1>6, <1>7, <1>8, <1>9, <1>10, <1>11 DEF VisitStep

-----------------------------------------------------------------------------
(* The changes of roles.                                                    *)

LEMMA ChangeAskedKept ==
  ASSUME AccessInv, NEW body \in {"here", "platform"}, NEW p \in People,
         NEW to \in Roles \cup {"none"}, to = "admin" => body = "here", AskChange(body, p, to)
  PROVE  AccessInv' /\ UNCHANGED <<members, platform>>
<1>1. Admins(body) \subseteq People
  BY DEF AccessTyped, Admins, AccessInv
<1> DEFINE c == [body |-> body, who |-> p, to |-> to, at |-> "asked", rows |-> Admins(body)]
<1>2. c \in ChangeTypes /\ c.at # "locked"
  BY <1>1 DEF ChangeTypes
<1>3. changes' = changes \cup {c} /\ UNCHANGED <<members, platform>>
  BY DEF AskChange
<1>7. c.to = "admin" => c.body = "here"
  OBVIOUS
<1> HIDE DEF c
<1>4. AccessTyped'
  <2>1. asked' \in 0 .. MaxChanges
    BY AccessAssumption DEF AccessTyped, AskChange, Asked, AccessInv
  <2> QED
    BY <1>2, <1>3, <2>1 DEF AccessTyped, AskChange, AccessInv
<1>5. \A d : Guards(d)' = Guards(d)
  BY <1>3 DEF Guards, Admins
<1>6. Guarded'
  BY <1>2, <1>3, <1>5, <1>7 DEF Guarded, AccessInv
<1> QED
  BY <1>3, <1>4, <1>6 DEF AccessInv

LEMMA LockAdminsKept ==
  ASSUME AccessInv, NEW c \in changes, LockAdmins(c)
  PROVE  AccessInv' /\ UNCHANGED <<members, platform>>
<1> DEFINE admins == c.rows \cap Admins(c.body)
           after  == [c EXCEPT !.at = "locked", !.rows = admins]
<1>1. c \in ChangeTypes /\ changes \subseteq ChangeTypes
  BY DEF AccessTyped, AccessInv
<1>2. UNCHANGED <<members, platform>> /\ c.at = "asked" /\ c.to # "admin"
  BY DEF LockAdmins
<1>3. \A d : Guards(d)' = Guards(d)
  BY <1>2 DEF Guards, Admins
<1>4. CASE admins = {c.who}
  <2>1. changes' = changes \ {c}
    BY <1>4 DEF LockAdmins, Drop
  <2>2. AccessTyped'
    BY <2>1 DEF AccessTyped, LockAdmins, AccessInv
  <2>3. Guarded'
    BY <1>3, <2>1 DEF Guarded, AccessInv
  <2> QED
    BY <1>2, <2>2, <2>3 DEF AccessInv
<1>5. CASE admins # {c.who}
  <2>1. changes' = (changes \ {c}) \cup {after}
    BY <1>5 DEF LockAdmins
  <2>2. /\ after \in ChangeTypes /\ after.rows = admins /\ after.body = c.body
        /\ after.who = c.who /\ after.to = c.to
    BY <1>1 DEF ChangeTypes
  <2>3. Guards(after)
    <3>1. admins # {} => \E w \in admins : w # c.who
      BY <1>5
    <3> QED
      BY <1>2, <2>2, <3>1 DEF Guards
  <2>4. ASSUME NEW d \in changes \ {c}, d.at = "locked", d.body = c.body
        PROVE  d.rows \cap admins = {}
    BY <2>4 DEF LockAdmins, FreeFor, HeldBy
  <2> HIDE DEF after, admins
  <2>5. AccessTyped'
    BY <2>1, <2>2 DEF AccessTyped, LockAdmins, AccessInv
  <2>6. Guarded'
    <3>3. \A d \in changes' : d.to = "admin" => d.body = "here"
      BY <2>1, <2>2 DEF Guarded, AccessInv
    <3>1. \A d \in changes' : d.at = "locked" => Guards(d)'
      BY <1>3, <2>1, <2>3 DEF Guarded, AccessInv
    <3>2. \A d, e \in changes' :
            d # e /\ d.at = "locked" /\ e.at = "locked" /\ d.body = e.body =>
              d.rows \cap e.rows = {}
      BY <2>1, <2>2, <2>4 DEF Guarded, AccessInv
    <3> QED
      BY <3>1, <3>2, <3>3 DEF Guarded
  <2> QED
    BY <1>2, <2>5, <2>6 DEF AccessInv
<1> QED
  BY <1>4, <1>5

(* The statement of a change takes nobody's row but that of whom it is      *)
(* about, and leaves an admin: the one it holds besides, unless it holds    *)
(* none.                                                                    *)
LEMMA ChangeKept ==
  ASSUME AccessInv, NEW c \in changes, Change(c)
  PROVE  /\ AccessInv'
         /\ \A body \in {"here", "platform"} : Admins(body) # {} =>
              \/ Admins(body)' # {}
              \/ c \notin changes' /\ c.body = body /\ c.rows = {}
<1>1. c \in ChangeTypes /\ c.body \in {"here", "platform"} /\ c.who \in People
  BY DEF AccessTyped, AccessInv, ChangeTypes
<1>2. changes' = changes \ {c}
  BY DEF Change, Drop
<1>3. AccessTyped'
  <2>1. members' \in [People -> Roles \cup {"none"}] /\ platform' \subseteq People
    BY <1>1 DEF AccessTyped, Change, AccessInv, ChangeTypes
  <2> QED
    BY <1>2, <2>1 DEF AccessTyped, Change, AccessInv
<1>4. \A body \in {"here", "platform"} : body # c.body => Admins(body)' = Admins(body)
  BY <1>1 DEF Change, Admins
<1>5. \A p \in People : p # c.who => (p \in Admins(c.body)' <=> p \in Admins(c.body))
  BY <1>1 DEF AccessTyped, Change, Admins, AccessInv
<1>6. \A body \in {"here", "platform"} : Admins(body) \subseteq People
  BY DEF AccessTyped, Admins, AccessInv
<1>7. ASSUME NEW d \in changes', d.at = "locked" PROVE Guards(d)'
  <2>1. d \in changes /\ d # c /\ d \in ChangeTypes
    BY <1>2 DEF AccessTyped, AccessInv
  <2>2. Guards(d)
    BY <1>7, <2>1 DEF Guarded, AccessInv
  <2>3. d.body = c.body => c.who \notin d.rows
    BY <1>7, <2>1 DEF Change, FreeFor, HeldBy
  <2>4. d.body \in {"here", "platform"}
    BY <2>1 DEF ChangeTypes
  <2>5. d.rows \subseteq Admins(d.body)'
    <3>1. CASE d.body # c.body
      BY <3>1, <1>4, <2>2, <2>4 DEF Guards
    <3>2. CASE d.body = c.body
      BY <3>2, <1>5, <1>6, <2>2, <2>3, <2>4 DEF Guards
    <3> QED
      BY <3>1, <3>2
  <2> QED
    BY <2>2, <2>5 DEF Guards
<1>8. Guarded'
  BY <1>2, <1>7 DEF Guarded, AccessInv
<1>9. ASSUME Admins(c.body) # {}, c.rows # {} PROVE Admins(c.body)' # {}
  <2>1. CASE c.to = "admin"
    <3>1. CASE c.body = "here"
      <4>1. members' = [members EXCEPT ![c.who] = IF @ = "none" THEN @ ELSE "admin"]
        BY <2>1, <3>1 DEF Change
      <4>2. PICK p \in People : members[p] = "admin"
        BY <1>9, <3>1 DEF Admins
      <4>3. members'[p] = "admin"
        BY <4>1, <4>2 DEF AccessTyped, AccessInv
      <4> QED
        BY <3>1, <4>3 DEF Admins
    <3>2. CASE c.body = "platform"
      BY <2>1, <3>2 DEF Guarded, AccessInv
    <3> QED
      BY <1>1, <3>1, <3>2
  <2>2. CASE c.to # "admin"
    <3>1. c.at = "locked"
      BY <2>2 DEF Change
    <3>2. Guards(c)
      BY <3>1 DEF Guarded, AccessInv
    <3>3. PICK w \in c.rows : w # c.who
      BY <1>9, <3>2 DEF Guards
    <3>4. w \in Admins(c.body) /\ w \in People
      BY <1>1, <1>6, <3>2, <3>3 DEF Guards
    <3> QED
      BY <1>5, <3>3, <3>4
  <2> QED
    BY <2>1, <2>2
<1> QED
  BY <1>1, <1>2, <1>3, <1>4, <1>8, <1>9 DEF AccessInv

LEMMA AccessStepKept ==
  ASSUME AccessInv, AccessNext
  PROVE  /\ AccessInv'
         /\ \A body \in {"here", "platform"} : Admins(body) # {} =>
              \/ Admins(body)' # {}
              \/ \E c \in changes : c \notin changes' /\ c.body = body /\ c.rows = {}
<1>2. ASSUME AccessTyped', UNCHANGED <<members, platform, changes>>
      PROVE  AccessInv' /\ \A body \in {"here", "platform"} : Admins(body)' = Admins(body)
  BY <1>2, GuardedAside DEF AccessInv, Admins
<1>3. ASSUME AccessTyped', changes' \subseteq changes,
             \A body \in {"here", "platform"} : Admins(body) \subseteq Admins(body)'
      PROVE  /\ AccessInv'
             /\ \A body \in {"here", "platform"} : Admins(body) # {} => Admins(body)' # {}
  BY <1>3, GuardedMore DEF AccessInv
<1>4. CASE \/ \E p \in People : \/ \E role \in Roles : Invite(p, role)
                                \/ ResetMember(p) \/ ResetAccount(p)
           \/ \E c \in Customers : AskForProof(c)
           \/ \E m \in minting : SpendEarlier(m) \/ InsertLink(m) \/ AbandonMinting(m)
           \/ \E l \in LinkIds : RevokeLink(l) \/ ExpireLink(l) \/ \E n \in 1 .. 2 : FindLink(l, n)
  <2>1. AccessTyped' /\ UNCHANGED <<members, platform, changes>>
    BY <1>4, LinkRequestsKept DEF AccessInv
  <2> QED
    BY <1>2, <2>1
<1>5. ASSUME NEW v \in visits, VisitStep(v)
      PROVE  /\ AccessInv'
             /\ \A body \in {"here", "platform"} : Admins(body) # {} => Admins(body)' # {}
  <2>1. /\ AccessTyped' /\ UNCHANGED <<platform, changes>>
        /\ \A p \in People : members[p] # "none" => members'[p] = members[p]
    BY <1>5, VisitKept DEF AccessInv
  <2>2. \A body \in {"here", "platform"} : Admins(body) \subseteq Admins(body)'
    BY <2>1 DEF Admins
  <2> QED
    BY <1>3, <2>1, <2>2
<1>6. ASSUME NEW p \in People, NEW to \in Roles \cup {"none"}, ChangeMember(p, to)
      PROVE  AccessInv' /\ UNCHANGED <<members, platform>>
  BY <1>6, ChangeAskedKept DEF ChangeMember
<1>7. ASSUME NEW p \in People, RevokePlatformAdmin(p)
      PROVE  AccessInv' /\ UNCHANGED <<members, platform>>
  BY <1>7, ChangeAskedKept, AccessAssumption DEF RevokePlatformAdmin
<1>8. ASSUME NEW p \in People, GrantPlatformAdmin(p) \/ JoinElsewhere(p)
      PROVE  /\ AccessInv'
             /\ \A body \in {"here", "platform"} : Admins(body) # {} => Admins(body)' # {}
  <2>1. asked' \in 0 .. MaxChanges
    BY <1>8, AccessAssumption DEF GrantPlatformAdmin, JoinElsewhere, Asked, AccessInv, AccessTyped
  <2>2. AccessTyped' /\ changes' \subseteq changes
    BY <1>8, <2>1 DEF GrantPlatformAdmin, JoinElsewhere, Asked, AccessInv, AccessTyped
  <2>3. \A body \in {"here", "platform"} : Admins(body) \subseteq Admins(body)'
    BY <1>8 DEF GrantPlatformAdmin, JoinElsewhere, Admins
  <2> QED
    BY <1>3, <2>2, <2>3
<1>9. ASSUME NEW c \in changes, LockAdmins(c) PROVE AccessInv' /\ UNCHANGED <<members, platform>>
  BY <1>9, LockAdminsKept
<1>10. ASSUME NEW c \in changes, Change(c)
       PROVE  /\ AccessInv'
              /\ \A body \in {"here", "platform"} : Admins(body) # {} =>
                   \/ Admins(body)' # {}
                   \/ \E d \in changes : d \notin changes' /\ d.body = body /\ d.rows = {}
  BY <1>10, ChangeKept
<1>11. ASSUME NEW c \in changes, AbandonChange(c)
       PROVE  AccessInv' /\ UNCHANGED <<members, platform>>
  <2>1. AccessTyped' /\ changes' \subseteq changes /\ UNCHANGED <<members, platform>>
    BY <1>11 DEF AbandonChange, Drop, AccessInv, AccessTyped
  <2>2. \A body \in {"here", "platform"} : Admins(body) \subseteq Admins(body)'
    BY <2>1 DEF Admins
  <2> QED
    BY <1>3, <2>1, <2>2
<1>12. UNCHANGED <<members, platform>> =>
         \A body \in {"here", "platform"} : Admins(body)' = Admins(body)
  BY DEF Admins
<1> QED
  BY <1>4, <1>2, <1>5, <1>6, <1>7, <1>8, <1>9, <1>10, <1>11, <1>12 DEF AccessNext, ChangeStep

LEMMA AccessInvHolds == AccessSpec => []AccessInv
<1>1. AccessInv /\ UNCHANGED access => AccessInv'
  <2> SUFFICES ASSUME AccessInv, UNCHANGED access PROVE AccessInv'
    OBVIOUS
  <2>1. AccessTyped'
    BY DEF AccessInv, AccessTyped, access
  <2> QED
    BY <2>1, GuardedAside DEF AccessInv, access
<1>2. AccessInv /\ [AccessNext]_access => AccessInv'
  BY <1>1, AccessStepKept
<1> QED
  BY <1>2, AccessStarts, PTL DEF AccessSpec

(* Links, requests and changes keep their types through any number of them, *)
(* and only a person's account is made by an invitation.                    *)
THEOREM AccessTypeCorrect == AccessSpec => []AccessTypeOK
<1>1. AccessInv => AccessTypeOK
  BY TypedIsTypeOK DEF AccessInv
<1> QED
  BY <1>1, AccessInvHolds, PTL

(* Whatever changes of roles run at the same time, a workspace or an        *)
(* installation that has an admin keeps one, but for a change that locked   *)
(* nobody because everybody it was to lock had gone.                        *)
THEOREM AdminsRemain == AccessSpec => AnAdminRemains
<1>1. AccessInv /\ [AccessNext]_access =>
        [\A body \in {"here", "platform"} : Admins(body) # {} =>
           \/ Admins(body)' # {}
           \/ \E c \in changes : c \notin changes' /\ c.body = body /\ c.rows = {}]_access
  BY AccessStepKept
<1> QED
  BY <1>1, AccessInvHolds, PTL DEF AccessSpec, AnAdminRemains

-----------------------------------------------------------------------------
(* The notifications.                                                       *)

Job == [at : {"queued", "asking", "posting", "done"}, reason : Reasons,
        left : SUBSET {r \in Subscriptions : r.space = Home},
        sent : Nat, passing : Nat, failed : Nat, tries : 0 .. MaxAttempts]

Reported == [user : Agents, open : BOOLEAN, nr : Nat]

PushTyped ==
  /\ belongs \subseteq Agents \X Spaces /\ hands \in [Devices -> Agents \cup {Nobody}]
  /\ browser \subseteq Devices /\ rows \subseteq Subscriptions
  /\ screen \subseteq Agents /\ presence \subseteq Agents /\ now \in Modes
  /\ reports \subseteq Reported /\ said \in Nat
  /\ job \in Job /\ (job.at = "queued" => job.tries < MaxAttempts)
  /\ shown \in [Devices -> Nat] /\ slips \in BOOLEAN

(* A device has a row of a workspace, and a turn at the post, once.         *)
OneRowEach ==
  /\ \A r, o \in rows : r.device = o.device /\ r.space = o.space => r = o
  /\ \A r, o \in job.left : r.device = o.device => r = o

(* Until something has arrived nothing has been shown, and then not on a    *)
(* device whose turn is still to come.                                      *)
NotYetShown ==
  /\ job.at \in {"queued", "asking"} => job.sent = 0
  /\ ~slips => /\ \A d \in Devices : shown[d] <= 1
               /\ job.sent = 0 => \A d \in Devices : shown[d] = 0
               /\ \A r \in job.left : shown[r.device] = 0

PushInv == PushTyped /\ OneRowEach /\ NotYetShown

LEMMA PushStarts == PushInit => PushInv
<1> SUFFICES ASSUME PushInit PROVE PushInv
  OBVIOUS
<1>1. PICK reason \in Reasons :
        job = [at |-> "queued", reason |-> reason, left |-> {}, sent |-> 0, passing |-> 0,
               failed |-> 0, tries |-> 0]
  BY DEF PushInit
<1>2. job \in Job /\ job.at = "queued" /\ job.left = {} /\ job.sent = 0 /\ job.tries < MaxAttempts
  BY <1>1, PushAssumption DEF Job
<1>3. PushTyped
  BY <1>2 DEF PushInit, PushTyped, Subscriptions
<1>4. OneRowEach
  BY <1>2 DEF PushInit, OneRowEach
<1>5. NotYetShown
  BY <1>2 DEF PushInit, NotYetShown
<1> QED
  BY <1>3, <1>4, <1>5 DEF PushInv

(* Steps that leave the job and what was shown alone disturb only the types *)
(* and the rows.                                                            *)
LEMMA SendingAside ==
  ASSUME PushInv, PushTyped', UNCHANGED sending,
         \A r, o \in rows' : r.device = o.device /\ r.space = o.space => r = o
  PROVE  PushInv'
<1>1. OneRowEach'
  BY DEF PushInv, OneRowEach, sending
<1>2. NotYetShown'
  BY DEF PushInv, NotYetShown, sending
<1> QED
  BY <1>1, <1>2 DEF PushInv

LEMMA DevicesKept ==
  ASSUME PushInv, NEW d \in Devices,
         \/ \E p \in Agents : SignIn(d, p)
         \/ \E s \in Spaces : Enable(d, s) \/ Disable(d, s)
         \/ SignOut(d) \/ LeaveDevice(d) \/ BrowserGone(d)
  PROVE  PushInv'
<1> DEFINE Single(rs) == \A r, o \in rs : r.device = o.device /\ r.space = o.space => r = o
<1>1. PushTyped /\ Single(rows)
  BY DEF PushInv, OneRowEach
<1>2. CASE \E p \in Agents : SignIn(d, p)
  <2>1. PushTyped' /\ rows' = rows /\ UNCHANGED sending
    BY <1>1, <1>2 DEF SignIn, PushTyped, world, reading, sending
  <2> QED
    BY <1>1, <2>1, SendingAside
<1>3. CASE \E s \in Spaces : Enable(d, s)
  <2>1. PICK s \in Spaces : Enable(d, s)
    BY <1>3
  <2>2. hands[d] \in Agents
    BY <1>1, <2>1 DEF Enable, PushTyped
  <2> DEFINE new == [device |-> d, space |-> s, user |-> hands[d]]
  <2>3. new \in Subscriptions /\ new.device = d /\ new.space = s
    BY <2>2 DEF Subscriptions
  <2>4. rows' = {r \in rows : r.device # d \/ r.space # s} \cup {new}
    BY <2>1 DEF Enable
  <2> HIDE DEF new
  <2>5. Single(rows')
    BY <1>1, <2>3, <2>4
  <2>6. PushTyped' /\ UNCHANGED sending
    BY <1>1, <2>1, <2>3, <2>4 DEF Enable, PushTyped, world, reading, sending
  <2> QED
    BY <2>5, <2>6, SendingAside
<1>4. CASE \E s \in Spaces : Disable(d, s)
  <2>1. rows' \subseteq rows /\ UNCHANGED sending
    BY <1>4 DEF Disable, sending
  <2>2. PushTyped'
    BY <1>1, <1>4, <2>1 DEF Disable, PushTyped, world, reading, sending
  <2> QED
    BY <1>1, <2>1, <2>2, SendingAside
<1>5. CASE SignOut(d)
  <2>1. rows' \subseteq rows /\ browser' \subseteq browser /\ UNCHANGED sending
    BY <1>5 DEF SignOut, sending
  <2>2. PushTyped'
    BY <1>1, <1>5, <2>1 DEF SignOut, PushTyped, world, reading, sending
  <2> QED
    BY <1>1, <2>1, <2>2, SendingAside
<1>6. CASE LeaveDevice(d) \/ BrowserGone(d)
  <2>1. rows' = rows /\ browser' \subseteq browser /\ UNCHANGED sending
    BY <1>6 DEF LeaveDevice, BrowserGone, sending
  <2>2. PushTyped'
    BY <1>1, <1>6, <2>1 DEF LeaveDevice, BrowserGone, PushTyped, world, reading, sending
  <2> QED
    BY <1>1, <2>1, <2>2, SendingAside
<1> QED
  BY <1>2, <1>3, <1>4, <1>5, <1>6

LEMMA PeopleKept ==
  ASSUME PushInv, NEW p \in Agents,
         Report(p) \/ PresenceLapses(p) \/ Renew(p) \/ (\E s \in Spaces : RemoveMember(p, s))
  PROVE  PushInv'
<1>1. PushTyped /\ \A r, o \in rows : r.device = o.device /\ r.space = o.space => r = o
  BY DEF PushInv, OneRowEach
<1>2. CASE Report(p)
  <2>1. screen' \subseteq Agents /\ said' \in Nat
    BY <1>1, <1>2 DEF Report, PushTyped
  <2>2. [user |-> p, open |-> p \in screen', nr |-> said'] \in Reported
    BY <2>1 DEF Reported
  <2>3. PushTyped' /\ rows' = rows /\ UNCHANGED sending
    BY <1>1, <1>2, <2>1, <2>2 DEF Report, PushTyped, world, device, sending
  <2> QED
    BY <1>1, <2>3, SendingAside
<1>3. CASE PresenceLapses(p) \/ Renew(p)
  <2>1. PushTyped' /\ rows' = rows /\ UNCHANGED sending
    BY <1>1, <1>3 DEF PresenceLapses, Renew, PushTyped, world, device, sending
  <2> QED
    BY <1>1, <2>1, SendingAside
<1>4. CASE \E s \in Spaces : RemoveMember(p, s)
  <2>1. rows' \subseteq rows /\ UNCHANGED sending
    BY <1>4 DEF RemoveMember, sending
  <2>2. PushTyped'
    BY <1>1, <1>4, <2>1 DEF RemoveMember, PushTyped, reading, sending
  <2> QED
    BY <1>1, <2>1, <2>2, SendingAside
<1> QED
  BY <1>2, <1>3, <1>4

LEMMA ConversationsKept ==
  ASSUME PushInv, (\E r \in reports : Record(r)) \/ (\E m \in Modes : Move(m))
  PROVE  PushInv'
<1>1. PushTyped /\ \A r, o \in rows : r.device = o.device /\ r.space = o.space => r = o
  BY DEF PushInv, OneRowEach
<1>2. CASE \E r \in reports : Record(r)
  <2>1. PICK r \in reports : Record(r)
    BY <1>2
  <2>2. r.user \in Agents
    BY <1>1 DEF PushTyped, Reported
  <2>3. PushTyped' /\ rows' = rows /\ UNCHANGED sending
    BY <1>1, <2>1, <2>2 DEF Record, PushTyped, world, device, sending
  <2> QED
    BY <1>1, <2>3, SendingAside
<1>3. CASE \E m \in Modes : Move(m)
  <2>1. PushTyped' /\ rows' = rows /\ UNCHANGED sending
    BY <1>1, <1>3 DEF Move, PushTyped, device, reading, sending
  <2> QED
    BY <1>1, <2>1, SendingAside
<1> QED
  BY <1>2, <1>3

-----------------------------------------------------------------------------
(* The job.                                                                 *)

(* A step of the job that changes no row and nobody's presence keeps the    *)
(* types if the job and what is shown keep theirs.                          *)
LEMMA WorldAside ==
  ASSUME PushTyped, UNCHANGED <<world, device, reading>>,
         job' \in Job, job'.at = "queued" => job'.tries < MaxAttempts,
         shown' \in [Devices -> Nat], slips' \in BOOLEAN
  PROVE  PushTyped'
BY DEF PushTyped, world, device, reading

LEMMA StartKept ==
  ASSUME PushInv, StartPush PROVE PushInv'
<1> USE DEF PushInv
<1>1. job \in Job /\ job.at = "queued" /\ job.tries < MaxAttempts
  BY DEF PushTyped, StartPush
<1>2. UNCHANGED <<world, device, reading, shown, slips>>
  BY DEF StartPush, world, device, reading
<1>3. CASE job' = [job EXCEPT !.at = "asking", !.left = Recipients, !.tries = @ + 1]
  <2>1. Recipients \subseteq {r \in Subscriptions : r.space = Home}
    BY DEF Recipients, PushTyped
  <2>2. job.tries + 1 \in 0 .. MaxAttempts
    BY <1>1, PushAssumption DEF Job
  <2>3. /\ job' \in Job /\ job'.at = "asking" /\ job'.left = Recipients /\ job'.sent = job.sent
    BY <1>1, <1>3, <2>1, <2>2 DEF Job
  <2>4. PushTyped'
    BY <1>2, <2>3, WorldAside DEF PushTyped
  <2>5. OneRowEach'
    BY <1>2, <2>1, <2>3 DEF OneRowEach, Recipients, device
  <2>6. NotYetShown'
    <3>1. job.sent = 0
      BY <1>1 DEF NotYetShown
    <3>2. ASSUME ~slips, NEW r \in Recipients PROVE shown[r.device] = 0
      BY <3>1, <3>2, <2>1 DEF NotYetShown, Subscriptions
    <3> QED
      BY <1>2, <2>3, <3>1, <3>2 DEF NotYetShown
  <2> QED
    BY <2>4, <2>5, <2>6
<1>4. CASE job' = [job EXCEPT !.at = "done"]
  <2>1. job' \in Job /\ job'.at = "done" /\ job'.left = job.left /\ job'.sent = job.sent
    BY <1>1, <1>4 DEF Job
  <2>2. PushTyped'
    BY <1>2, <2>1, WorldAside DEF PushTyped
  <2>3. OneRowEach' /\ NotYetShown'
    BY <1>2, <2>1 DEF OneRowEach, NotYetShown, device
  <2> QED
    BY <2>2, <2>3
<1> QED
  BY <1>3, <1>4 DEF StartPush

LEMMA LeaveReadersOutKept ==
  ASSUME PushInv, LeaveReadersOut PROVE PushInv'
<1> USE DEF PushInv
<1>1. job \in Job
  BY DEF PushTyped
<1>2. UNCHANGED <<world, device, reading, shown, slips>>
  BY DEF LeaveReadersOut, world, device, reading
<1>3. /\ job' \in Job /\ job'.at = "posting" /\ job'.left \subseteq job.left
      /\ job'.sent = job.sent
  BY <1>1 DEF LeaveReadersOut, Job
<1>4. PushTyped'
  BY <1>2, <1>3, WorldAside DEF PushTyped
<1>5. OneRowEach' /\ NotYetShown'
  BY <1>2, <1>3 DEF OneRowEach, NotYetShown, device
<1> QED
  BY <1>4, <1>5

(* A device's turn at the post: the job has one row less to go, and what    *)
(* was shown only of that row's device changes.                             *)
LEMMA PostKept ==
  ASSUME PushInv, NEW r \in rows \cup job.left,
         PostArrives(r) \/ PostFindsNobody(r) \/ PostFails(r)
  PROVE  PushInv'
<1> USE DEF PushInv
<1>1. /\ job \in Job /\ job.at = "posting" /\ r \in job.left /\ r.device \in Devices
      /\ shown \in [Devices -> Nat] /\ PushTyped
  BY DEF PushTyped, PostArrives, PostFindsNobody, PostFails, Posting, Job, Subscriptions
<1>2. Buzz(r.device) => shown' \in [Devices -> Nat]
  BY <1>1 DEF Buzz
<1>3. \A o \in job.left \ {r} : o.device # r.device /\ o.device \in Devices
  BY <1>1 DEF OneRowEach, Job, Subscriptions
<1>4. CASE PostArrives(r)
  <2>1. UNCHANGED <<world, device, reading, slips>> /\ Buzz(r.device)
    BY <1>4 DEF PostArrives, world, device, reading
  <2>2. /\ job' \in Job /\ job'.at = "posting" /\ job'.left = job.left \ {r}
        /\ job'.sent = job.sent + 1 /\ job.sent \in Nat
    <3>1. job' = [job EXCEPT !.left = job.left \ {r}, !.sent = job.sent + 1]
      BY <1>4 DEF PostArrives
    <3>2. job.left \ {r} \in SUBSET {o \in Subscriptions : o.space = Home}
      BY <1>1 DEF Job
    <3>3. job.sent \in Nat /\ job.sent + 1 \in Nat
      BY <1>1 DEF Job
    <3> QED
      BY <1>1, <3>1, <3>2, <3>3 DEF Job
  <2>3. PushTyped'
    BY <1>1, <1>2, <2>1, <2>2, WorldAside DEF PushTyped
  <2>4. OneRowEach'
    BY <2>1, <2>2 DEF OneRowEach, device
  <2>5. NotYetShown'
    <3>1. job'.sent # 0
      BY <2>2
    <3>2. ASSUME ~slips, NEW d \in Devices PROVE shown'[d] <= 1
      <4>1. shown[d] <= 1 /\ shown[r.device] = 0
        BY <1>1, <3>2 DEF NotYetShown
      <4> QED
        BY <1>1, <2>1, <4>1 DEF Buzz
    <3>3. ASSUME ~slips, NEW o \in job.left \ {r} PROVE shown'[o.device] = 0
      <4>1. shown[o.device] = 0
        BY <3>3 DEF NotYetShown
      <4> QED
        BY <1>1, <1>3, <2>1, <4>1 DEF Buzz
    <3> QED
      BY <2>1, <2>2, <3>1, <3>2, <3>3 DEF NotYetShown
  <2> QED
    BY <2>3, <2>4, <2>5
<1>5. CASE PostFindsNobody(r)
  <2>1. UNCHANGED <<world, hands, browser, reading, shown, slips>> /\ rows' = rows \ {r}
    BY <1>5 DEF PostFindsNobody, world, reading
  <2>2. /\ job' \in Job /\ job'.at = "posting" /\ job'.left = job.left \ {r}
        /\ job'.sent = job.sent
    BY <1>1, <1>5 DEF PostFindsNobody, Job
  <2>3. PushTyped'
    BY <1>1, <2>1, <2>2 DEF PushTyped, world, reading
  <2>4. OneRowEach' /\ NotYetShown'
    BY <2>1, <2>2 DEF OneRowEach, NotYetShown
  <2> QED
    BY <2>3, <2>4
<1>6. CASE PostFails(r)
  <2>1. PICK passing \in {0, 1} :
          job' = [job EXCEPT !.left = @ \ {r}, !.failed = @ + 1, !.passing = @ + passing]
    BY <1>6 DEF PostFails
  <2>2. /\ job' \in Job /\ job'.at = "posting" /\ job'.left = job.left \ {r}
        /\ job'.sent = job.sent
    <3>1. job' = [job EXCEPT !.left = job.left \ {r}, !.failed = job.failed + 1,
                             !.passing = job.passing + passing]
      BY <2>1
    <3>2. job.left \ {r} \in SUBSET {o \in Subscriptions : o.space = Home}
      BY <1>1 DEF Job
    <3>3. job.failed + 1 \in Nat /\ job.passing + passing \in Nat
      BY <1>1 DEF Job
    <3> QED
      BY <1>1, <3>1, <3>2, <3>3 DEF Job
  <2>3. UNCHANGED <<world, device, reading>>
    BY <1>6 DEF PostFails, world, device, reading
  <2>4. UNCHANGED <<shown, slips>> \/ (Buzz(r.device) /\ slips' = TRUE)
    BY <1>6 DEF PostFails
  <2>5. PushTyped'
    BY <1>1, <1>2, <2>2, <2>3, <2>4, WorldAside DEF PushTyped
  <2>6. OneRowEach'
    BY <2>2, <2>3 DEF OneRowEach, device
  <2>7. NotYetShown'
    BY <2>2, <2>4 DEF NotYetShown
  <2> QED
    BY <2>5, <2>6, <2>7
<1> QED
  BY <1>4, <1>5, <1>6

(* The end of a try.  It is followed by another only if nothing arrived, so *)
(* that nothing was shown either, or if the worker died.                    *)
LEMMA EndKept ==
  ASSUME PushInv, FinishPush \/ CrashPush PROVE PushInv'
<1> USE DEF PushInv
<1>1. job \in Job /\ shown \in [Devices -> Nat] /\ slips \in BOOLEAN
  BY DEF PushTyped
<1>2. UNCHANGED <<world, device, reading, shown>>
  BY DEF FinishPush, CrashPush, world, device, reading
<1>3. ASSUME Again
      PROVE  /\ job' \in Job /\ job'.at \in {"queued", "done"} /\ job'.left = {}
             /\ job'.sent = 0 /\ (job'.at = "queued" => job'.tries < MaxAttempts)
  <2>1. job.tries \in Nat
    BY <1>1, PushAssumption DEF Job
  <2> QED
    BY <1>1, <1>3, <2>1, PushAssumption DEF Again, Job
<1>4. CASE FinishPush /\ Retriable
  <2>1. Again /\ slips' = slips /\ job.sent = 0
    BY <1>4 DEF FinishPush, Retriable
  <2>2. PushTyped'
    BY <1>1, <1>2, <1>3, <2>1, WorldAside
  <2>3. OneRowEach' /\ NotYetShown'
    BY <1>2, <1>3, <2>1 DEF OneRowEach, NotYetShown, device
  <2> QED
    BY <2>2, <2>3
<1>5. CASE FinishPush /\ ~Retriable
  <2>1. job' = [job EXCEPT !.at = "done"] /\ slips' = slips
    BY <1>5 DEF FinishPush
  <2>2. job' \in Job /\ job'.at = "done" /\ job'.left = job.left /\ job'.sent = job.sent
    BY <1>1, <2>1 DEF Job
  <2>3. PushTyped'
    BY <1>1, <1>2, <2>1, <2>2, WorldAside
  <2>4. OneRowEach' /\ NotYetShown'
    BY <1>2, <2>1, <2>2 DEF OneRowEach, NotYetShown, device
  <2> QED
    BY <2>3, <2>4
<1>6. CASE CrashPush
  <2>1. Again /\ slips' = TRUE
    BY <1>6 DEF CrashPush
  <2>2. PushTyped'
    BY <1>1, <1>2, <1>3, <2>1, WorldAside
  <2>3. OneRowEach' /\ NotYetShown'
    BY <1>2, <1>3, <2>1 DEF OneRowEach, NotYetShown, device
  <2> QED
    BY <2>2, <2>3
<1> QED
  BY <1>4, <1>5, <1>6

LEMMA PushInvHolds == PushSpec => []PushInv
<1>1. PushInv /\ [PushNext]_push => PushInv'
  <2> SUFFICES ASSUME PushInv, [PushNext]_push PROVE PushInv'
    OBVIOUS
  <2>1. CASE UNCHANGED push
    <3>1. PushTyped'
      BY <2>1 DEF PushInv, PushTyped, push
    <3>2. OneRowEach'
      BY <2>1 DEF PushInv, OneRowEach, push
    <3>3. NotYetShown'
      BY <2>1 DEF PushInv, NotYetShown, push
    <3> QED
      BY <3>1, <3>2, <3>3 DEF PushInv
  <2>2. CASE PushNext
    BY <2>2, DevicesKept, PeopleKept, ConversationsKept, StartKept, LeaveReadersOutKept,
       PostKept, EndKept DEF PushNext
  <2> QED
    BY <2>1, <2>2
<1> QED
  BY <1>1, PushStarts, PTL DEF PushSpec

(* Subscriptions, presence and the job keep their types; the job is tried   *)
(* no more often than it may be.                                            *)
THEOREM PushTypeCorrect == PushSpec => []PushTypeOK
<1>1. PushInv => PushTypeOK
  <2> SUFFICES ASSUME PushInv PROVE PushTypeOK
    OBVIOUS
  <2>1. PushTyped
    BY DEF PushInv
  <2>2. job.left \subseteq Subscriptions /\ job.tries <= MaxAttempts
    BY <2>1, PushAssumption DEF PushTyped, Job
  <2>3. \A r \in reports : r.user \in Agents /\ r.open \in BOOLEAN
    BY <2>1 DEF PushTyped, Reported
  <2>4. job.at \in {"queued", "asking", "posting", "done"} /\ job.reason \in Reasons
    BY <2>1 DEF PushTyped, Job
  <2> QED
    BY <2>1, <2>2, <2>3, <2>4 DEF PushTypeOK, PushTyped
<1> QED
  BY <1>1, PushInvHolds, PTL

(* Whoever takes which device over, and however often the job is tried, no  *)
(* device shows an occasion twice, short of a crash and of a lost answer.   *)
THEOREM OneBuzz == PushSpec => []OneBuzzPerOccasion
<1>1. PushInv => OneBuzzPerOccasion
  BY DEF PushInv, NotYetShown, OneBuzzPerOccasion
<1> QED
  BY <1>1, PushInvHolds, PTL

-----------------------------------------------------------------------------
(* The slots.                                                               *)

(* The params that are stored, or read by a save that is to write them, are *)
(* tuned, and no save names the value that is.                              *)
SlotsInv ==
  /\ slot.params \in Params /\ slot.params.temperature = "tuned"
  /\ \A s \in puts :
       /\ s.params \in Params /\ s.params.temperature = "unset"
       /\ s.at = "merging" => s.read \in Params /\ s.read.temperature = "tuned"
  /\ "params" \in DOMAIN slot
  /\ \A s \in puts : {"at", "read", "params"} \subseteq DOMAIN s

LEMMA SlotsStart == SlotsInit => SlotsInv
<1> SUFFICES ASSUME SlotsInit PROVE SlotsInv
  OBVIOUS
<1>1. PICK targets : slot = [targets |-> targets, params |-> [NoParams EXCEPT !.temperature = "tuned"]]
  BY DEF SlotsInit
<1>2. slot.params \in Params /\ slot.params.temperature = "tuned"
  BY <1>1 DEF Params, NoParams
<1> QED
  BY <1>1, <1>2 DEF SlotsInit, SlotsInv

LEMMA MergedTuned ==
  ASSUME NEW old \in Params, old.temperature = "tuned", NEW new \in Params, new.temperature = "unset"
  PROVE  Merged(old, new) \in Params /\ Merged(old, new).temperature = "tuned"
BY DEF Merged, Params

(* A save that has gone on to another stage is the save it was.             *)
LEMMA StagedPut ==
  ASSUME SlotsInv, NEW s \in puts, NEW at \in {"stored", "failed"}, SetPut(s, at)
  PROVE  \A t \in puts' :
           /\ t.params \in Params /\ t.params.temperature = "unset"
           /\ t.at = "merging" => t.read \in Params /\ t.read.temperature = "tuned"
           /\ {"at", "read", "params"} \subseteq DOMAIN t
<1> DEFINE after == [s EXCEPT !.at = at]
<1>1. {"at", "read", "params"} \subseteq DOMAIN s /\ s.params \in Params
      /\ s.params.temperature = "unset"
  BY DEF SlotsInv
<1>2. /\ after.at = at /\ after.params = s.params
      /\ {"at", "read", "params"} \subseteq DOMAIN after
  BY <1>1
<1>3. puts' = (puts \ {s}) \cup {after}
  BY DEF SetPut
<1> HIDE DEF after
<1> QED
  BY <1>1, <1>2, <1>3 DEF SlotsInv

LEMMA SlotsKept ==
  ASSUME SlotsInv, SlotsNext PROVE SlotsInv'
<1> DEFINE Sound(t) == /\ t.params \in Params /\ t.params.temperature = "unset"
                       /\ t.at = "merging" => t.read \in Params /\ t.read.temperature = "tuned"
                       /\ {"at", "read", "params"} \subseteq DOMAIN t
           Stored(r) == /\ r.params \in Params /\ r.params.temperature = "tuned"
                        /\ "params" \in DOMAIN r
<1>1. Stored(slot) /\ \A t \in puts : Sound(t)
  BY DEF SlotsInv
<1>2. ASSUME Stored(slot'), \A t \in puts' : Sound(t) PROVE SlotsInv'
  BY <1>2 DEF SlotsInv
<1>3. ASSUME NEW c \in Cards, NEW targets, NEW params \in Params, NEW picked, NEW held,
             params.temperature = "unset", Save(c, targets, params, picked, held)
      PROVE  SlotsInv'
  <2> DEFINE new == [card |-> c, seq |-> NextPut(c), targets |-> targets, params |-> params,
                     picked |-> picked, read |-> NoParams, at |-> "sent"]
  <2>1. new.at = "sent" /\ new.params = params /\ {"at", "read", "params"} \subseteq DOMAIN new
    OBVIOUS
  <2>2. slot' = slot /\ puts' = puts \cup {new}
    BY <1>3 DEF Save
  <2> HIDE DEF new
  <2>3. \A t \in puts' : Sound(t)
    BY <1>1, <1>3, <2>1, <2>2
  <2> QED
    BY <1>1, <1>2, <2>2, <2>3
<1>4. NoParams \in Params /\ NoParams.temperature = "unset"
  BY DEF NoParams, Params
<1>5. ASSUME NEW v \in {"yes", "no"}
      PROVE  /\ [NoParams EXCEPT !.sendDimensions = v] \in Params
             /\ [NoParams EXCEPT !.sendDimensions = v].temperature = "unset"
  BY DEF NoParams, Params
<1>6. ASSUME NEW c \in Cards, Refetch(c) \/ TickDimensions(c) PROVE SlotsInv'
  <2>1. CASE Refetch(c)
    BY <1>1, <1>2, <2>1 DEF Refetch
  <2>2. CASE TickDimensions(c)
    <3>1. PICK v \in {"yes", "no"} :
            Save(c, cards[c].targets, [NoParams EXCEPT !.sendDimensions = v], {}, cards[c].held)
      BY <2>2 DEF TickDimensions
    <3> QED
      BY <1>3, <1>5, <3>1
  <2> QED
    BY <1>6, <2>1, <2>2
<1>7. ASSUME NEW c \in Cards, NEW t \in Targets,
             PickProvider(c, t) \/ PickModel(c, t) \/ Verify(c, t)
      PROVE  SlotsInv'
  <2>1. CASE Verify(c, t)
    BY <1>1, <1>2, <2>1 DEF Verify
  <2>2. CASE PickProvider(c, t)
    <3>1. PICK p \in Known \cup {NoOne} :
            Save(c, [cards[c].targets EXCEPT ![t].provider = p], NoParams, {t}, cards[c].held)
      BY <2>2 DEF PickProvider
    <3> QED
      BY <1>3, <1>4, <3>1
  <2>3. CASE PickModel(c, t)
    <3>1. PICK m \in Models \cup {NoOne} :
            Save(c, [cards[c].targets EXCEPT ![t].model = m], NoParams, {t},
                 [cards[c].held EXCEPT ![t] = m])
      BY <2>3 DEF PickModel
    <3> QED
      BY <1>3, <1>4, <3>1
  <2> QED
    BY <1>7, <2>1, <2>2, <2>3
<1>8. ASSUME NEW s \in puts, ReadParams(s) PROVE SlotsInv'
  <2> DEFINE after == [s EXCEPT !.at = "merging", !.read = slot.params]
  <2>1. Sound(s)
    BY <1>1
  <2>2. /\ after.params = s.params /\ after.read = slot.params
        /\ {"at", "read", "params"} \subseteq DOMAIN after
    BY <2>1
  <2>3. slot' = slot /\ puts' = (puts \ {s}) \cup {after}
    BY <1>8 DEF ReadParams
  <2> HIDE DEF after
  <2>4. \A t \in puts' : Sound(t)
    BY <1>1, <2>1, <2>2, <2>3
  <2> QED
    BY <1>1, <1>2, <2>3, <2>4
<1>9. ASSUME NEW s \in puts, WriteSlot(s) PROVE SlotsInv'
  <2>1. \A t \in puts' : Sound(t)
    BY <1>9, StagedPut DEF WriteSlot
  <2>2. Stored(slot')
    <3>1. CASE slot' = slot
      BY <1>1, <3>1
    <3>2. CASE slot' = [targets |-> s.targets, params |-> Merged(s.read, s.params)]
      <4>1. Merged(s.read, s.params) \in Params /\ Merged(s.read, s.params).temperature = "tuned"
        BY <1>1, <1>9, MergedTuned DEF WriteSlot
      <4> QED
        BY <3>2, <4>1
    <3> QED
      BY <1>9, <3>1, <3>2 DEF WriteSlot
  <2> QED
    BY <1>2, <2>1, <2>2
<1>10. ASSUME NEW s \in puts, LoseSave(s) PROVE SlotsInv'
  <2>1. \A t \in puts' : Sound(t)
    BY <1>10, StagedPut DEF LoseSave
  <2>2. slot' = slot
    BY <1>10 DEF LoseSave
  <2> QED
    BY <1>1, <1>2, <2>1, <2>2
<1>11. ASSUME NEW s \in puts, HearSaved(s) \/ HearFailed(s) PROVE SlotsInv'
  <2>1. slot' = slot /\ puts' = puts \ {s}
    BY <1>11 DEF HearSaved, HearFailed
  <2> QED
    BY <1>1, <1>2, <2>1
<1>12. ASSUME NEW p \in Providers, AddProvider(p) \/ SwitchProvider(p) \/ DropProvider(p)
       PROVE  SlotsInv'
  <2>1. puts' = puts
    BY <1>12 DEF AddProvider, SwitchProvider, DropProvider
  <2>2. Stored(slot')
    BY <1>1, <1>12 DEF AddProvider, SwitchProvider, DropProvider
  <2> QED
    BY <1>1, <1>2, <2>1, <2>2
<1>13. ASSUME ReadProviders \/ ReadSlot \/ UseSlot PROVE SlotsInv'
  BY <1>1, <1>2, <1>13 DEF ReadProviders, ReadSlot, UseSlot
<1> QED
  BY <1>6, <1>7, <1>8, <1>9, <1>10, <1>11, <1>12, <1>13 DEF SlotsNext

-----------------------------------------------------------------------------
(* The tools.                                                               *)

AskKinds == {"create", "update", "switch", "remove", "approve"}
ToolIds == Ids \cup {"new", Nil}
ToolNames == Titles \cup {Nil}
ToolConfigs == Configs \cup {Nil}
Row == [name : ToolNames, config : ToolConfigs, enabled : BOOLEAN]
ToolAsk == [by : Consoles, no : Nat,
            kind : AskKinds,
            id : ToolIds, from : ToolIds,
            name : ToolNames, config : ToolConfigs, enabled : BOOLEAN,
            at : {"sent", "checked", "done", "refused"}]
Editor == [on : ToolIds, from : ToolIds,
           name : ToolNames, config : ToolConfigs, enabled : BOOLEAN]

ToolsTyped ==
  /\ tools \in [Ids -> Row] /\ listsHeld \in [Consoles -> [Ids -> Row]]
  /\ editor \in [Consoles -> Editor] /\ asks \subseteq ToolAsk /\ asksMade \in Nat
  /\ wanted \in [Ids -> BOOLEAN]

(* What is on was switched on last, and a turn offers none that was off.    *)
ToolsInv ==
  /\ ToolsTyped
  /\ \A i \in Ids : tools[i].enabled => wanted[i]
  /\ offer.rows \cap offer.off = {}

LEMMA ToolsStart == ToolsInit => ToolsInv
<1> SUFFICES ASSUME ToolsInit PROVE ToolsInv
  OBVIOUS
<1>1. PICK i \in Ids, n \in Titles, g \in Configs :
        /\ tools = [j \in Ids |-> IF j = i THEN [name |-> n, config |-> g, enabled |-> TRUE]
                                  ELSE NoRow]
        /\ offered = {}
        /\ listsHeld = [c \in Consoles |-> tools]
        /\ editor = [c \in Consoles |-> Closed]
        /\ result = [c \in Consoles |-> Nil]
        /\ asks = {} /\ asksMade = 0
        /\ wanted = [j \in Ids |-> j = i]
        /\ offer = [rows |-> {}, mcp |-> {}, off |-> {}]
  BY DEF ToolsInit
<1>2. NoRow \in Row /\ NoRow.enabled = FALSE /\ Closed \in Editor
      /\ [name |-> n, config |-> g, enabled |-> TRUE] \in Row
  BY DEF NoRow, Row, Closed, Editor, ToolIds, ToolNames, ToolConfigs
<1>3. tools \in [Ids -> Row]
  BY <1>1, <1>2
<1>4. ToolsTyped
  BY <1>1, <1>2, <1>3 DEF ToolsTyped
<1>5. \A j \in Ids : tools[j].enabled => wanted[j]
  BY <1>1, <1>2
<1> QED
  BY <1>1, <1>4, <1>5 DEF ToolsInv

(* A step of a console changes no row, no switch and no turn.               *)
LEMMA RowsAside ==
  ASSUME ToolsInv, ToolsTyped', UNCHANGED <<tools, wanted, offer>> PROVE ToolsInv'
BY DEF ToolsInv

LEMMA AskForKept ==
  ASSUME ToolsInv, NEW c \in Consoles, NEW kind \in AskKinds,
         NEW id \in ToolIds, NEW from \in ToolIds,
         NEW name \in ToolNames, NEW config \in ToolConfigs,
         NEW enabled \in BOOLEAN, AskFor(c, kind, id, from, name, config, enabled)
  PROVE  ToolsInv'
<1> DEFINE a == [by |-> c, no |-> asksMade, kind |-> kind, id |-> id, from |-> from, name |-> name,
                 config |-> config, enabled |-> enabled, at |-> "sent"]
<1>1. a \in ToolAsk
  BY DEF ToolAsk, ToolsInv, ToolsTyped
<1>3. asks' = asks \cup {a}
  BY DEF AskFor
<1> HIDE DEF a
<1>4. ToolsTyped'
  BY <1>1, <1>3 DEF AskFor, ToolsInv, ToolsTyped
<1> QED
  BY <1>4, RowsAside DEF AskFor

LEMMA ConsolesKept ==
  ASSUME ToolsInv, NEW c \in Consoles,
         \/ FetchTools(c) \/ NewTool(c) \/ EditField(c) \/ CloseEditor(c) \/ TestTool(c)
         \/ \E i \in Ids : EditTool(c, i)
  PROVE  ToolsInv'
<1>1. ToolsTyped
  BY DEF ToolsInv
<1>2. ASSUME NEW e \in Editor, editor' = [editor EXCEPT ![c] = e],
             UNCHANGED <<tools, listsHeld, asks, asksMade, wanted, offer>>
      PROVE  ToolsInv'
  <2>1. ToolsTyped'
    BY <1>1, <1>2 DEF ToolsTyped
  <2> QED
    BY <1>2, <2>1, RowsAside
<1>3. editor[c] \in Editor /\ Closed \in Editor
  BY <1>1 DEF ToolsTyped, Closed, Editor, ToolIds, ToolNames, ToolConfigs
<1>4. CASE FetchTools(c)
  <2>1. ToolsTyped'
    BY <1>1, <1>4 DEF FetchTools, ToolsTyped
  <2> QED
    BY <1>4, <2>1, RowsAside DEF FetchTools
<1>5. CASE NewTool(c)
  <2>1. PICK n \in Titles, g \in Configs :
          editor' = [editor EXCEPT ![c] =
            [on |-> "new", from |-> "new", name |-> n, config |-> g, enabled |-> TRUE]]
    BY <1>5 DEF NewTool
  <2>2. [on |-> "new", from |-> "new", name |-> n, config |-> g, enabled |-> TRUE] \in Editor
    BY DEF Editor, ToolIds, ToolNames, ToolConfigs
  <2> QED
    BY <1>2, <1>5, <2>1, <2>2 DEF NewTool
<1>6. CASE EditField(c)
  <2>1. PICK g \in Configs : editor' = [editor EXCEPT ![c].config = g]
    BY <1>6 DEF EditField
  <2>2. [editor[c] EXCEPT !.config = g] \in Editor
    BY <1>3 DEF Editor, ToolIds, ToolConfigs
  <2>3. editor' = [editor EXCEPT ![c] = [editor[c] EXCEPT !.config = g]]
    BY <2>1
  <2> QED
    BY <1>2, <1>6, <2>2, <2>3 DEF EditField
<1>7. CASE CloseEditor(c)
  BY <1>2, <1>3, <1>7 DEF CloseEditor
<1>8. CASE TestTool(c)
  <2>1. ToolsTyped'
    BY <1>1, <1>8 DEF TestTool, ToolsTyped
  <2> QED
    BY <1>8, <2>1, RowsAside DEF TestTool
<1>9. CASE \E i \in Ids : EditTool(c, i)
  <2>1. PICK i \in Ids : EditTool(c, i)
    BY <1>9
  <2>2. listsHeld[c][i] \in Row
    BY <1>1 DEF ToolsTyped
  <2>3. [editor[c] EXCEPT !.on = i] \in Editor
    BY <1>3 DEF Editor, ToolIds, ToolConfigs
  <2>4. [on |-> i, from |-> i, name |-> listsHeld[c][i].name,
         config |-> listsHeld[c][i].config, enabled |-> listsHeld[c][i].enabled] \in Editor
    BY <2>2 DEF Row, Editor, ToolIds
  <2> QED
    BY <1>2, <2>1, <2>3, <2>4 DEF EditTool
<1> QED
  BY <1>4, <1>5, <1>6, <1>7, <1>8, <1>9

LEMMA ConsoleAsksKept ==
  ASSUME ToolsInv, NEW c \in Consoles,
         \/ SaveTool(c) \/ \E i \in Ids : SwitchTool(c, i) \/ RemoveTool(c, i)
         \/ \E n \in Titles : ApproveTool(c, n)
  PROVE  ToolsInv'
<1>1. /\ editor[c] \in Editor
  BY DEF ToolsInv, ToolsTyped
<1>2. /\ {"switch", "remove", "approve"} \subseteq AskKinds /\ Ids \subseteq ToolIds
      /\ Nil \in ToolIds /\ Nil \in ToolNames /\ Nil \in ToolConfigs
  BY DEF AskKinds, ToolIds, ToolNames, ToolConfigs
<1>3. CASE SaveTool(c)
  <2>1. /\ editor[c].on \in ToolIds /\ editor[c].from \in ToolIds
        /\ editor[c].name \in ToolNames /\ editor[c].config \in ToolConfigs
        /\ editor[c].enabled \in BOOLEAN
    BY <1>1 DEF Editor
  <2> DEFINE kind == IF editor[c].on = "new" THEN "create" ELSE "update"
  <2>2. kind \in AskKinds
    BY DEF AskKinds
  <2>3. PICK enabled \in BOOLEAN : enabled = editor[c].enabled
    BY <2>1
  <2>4. AskFor(c, kind, editor[c].on, editor[c].from, editor[c].name, editor[c].config, enabled)
    BY <1>3, <2>3 DEF SaveTool
  <2> HIDE DEF kind
  <2> QED
    BY <2>1, <2>2, <2>4, AskForKept
<1>4. CASE \E i \in Ids : SwitchTool(c, i)
  <2>1. PICK i \in Ids : AskFor(c, "switch", i, i, Nil, Nil, ~listsHeld[c][i].enabled)
    BY <1>4 DEF SwitchTool
  <2>2. (~listsHeld[c][i].enabled) \in BOOLEAN
    OBVIOUS
  <2> QED
    BY <1>2, <2>1, <2>2, AskForKept
<1>5. CASE \E i \in Ids : RemoveTool(c, i)
  <2>1. PICK i \in Ids : AskFor(c, "remove", i, i, Nil, Nil, FALSE)
    BY <1>5 DEF RemoveTool
  <2> QED
    BY <1>2, <2>1, AskForKept DEF ToolNames
<1>6. CASE \E n \in Titles : ApproveTool(c, n)
  <2>1. PICK n \in Titles : AskFor(c, "approve", Nil, Nil, n, Nil, TRUE)
    BY <1>6 DEF ApproveTool
  <2> QED
    BY <1>2, <2>1, AskForKept DEF ToolNames
<1> QED
  BY <1>3, <1>4, <1>5, <1>6

(* What the API writes: an edit takes a row's switch over as it is, and     *)
(* only a switch, a new tool or a removal moves it, with what is wanted.    *)
LEMMA ApiKept ==
  ASSUME ToolsInv, NEW a \in asks,
         \/ CheckName(a) \/ WriteApproval(a) \/ CreateTool(a) \/ UpdateTool(a)
         \/ WriteSwitch(a) \/ DeleteTool(a) \/ HearDone(a) \/ HearRefused(a)
  PROVE  ToolsInv'
<1>1. ToolsTyped /\ a \in ToolAsk
  BY DEF ToolsInv, ToolsTyped
<1>2. ASSUME NEW at \in {"checked", "done", "refused"} PROVE Turned(a, at) \subseteq ToolAsk
  <2>1. [a EXCEPT !.at = at] \in ToolAsk
    BY <1>1 DEF ToolAsk
  <2> QED
    BY <1>1, <2>1 DEF Turned, ToolsTyped
<1>3. ASSUME tools' \in [Ids -> Row], wanted' \in [Ids -> BOOLEAN], asks' \subseteq ToolAsk,
             UNCHANGED <<listsHeld, editor, asksMade, offer>>,
             \A i \in Ids : tools'[i].enabled => wanted'[i]
      PROVE  ToolsInv'
  BY <1>1, <1>3 DEF ToolsInv, ToolsTyped
<1>4. \A i \in Ids : tools[i] \in Row /\ (tools[i].enabled => wanted[i])
  BY DEF ToolsInv, ToolsTyped
<1>5. CASE CheckName(a) \/ WriteApproval(a)
  <2>1. asks' \subseteq ToolAsk
    BY <1>2, <1>5 DEF CheckName, WriteApproval
  <2>2. UNCHANGED <<tools, wanted, listsHeld, editor, asksMade, offer>>
    BY <1>5 DEF CheckName, WriteApproval
  <2> QED
    BY <1>1, <1>3, <1>4, <2>1, <2>2 DEF ToolsTyped
<1>6. CASE CreateTool(a)
  <2>1. asks' \subseteq ToolAsk /\ UNCHANGED <<listsHeld, editor, asksMade, offer>>
    BY <1>2, <1>6 DEF CreateTool
  <2>2. CASE UNCHANGED <<tools, wanted>>
    BY <1>1, <1>3, <1>4, <2>1, <2>2 DEF ToolsTyped
  <2>3. CASE \E i \in Ids \ Defined :
               /\ tools' = [tools EXCEPT ![i] =
                    [name |-> a.name, config |-> a.config, enabled |-> TRUE]]
               /\ wanted' = [wanted EXCEPT ![i] = TRUE]
    <3>1. PICK i \in Ids :
            /\ tools' = [tools EXCEPT ![i] =
                 [name |-> a.name, config |-> a.config, enabled |-> TRUE]]
            /\ wanted' = [wanted EXCEPT ![i] = TRUE]
      BY <2>3
    <3>2. [name |-> a.name, config |-> a.config, enabled |-> TRUE] \in Row
      BY <1>1 DEF ToolAsk, Row
    <3>3. tools' \in [Ids -> Row] /\ wanted' \in [Ids -> BOOLEAN]
      BY <1>1, <3>1, <3>2 DEF ToolsTyped
    <3>4. \A j \in Ids : tools'[j].enabled => wanted'[j]
      BY <1>1, <1>4, <3>1 DEF ToolsTyped
    <3> QED
      BY <1>3, <2>1, <3>3, <3>4
  <2> QED
    BY <1>6, <2>2, <2>3 DEF CreateTool
<1>7. CASE UpdateTool(a)
  <2>1. /\ asks' \subseteq ToolAsk /\ wanted' = wanted
        /\ UNCHANGED <<listsHeld, editor, asksMade, offer>>
    BY <1>2, <1>7 DEF UpdateTool
  <2>2. CASE tools' = tools
    BY <1>1, <1>3, <1>4, <2>1, <2>2 DEF ToolsTyped
  <2>3. CASE a.id \in Ids /\ tools' = [tools EXCEPT ![a.id] = Edited(a, tools[a.id])]
    <3>1. Edited(a, tools[a.id]) \in Row
          /\ Edited(a, tools[a.id]).enabled = tools[a.id].enabled
      BY <1>1, <1>4, <2>3 DEF Edited, Row, ToolAsk
    <3>2. tools' \in [Ids -> Row]
      BY <1>1, <2>3, <3>1 DEF ToolsTyped
    <3>3. \A j \in Ids : tools'[j].enabled = tools[j].enabled
      BY <1>1, <2>3, <3>1 DEF ToolsTyped
    <3> QED
      BY <1>1, <1>3, <1>4, <2>1, <3>2, <3>3 DEF ToolsTyped
  <2> QED
    BY <1>7, <2>2, <2>3 DEF UpdateTool, Defined
<1>8. CASE WriteSwitch(a)
  <2>1. asks' \subseteq ToolAsk /\ UNCHANGED <<listsHeld, editor, asksMade, offer>>
    BY <1>2, <1>8 DEF WriteSwitch
  <2>2. CASE UNCHANGED <<tools, wanted>>
    BY <1>1, <1>3, <1>4, <2>1, <2>2 DEF ToolsTyped
  <2>3. CASE /\ a.id \in Ids
             /\ tools' = [tools EXCEPT ![a.id].enabled = a.enabled]
             /\ wanted' = [wanted EXCEPT ![a.id] = a.enabled]
    <3>1. /\ [tools[a.id] EXCEPT !.enabled = a.enabled] \in Row
          /\ [tools[a.id] EXCEPT !.enabled = a.enabled].enabled = a.enabled
          /\ a.enabled \in BOOLEAN
      BY <1>1, <1>4, <2>3 DEF Row, ToolAsk
    <3>2. tools' = [tools EXCEPT ![a.id] = [tools[a.id] EXCEPT !.enabled = a.enabled]]
      BY <2>3
    <3>3. tools' \in [Ids -> Row] /\ wanted' \in [Ids -> BOOLEAN]
      BY <1>1, <2>3, <3>1, <3>2 DEF ToolsTyped
    <3>4. \A j \in Ids : tools'[j].enabled => wanted'[j]
      BY <1>1, <1>4, <2>3, <3>1, <3>2 DEF ToolsTyped
    <3> QED
      BY <1>3, <2>1, <3>3, <3>4
  <2> QED
    BY <1>8, <2>2, <2>3 DEF WriteSwitch, Defined
<1>9. CASE DeleteTool(a)
  <2>1. asks' \subseteq ToolAsk /\ UNCHANGED <<listsHeld, editor, asksMade, offer>>
    BY <1>2, <1>9 DEF DeleteTool
  <2>2. NoRow \in Row /\ NoRow.enabled = FALSE
    BY DEF NoRow, Row, ToolNames, ToolConfigs
  <2>3. tools' \in [Ids -> Row] /\ wanted' \in [Ids -> BOOLEAN]
    BY <1>1, <1>9, <2>2 DEF DeleteTool, ToolsTyped
  <2>4. \A j \in Ids : tools'[j].enabled => wanted'[j]
    BY <1>1, <1>4, <1>9, <2>2 DEF DeleteTool, ToolsTyped
  <2> QED
    BY <1>3, <2>1, <2>3, <2>4
<1>10. CASE HearDone(a)
  <2>1. Closed \in Editor /\ a.by \in Consoles
    BY <1>1 DEF Closed, Editor, ToolAsk, ToolIds, ToolNames, ToolConfigs
  <2>2. ToolsTyped'
    BY <1>1, <1>10, <2>1 DEF HearDone, ToolsTyped
  <2> QED
    BY <1>10, <2>2, RowsAside DEF HearDone
<1>11. CASE HearRefused(a)
  <2>1. ToolsTyped'
    BY <1>1, <1>11 DEF HearRefused, ToolsTyped
  <2> QED
    BY <1>11, <2>1, RowsAside DEF HearRefused
<1> QED
  BY <1>5, <1>6, <1>7, <1>8, <1>9, <1>10, <1>11

LEMMA ToolsKept ==
  ASSUME ToolsInv, ToolsNext PROVE ToolsInv'
<1>1. CASE LoadTools
  <2>1. ToolsTyped'
    BY <1>1 DEF LoadTools, ToolsInv, ToolsTyped
  <2>2. offer' = [rows |-> {i \in Defined : tools[i].enabled}, mcp |-> offered,
                  off |-> {i \in Ids : ~wanted[i]}]
    BY <1>1 DEF LoadTools
  <2>3. offer'.rows \cap offer'.off = {}
    BY <2>2 DEF ToolsInv, Defined
  <2> QED
    BY <1>1, <2>1, <2>3 DEF LoadTools, ToolsInv
<1> QED
  BY <1>1, ConsolesKept, ConsoleAsksKept, ApiKept DEF ToolsNext

-----------------------------------------------------------------------------
(* The approvals of an MCP server's tools.                                  *)

EffectMaps == [Listed -> Effect]
Backed(f, effects) ==
  \A n \in Listed : f[n] \notin {"off", "unchosen"} => <<n, f[n]>> \in effects
Decided(f) == \A n \in Listed : f[n] # "unchosen"
Held(f, effects) == f \in EffectMaps /\ Backed(f, effects) /\ Decided(f)

DrawnPanel == [open : BOOLEAN, draft : EffectMaps]
Calling == [by : Panels, kind : {"save", "fetch"}, draft : EffectMaps, was : EffectMaps,
            at : {"sent", "checked", "done", "reading"}]
Listing == [snapshot : [Listed -> Word], allowed : EffectMaps]

ApprovalsTyped ==
  /\ says \in [Listed -> Word] /\ row \in Listing
  /\ seen \in [Panels -> Listing]
  /\ panel \in [Panels -> DrawnPanel] /\ requests \subseteq Calling

(* Whatever is allowed anywhere, in the row, on a page, in a draft or in a  *)
(* request, was chosen; what is stored or sent has been decided on.         *)
AllChosen ==
  /\ Held(row.allowed, chosen)
  /\ \A p \in Panels : Held(seen[p].allowed, chosen) /\ Backed(panel[p].draft, chosen)
  /\ \A r \in requests : Held(r.draft, chosen) /\ Held(r.was, chosen)

ApprovalsInv == ApprovalsTyped /\ AllChosen

(* Nothing that was chosen is taken back.                                   *)
LEMMA StillHeld ==
  ASSUME chosen \subseteq chosen'
  PROVE  \A f : /\ Backed(f, chosen) => Backed(f, chosen')
                /\ Held(f, chosen) => Held(f, chosen')
BY DEF Backed, Held, Decided

LEMMA NothingIsHeld == Held(NotAllowed, chosen)
BY DEF Held, Backed, Decided, NotAllowed, EffectMaps, Effect

LEMMA ApprovalsStart == ApprovalsInit => ApprovalsInv
<1> SUFFICES ASSUME ApprovalsInit PROVE ApprovalsInv
  OBVIOUS
<1>1. says \in [Listed -> Word] /\ NotAllowed \in EffectMaps
  BY DEF ApprovalsInit, Word, NotAllowed, EffectMaps, Effect
<1>2. row \in Listing /\ row.allowed = NotAllowed
  BY <1>1 DEF ApprovalsInit, Listing
<1>3. [open |-> FALSE, draft |-> NotAllowed] \in DrawnPanel
  BY <1>1 DEF DrawnPanel
<1>4. ApprovalsTyped
  BY <1>1, <1>2, <1>3 DEF ApprovalsInit, ApprovalsTyped
<1>5. AllChosen
  BY <1>2, NothingIsHeld DEF ApprovalsInit, AllChosen, Held
<1> QED
  BY <1>4, <1>5 DEF ApprovalsInv

(* A panel that is drawn anew has a draft that was chosen.                  *)
LEMMA PanelKept ==
  ASSUME ApprovalsInv, NEW p \in Panels, NEW open \in BOOLEAN, NEW draft \in EffectMaps,
         panel' = [panel EXCEPT ![p] = [open |-> open, draft |-> draft]],
         chosen \subseteq chosen', Backed(draft, chosen'),
         UNCHANGED <<says, row, seen, requests>>
  PROVE  ApprovalsInv'
<1>1. [open |-> open, draft |-> draft] \in DrawnPanel
  BY DEF DrawnPanel
<1>2. ApprovalsTyped'
  BY <1>1 DEF ApprovalsInv, ApprovalsTyped
<1>3. ASSUME NEW q \in Panels PROVE Backed(panel'[q].draft, chosen')
  <2>1. panel'[q].draft = IF q = p THEN draft ELSE panel[q].draft
    BY DEF ApprovalsInv, ApprovalsTyped
  <2>2. Backed(panel[q].draft, chosen')
    BY StillHeld DEF ApprovalsInv, AllChosen
  <2> QED
    BY <2>1, <2>2
<1>4. AllChosen'
  BY <1>3, StillHeld DEF ApprovalsInv, AllChosen
<1> QED
  BY <1>2, <1>4 DEF ApprovalsInv

LEMMA PageKept ==
  ASSUME ApprovalsInv, NEW p \in Panels,
         \/ OpenPanel(p) \/ ClosePanel(p) \/ \E n \in Listed : Tick(p, n) \/ Choose(p, n)
  PROVE  ApprovalsInv'
<1>1. /\ panel \in [Panels -> DrawnPanel] /\ panel[p] \in DrawnPanel
      /\ panel[p].draft \in EffectMaps /\ Backed(panel[p].draft, chosen)
  BY DEF ApprovalsInv, ApprovalsTyped, AllChosen, DrawnPanel
<1>2. CASE OpenPanel(p)
  <2>1. Held(seen[p].allowed, chosen)
    BY DEF ApprovalsInv, AllChosen
  <2>2. seen[p].allowed \in EffectMaps /\ Backed(seen[p].allowed, chosen')
    BY <1>2, <2>1, StillHeld DEF OpenPanel, Held
  <2> QED
    BY <1>2, <2>2, PanelKept DEF OpenPanel
<1>3. CASE ClosePanel(p)
  <2>1. NotAllowed \in EffectMaps /\ Backed(NotAllowed, chosen')
    BY DEF NotAllowed, EffectMaps, Effect, Backed
  <2> QED
    BY <1>3, <2>1, PanelKept DEF ClosePanel
<1>4. ASSUME NEW n \in Listed, NEW e \in Effect, panel' = [panel EXCEPT ![p].draft[n] = e],
             panel[p].open, chosen \subseteq chosen', e \notin {"off", "unchosen"} => <<n, e>> \in chosen',
             UNCHANGED <<says, row, seen, requests>>
      PROVE  ApprovalsInv'
  <2> DEFINE draft == [panel[p].draft EXCEPT ![n] = e]
  <2>1. draft \in EffectMaps
    BY <1>1 DEF EffectMaps
  <2>2. panel' = [panel EXCEPT ![p] = [panel[p] EXCEPT !.draft = draft]]
    BY <1>4
  <2>3. [panel[p] EXCEPT !.draft = draft] = [open |-> panel[p].open, draft |-> draft]
    BY <1>1 DEF DrawnPanel
  <2>4. Backed(draft, chosen')
    <3>1. Backed(panel[p].draft, chosen')
      BY <1>1, <1>4 DEF Backed
    <3> QED
      BY <1>1, <1>4, <3>1 DEF Backed, EffectMaps
  <2>5. PICK open \in BOOLEAN : open = panel[p].open
    BY <1>1 DEF DrawnPanel
  <2>6. panel' = [panel EXCEPT ![p] = [open |-> open, draft |-> draft]]
    BY <2>2, <2>3, <2>5
  <2> HIDE DEF draft
  <2> QED
    BY <1>4, <2>1, <2>4, <2>6, PanelKept
<1>5. ASSUME NEW n \in Listed, Tick(p, n) PROVE ApprovalsInv'
  <2>1. CASE panel[p].draft[n] = "off"
    <3> DEFINE word == seen[p].snapshot[n]
    <3>1. Starts(word) \in Effect
      BY DEF Starts, Effect
    <3>2. Starts(word) \notin {"off", "unchosen"} => <<n, Starts(word)>> \in Said(n, word)
      BY DEF Starts, Said
    <3> QED
      BY <1>4, <1>5, <2>1, <3>1, <3>2 DEF Tick
  <2>2. CASE panel[p].draft[n] # "off"
    BY <1>4, <1>5, <2>2 DEF Tick, Effect
  <2> QED
    BY <2>1, <2>2
<1>6. ASSUME NEW n \in Listed, Choose(p, n) PROVE ApprovalsInv'
  BY <1>4, <1>6 DEF Choose, Effect
<1> QED
  BY <1>2, <1>3, <1>5, <1>6

(* A request that is new or at another stage carries what was chosen.       *)
LEMMA RequestKept ==
  ASSUME ApprovalsInv, NEW s \in Calling, Held(s.draft, chosen), Held(s.was, chosen),
         requests' \subseteq requests \cup {s}, UNCHANGED <<says, row, seen, panel, chosen>>
  PROVE  ApprovalsInv'
<1>1. ApprovalsTyped'
  BY DEF ApprovalsInv, ApprovalsTyped
<1>2. AllChosen'
  BY StillHeld DEF ApprovalsInv, AllChosen
<1> QED
  BY <1>1, <1>2 DEF ApprovalsInv

LEMMA CallsKept ==
  ASSUME ApprovalsInv, NEW p \in Panels, Reread(p) \/ SaveAllowed(p) \/ FetchAgain(p)
  PROVE  ApprovalsInv'
<1>1. ASSUME NEW kind \in {"save", "fetch"}, NEW draft \in EffectMaps, Held(draft, chosen),
             CallFor(p, kind, draft)
      PROVE  ApprovalsInv'
  <2> DEFINE s == [by |-> p, kind |-> kind, draft |-> draft, was |-> NotAllowed, at |-> "sent"]
  <2>1. s \in Calling /\ s.draft = draft /\ s.was = NotAllowed
    BY DEF Calling, NotAllowed, EffectMaps, Effect
  <2>2. requests' = requests \cup {s} /\ UNCHANGED <<says, row, seen, panel, chosen>>
    BY <1>1 DEF CallFor
  <2> HIDE DEF s
  <2> QED
    BY <1>1, <2>1, <2>2, NothingIsHeld, RequestKept
<1>2. CASE Reread(p)
  <2>1. ApprovalsTyped'
    BY <1>2 DEF Reread, ApprovalsInv, ApprovalsTyped
  <2>2. \A q \in Panels : seen'[q] = IF q = p THEN row ELSE seen[q]
    BY <1>2 DEF Reread, ApprovalsInv, ApprovalsTyped
  <2>3. AllChosen'
    BY <1>2, <2>2, StillHeld DEF Reread, ApprovalsInv, AllChosen
  <2> QED
    BY <2>1, <2>3 DEF ApprovalsInv
<1>3. CASE SaveAllowed(p)
  <2>1. panel[p].draft \in EffectMaps /\ Backed(panel[p].draft, chosen)
    BY DEF ApprovalsInv, ApprovalsTyped, AllChosen, DrawnPanel
  <2>2. Held(panel[p].draft, chosen)
    BY <1>3, <2>1 DEF SaveAllowed, Held, Decided
  <2> QED
    BY <1>1, <1>3, <2>1, <2>2 DEF SaveAllowed
<1>4. CASE FetchAgain(p)
  BY <1>1, <1>4, NothingIsHeld DEF FetchAgain, Held
<1> QED
  BY <1>2, <1>3, <1>4

LEMMA RequestsKept ==
  ASSUME ApprovalsInv, NEW r \in requests,
         \/ CheckAllowed(r) \/ StoreAllowed(r) \/ ReadRow(r) \/ StoreList(r)
         \/ LoseRequest(r) \/ HearAnswer(r)
  PROVE  ApprovalsInv'
<1>1. /\ r \in Calling /\ Held(r.draft, chosen) /\ Held(r.was, chosen) /\ Held(row.allowed, chosen)
      /\ row \in Listing /\ says \in [Listed -> Word] /\ requests \subseteq Calling
  BY DEF ApprovalsInv, ApprovalsTyped, AllChosen
<1>2. ASSUME NEW at \in {"sent", "checked", "done", "reading"}
      PROVE  /\ [r EXCEPT !.at = at] \in Calling /\ [r EXCEPT !.at = at].draft = r.draft
             /\ [r EXCEPT !.at = at].was = r.was
  BY <1>1 DEF Calling
<1>3. ASSUME NEW allowed, Held(allowed, chosen), NEW snapshot \in [Listed -> Word],
             row' = [snapshot |-> snapshot, allowed |-> allowed],
             SetAt(r, [r EXCEPT !.at = "done"]), UNCHANGED <<says, seen, panel, chosen>>
      PROVE  ApprovalsInv'
  <2>1. row' \in Listing /\ row'.allowed = allowed
    BY <1>3 DEF Listing, Held
  <2> DEFINE after == [r EXCEPT !.at = "done"]
  <2>2. after \in Calling /\ Held(after.draft, chosen) /\ Held(after.was, chosen)
    BY <1>1, <1>2
  <2>3. requests' = (requests \ {r}) \cup {after}
    BY <1>3 DEF SetAt
  <2> HIDE DEF after
  <2>4. ApprovalsTyped'
    BY <1>3, <2>1, <2>2, <2>3 DEF ApprovalsInv, ApprovalsTyped
  <2>5. AllChosen'
    BY <1>3, <2>1, <2>2, <2>3, StillHeld DEF ApprovalsInv, AllChosen
  <2> QED
    BY <2>4, <2>5 DEF ApprovalsInv
<1>4. CASE CheckAllowed(r)
  <2>1. PICK at \in {"checked", "done"} : SetAt(r, [r EXCEPT !.at = at])
    BY <1>4 DEF CheckAllowed
  <2> QED
    BY <1>1, <1>2, <1>4, <2>1, RequestKept DEF CheckAllowed, SetAt
<1>5. CASE StoreAllowed(r)
  <2>1. row' = [snapshot |-> row.snapshot, allowed |-> r.draft] /\ row.snapshot \in [Listed -> Word]
    BY <1>1, <1>5 DEF StoreAllowed, Listing
  <2> QED
    BY <1>1, <1>3, <1>5, <2>1 DEF StoreAllowed
<1>6. CASE ReadRow(r)
  <2> DEFINE after == [r EXCEPT !.at = "reading", !.was = row.allowed]
  <2>1. after \in Calling /\ after.draft = r.draft /\ after.was = row.allowed
    BY <1>1 DEF Calling, Listing
  <2>2. requests' = (requests \ {r}) \cup {after} /\ UNCHANGED <<says, row, seen, panel, chosen>>
    BY <1>6 DEF ReadRow, SetAt
  <2> HIDE DEF after
  <2> QED
    BY <1>1, <2>1, <2>2, RequestKept
<1>7. CASE StoreList(r)
  <2> DEFINE allowed == [n \in Listed |-> IF Allows(says[n], r.was[n]) THEN r.was[n] ELSE "off"]
  <2>1. r.was \in EffectMaps
    BY <1>1 DEF Held
  <2>2. allowed \in EffectMaps
    BY <2>1 DEF EffectMaps, Effect
  <2>3. Held(allowed, chosen)
    BY <1>1, <2>2 DEF Held, Backed, Decided
  <2>4. row' = [snapshot |-> says, allowed |-> allowed]
    BY <1>7 DEF StoreList
  <2> HIDE DEF allowed
  <2> QED
    BY <1>1, <1>3, <1>7, <2>3, <2>4 DEF StoreList
<1>8. CASE LoseRequest(r)
  BY <1>1, <1>8, RequestKept DEF LoseRequest
<1>9. CASE HearAnswer(r)
  <2>1. r.by \in Panels
    BY <1>1 DEF Calling
  <2>2. ApprovalsTyped'
    BY <1>9, <2>1 DEF HearAnswer, ApprovalsInv, ApprovalsTyped
  <2>3. \A q \in Panels : seen'[q] = IF q = r.by THEN row ELSE seen[q]
    BY <1>9, <2>1 DEF HearAnswer, ApprovalsInv, ApprovalsTyped
  <2>4. AllChosen'
    BY <1>9, <2>3, StillHeld DEF HearAnswer, ApprovalsInv, AllChosen
  <2> QED
    BY <2>2, <2>4 DEF ApprovalsInv
<1> QED
  BY <1>4, <1>5, <1>6, <1>7, <1>8, <1>9

LEMMA ApprovalsKept ==
  ASSUME ApprovalsInv, ApprovalsNext PROVE ApprovalsInv'
<1>1. CASE SayOtherwise
  <2>1. PICK n \in Listed, w \in Word : says' = [says EXCEPT ![n] = w]
    BY <1>1 DEF SayOtherwise
  <2>2. ApprovalsTyped'
    BY <1>1, <2>1 DEF SayOtherwise, ApprovalsInv, ApprovalsTyped
  <2>3. AllChosen'
    BY <1>1, StillHeld DEF SayOtherwise, ApprovalsInv, AllChosen
  <2> QED
    BY <2>2, <2>3 DEF ApprovalsInv
<1> QED
  BY <1>1, PageKept, CallsKept, RequestsKept DEF ApprovalsNext

-----------------------------------------------------------------------------
(* The settings.                                                            *)

Saving == [page : Pages, doc : Documents, field : Fields, value : Values,
           saw : Values, expected : Values,
         at : {"sent", "merged", "saved", "refused"}, merged : Documented]
Waiting == [field : Fields, value : Values, saw : Values]

Locking(s) == s.doc = "workspace" /\ s.at = "merged"

(* The save that holds the row's lock is the only one of the settings that  *)
(* has merged; until it writes, what it merged is the document that is      *)
(* stored but for its own setting, where its page's value is still there.   *)
LockHeld ==
  /\ \A s, t \in saves : Locking(s) /\ Locking(t) => s = t
  /\ \A s \in saves : Locking(s) =>
       /\ document["workspace"][s.field] = s.expected
       /\ s.merged = [document["workspace"] EXCEPT ![s.field] = s.value]

SettingsInv == SettingsTypeOK /\ LockHeld

LEMMA SettingsTypes ==
  ASSUME SettingsTypeOK
  PROVE  /\ saves \subseteq Saving /\ line \in [Pages -> Seq(Waiting)]
         /\ "workspace" \in Documents /\ "config" \in Documents
         /\ document["workspace"] \in Documented /\ document["config"] \in Documented
BY DEF SettingsTypeOK, Saving, Waiting, Documents

LEMMA TypesAtFirst == SettingsInit => SettingsTypeOK
<1>1. 0 \in Values /\ 0 \in 0 .. MaxLosses
  BY SettingsAssumption DEF Values
<1>2. << >> \in Seq(Waiting)
  BY EmptySeq
<1> QED
  BY <1>1, <1>2 DEF SettingsInit, SettingsTypeOK, Documented, Waiting

LEMMA Counting ==
  ASSUME SettingsTypeOK
  PROVE  /\ edits < MaxEdits => edits + 1 \in Values
         /\ losses < MaxLosses => losses + 1 \in 0 .. MaxLosses
BY SettingsAssumption DEF SettingsTypeOK, Values

LEMMA TypesOfPages ==
  ASSUME SettingsTypeOK, NEW p \in Pages,
         \/ SendSave(p) \/ ShowAgain(p)
         \/ \E f \in Fields : EditSetting(p, f) \/ SaveChannel(p, f)
  PROVE  SettingsTypeOK'
<1>1. CASE SendSave(p)
  <2> DEFINE next == Head(line[p])
  <2>1. next \in Waiting /\ Tail(line[p]) \in Seq(Waiting)
    BY <1>1, SettingsTypes, HeadTailProperties DEF SendSave, Due
  <2>2. [page |-> p, doc |-> "workspace", field |-> next.field,
         value |-> next.value, saw |-> next.saw,
         expected |-> fields[p][next.field], at |-> "sent",
         merged |-> document["workspace"]] \in Saving
    <3>1. next.field \in Fields /\ next.value \in Values /\ next.saw \in Values
      BY <2>1 DEF Waiting
    <3>2. fields[p][next.field] \in Values
      BY <3>1 DEF SettingsTypeOK, Documented
    <3> QED
      BY <3>1, <3>2, SettingsTypes DEF Saving
  <2>3. saves' \subseteq Saving
    BY <1>1, <2>2, SettingsTypes DEF SendSave
  <2>4. mine' \in [Pages -> SUBSET Values]
    <3>1. next.value \in Values
      BY <2>1 DEF Waiting
    <3> QED
      BY <1>1, <3>1 DEF SendSave, SettingsTypeOK
  <2>5. line' \in [Pages -> Seq(Waiting)]
    BY <1>1, <2>1, SettingsTypes DEF SendSave
  <2> QED
    BY <1>1, <2>3, <2>4, <2>5 DEF SendSave, SettingsTypeOK, Saving, Waiting
<1>2. CASE ShowAgain(p)
  BY <1>2, SettingsTypes DEF ShowAgain, SettingsTypeOK
<1>3. ASSUME NEW f \in Fields, EditSetting(p, f)
      PROVE  SettingsTypeOK'
  <2>1. edits' \in Values
    BY <1>3, Counting DEF EditSetting
  <2>2. [field |-> f, value |-> edits', saw |-> fields[p][f]] \in Waiting
    BY <2>1 DEF Waiting, SettingsTypeOK, Documented
  <2>3. line' \in [Pages -> Seq(Waiting)]
    <3>1. Append(line[p], [field |-> f, value |-> edits', saw |-> fields[p][f]]) \in Seq(Waiting)
      BY <2>2, SettingsTypes, AppendProperties
    <3> QED
      BY <1>3, <3>1, SettingsTypes DEF EditSetting
  <2> QED
    BY <1>3, <2>1, <2>3 DEF EditSetting, SettingsTypeOK, Waiting
<1>4. ASSUME NEW f \in Fields, SaveChannel(p, f)
      PROVE  SettingsTypeOK'
  <2>1. edits' \in Values /\ 0 \in Values
    BY <1>4, Counting, SettingsAssumption DEF SaveChannel, Values
  <2>2. saves' \subseteq Saving
    BY <1>4, <2>1, SettingsTypes DEF SaveChannel, Saving
  <2> QED
    BY <1>4, <2>1, <2>2 DEF SaveChannel, SettingsTypeOK, Saving
<1> QED
  BY <1>1, <1>2, <1>3, <1>4

LEMMA TypesOfSaves ==
  ASSUME SettingsTypeOK, NEW s \in saves,
         \/ HearOf(s) \/ LoseSaved(s) \/ MergeSetting(s) \/ MergeConfig(s)
         \/ WriteDocument(s) \/ AbandonSave(s)
  PROVE  SettingsTypeOK'
<1>0. s \in Saving /\ s.page \in Pages /\ s.doc \in Documents /\ s.field \in Fields
      /\ s.value \in Values /\ s.merged \in Documented
  BY SettingsTypes DEF Saving
<1>1. CASE HearOf(s)
  <2>1. saves' \subseteq Saving
    BY <1>1, SettingsTypes DEF HearOf, Over
  <2>2. reloading' \subseteq Pages /\ fields' \in [Pages -> Documented]
    <3>1. \/ fields' = fields /\ reloading' \in {reloading, reloading \cup {s.page}}
          \/ fields' = [fields EXCEPT ![s.page][s.field] = s.value] /\ reloading' = reloading
      BY <1>0, <1>1 DEF HearOf, Documents
    <3>2. fields \in [Pages -> Documented] /\ reloading \subseteq Pages
      BY DEF SettingsTypeOK
    <3>3. [fields[s.page] EXCEPT ![s.field] = s.value] \in Documented
      BY <1>0, <3>2 DEF Documented
    <3>4. [fields EXCEPT ![s.page] = [fields[s.page] EXCEPT ![s.field] = s.value]]
            \in [Pages -> Documented]
      BY <3>2, <3>3
    <3> QED
      BY <1>0, <3>1, <3>2, <3>4
  <2> QED
    BY <1>1, <2>1, <2>2 DEF HearOf, SettingsTypeOK, Saving
<1>2. CASE LoseSaved(s)
  BY <1>2, SettingsTypes, Counting DEF LoseSaved, Over, SettingsTypeOK
<1>3. CASE MergeSetting(s)
  <2>1. [document[s.doc] EXCEPT ![s.field] = s.value] \in Documented
    BY <1>0 DEF SettingsTypeOK, Documented
  <2>2. saves' \subseteq Saving
    BY <1>0, <1>3, <2>1, SettingsTypes DEF MergeSetting, Replace, Saving
  <2> QED
    BY <1>3, <2>2 DEF MergeSetting, SettingsTypeOK, Saving
<1>4. CASE MergeConfig(s)
  <2>1. [document[s.doc] EXCEPT ![s.field] = s.value] \in Documented
    BY <1>0 DEF SettingsTypeOK, Documented
  <2>2. saves' \subseteq Saving
    BY <1>0, <1>4, <2>1, SettingsTypes DEF MergeConfig, Replace, Saving
  <2> QED
    BY <1>4, <2>2 DEF MergeConfig, SettingsTypeOK, Saving
<1>5. CASE WriteDocument(s)
  <2>1. saves' \subseteq Saving
    BY <1>0, <1>5, SettingsTypes DEF WriteDocument, Replace, Saving
  <2> QED
    BY <1>0, <1>5, <2>1 DEF WriteDocument, SettingsTypeOK, Saving
<1>6. CASE AbandonSave(s)
  BY <1>6, SettingsTypes, Counting DEF AbandonSave, Over, SettingsTypeOK
<1> QED
  BY <1>1, <1>2, <1>3, <1>4, <1>5, <1>6

(* The actions that leave the saves with the lock, and the settings, alone. *)
LEMMA LockUntouched ==
  ASSUME LockHeld, document' = document,
         \A s \in saves' : Locking(s) => s \in saves
  PROVE  LockHeld'
BY DEF LockHeld, Locking

LEMMA LockStep ==
  ASSUME SettingsInv, SettingsNext
  PROVE  LockHeld'
<1> USE DEF SettingsInv
<1>1. ASSUME NEW p \in Pages,
             \/ SendSave(p) \/ ShowAgain(p)
             \/ \E f \in Fields : EditSetting(p, f) \/ SaveChannel(p, f)
      PROVE  LockHeld'
  <2>1. document' = document /\ \A s \in saves' : Locking(s) => s \in saves
    <3>1. CASE SendSave(p)
      BY <3>1 DEF SendSave, Locking
    <3>2. CASE ShowAgain(p)
      BY <3>2 DEF ShowAgain
    <3>3. ASSUME NEW f \in Fields, EditSetting(p, f) \/ SaveChannel(p, f)
          PROVE  document' = document /\ \A s \in saves' : Locking(s) => s \in saves
      BY <3>3 DEF EditSetting, SaveChannel, Locking
    <3> QED
      BY <1>1, <3>1, <3>2, <3>3
  <2> QED
    BY <2>1, LockUntouched
<1>2. ASSUME NEW s \in saves, HearOf(s) \/ LoseSaved(s) \/ AbandonSave(s)
      PROVE  LockHeld'
  <2>1. document' = document /\ \A t \in saves' : Locking(t) => t \in saves
    BY <1>2 DEF HearOf, LoseSaved, AbandonSave, Over
  <2> QED
    BY <2>1, LockUntouched
<1>3. ASSUME NEW s \in saves, MergeSetting(s)
      PROVE  LockHeld'
  <2>0. s \in Saving
    BY SettingsTypes
  <2>1. CASE document[s.doc][s.field] # s.expected
    <3>1. document' = document /\ \A t \in saves' : Locking(t) => t \in saves
      BY <1>3, <2>0, <2>1 DEF MergeSetting, Replace, Locking, Saving
    <3> QED
      BY <3>1, LockUntouched
  <2>2. CASE document[s.doc][s.field] = s.expected
    <3> DEFINE t == [s EXCEPT !.at = "merged", !.merged = [document[s.doc] EXCEPT ![s.field] = s.value]]
    <3>1. saves' = (saves \ {s}) \cup {t} /\ document' = document /\ s.doc = "workspace"
      BY <1>3, <2>2 DEF MergeSetting, Replace
    <3>2. \A u \in saves : ~Locking(u)
      BY <1>3 DEF MergeSetting, Locked, Locking
    <3>3. \A u \in saves' : Locking(u) => u = t
      BY <3>1, <3>2
    <3>4. /\ document["workspace"][t.field] = t.expected
          /\ t.merged = [document["workspace"] EXCEPT ![t.field] = t.value]
      BY <2>0, <2>2, <3>1 DEF Saving
    <3> QED
      BY <3>1, <3>3, <3>4 DEF LockHeld
  <2> QED
    BY <2>1, <2>2
<1>4. ASSUME NEW s \in saves, MergeConfig(s)
      PROVE  LockHeld'
  <2>1. document' = document /\ \A t \in saves' : Locking(t) => t \in saves
    BY <1>4, SettingsTypes DEF MergeConfig, Replace, Locking, Saving
  <2> QED
    BY <2>1, LockUntouched
<1>5. ASSUME NEW s \in saves, WriteDocument(s)
      PROVE  LockHeld'
  <2>0. s \in Saving /\ s.doc \in Documents
    BY SettingsTypes DEF Saving
  <2>1. \A t \in saves' : Locking(t) => t \in saves /\ t # s
    BY <1>5, <2>0 DEF WriteDocument, Replace, Locking, Saving
  <2>2. CASE s.doc = "workspace"
    <3>1. \A t \in saves' : ~Locking(t)
      BY <1>5, <2>1, <2>2 DEF LockHeld, Locking, WriteDocument
    <3> QED
      BY <3>1 DEF LockHeld
  <2>3. CASE s.doc = "config"
    <3>1. document'["workspace"] = document["workspace"]
      BY <1>5, <2>3, SettingsTypes DEF WriteDocument, SettingsTypeOK
    <3> QED
      BY <2>1, <3>1 DEF LockHeld, Locking
  <2> QED
    BY <2>0, <2>2, <2>3 DEF Documents
<1> QED
  BY <1>1, <1>2, <1>3, <1>4, <1>5 DEF SettingsNext

LEMMA SettingsInductive == SettingsInv /\ [SettingsNext]_desk => SettingsInv'
<1> SUFFICES ASSUME SettingsInv, [SettingsNext]_desk PROVE SettingsInv'
  OBVIOUS
<1>1. CASE SettingsNext
  <2>1. SettingsTypeOK'
    BY <1>1, TypesOfPages, TypesOfSaves DEF SettingsNext, SettingsInv
  <2> QED
    BY <1>1, <2>1, LockStep DEF SettingsInv
<1>2. CASE UNCHANGED desk
  BY <1>2 DEF desk, SettingsInv, SettingsTypeOK, LockHeld
<1> QED
  BY <1>1, <1>2

LEMMA SettingsAlways == SettingsSpec => []SettingsInv
<1>1. SettingsInit => SettingsInv
  BY TypesAtFirst DEF SettingsInv, LockHeld, SettingsInit
<1> QED
  BY <1>1, SettingsInductive, PTL DEF SettingsSpec

(* Documents, pages and saves keep their types, for any number of admins,   *)
(* settings and saves (settings.ts, PATCH /workspace).                      *)
THEOREM SettingsTypeCorrect == SettingsSpec => []SettingsTypeOK
<1>1. SettingsInv => SettingsTypeOK
  BY DEF SettingsInv
<1> QED
  BY <1>1, SettingsAlways, PTL

(* However many admins save at once, and wherever the API dies, a save      *)
(* changes the one setting it is about and replaces there what its page     *)
(* showed when it was sent (settings.ts, PATCH /workspace).                 *)
THEOREM SavesReplaceOnlyTheirOwn == SettingsSpec => SavesReplaceOnlyWhatWasShown
<1> DEFINE Kept == \A f \in Fields : document'["workspace"][f] # document["workspace"][f] =>
                     \E s \in saves : /\ s \notin saves' /\ s.doc = "workspace" /\ s.field = f
                                      /\ document["workspace"][f] = s.expected
<1>1. SettingsInv /\ [SettingsNext]_desk => [Kept]_desk
  <2> SUFFICES ASSUME SettingsInv, SettingsNext,
                      NEW f \in Fields, document'["workspace"][f] # document["workspace"][f]
               PROVE  \E s \in saves : /\ s \notin saves' /\ s.doc = "workspace" /\ s.field = f
                                       /\ document["workspace"][f] = s.expected
    OBVIOUS
  <2>1. PICK s \in saves : WriteDocument(s)
    BY DEF SettingsNext, SendSave, ShowAgain, EditSetting, SaveChannel, HearOf, LoseSaved,
           MergeSetting, MergeConfig, AbandonSave
  <2>2. s \in Saving /\ s.doc \in Documents /\ s.field \in Fields
    BY SettingsTypes DEF Saving, SettingsInv
  <2>3. document \in [Documents -> Documented]
    BY DEF SettingsInv, SettingsTypeOK
  <2>4. s.doc = "workspace"
    BY <2>1, <2>2, <2>3 DEF WriteDocument, Documents
  <2>5. /\ document["workspace"][s.field] = s.expected
        /\ document'["workspace"] = [document["workspace"] EXCEPT ![s.field] = s.value]
    BY <2>1, <2>3, <2>4 DEF WriteDocument, SettingsInv, LockHeld, Locking, Documents
  <2>6. s.field = f
    BY <2>3, <2>5 DEF Documents, Documented
  <2>7. s \notin saves'
    BY <2>1, <2>2 DEF WriteDocument, Replace, Saving
  <2> QED
    BY <2>4, <2>5, <2>6, <2>7
<1> QED
  BY <1>1, SettingsAlways, PTL DEF SettingsSpec, SavesReplaceOnlyWhatWasShown

-----------------------------------------------------------------------------
(* The MCP servers that are signed in to.                                   *)

ServerRow == [there : BOOLEAN, ok : BOOLEAN, access : 0 .. MaxTokens, refresh : 0 .. MaxTokens,
        verifier : 0 .. MaxSignIns, url : 0 .. MaxUrls,
        snapshot : SUBSET Entry, allowed : SUBSET Entry]
Position == [at : {"away", "read", "stale", "refreshing", "refreshed", "lost", "ready"},
             access : 0 .. MaxTokens, refresh : 0 .. MaxTokens, rejected : 0 .. MaxTokens,
             url : 0 .. MaxUrls, approved : SUBSET Entry]
SigningIn == [at : {"page", "back", "swapped", "saved"}, challenge : 1 .. MaxSignIns,
           verifier : 0 .. MaxSignIns, tokens : 0 .. MaxTokens]
Issuer == [issued : 0 .. MaxTokens, started : 0 .. MaxSignIns, accepts : SUBSET Tokens,
           spent : SUBSET Tokens, unheard : SUBSET (0 .. MaxTokens), expiring : SUBSET Tokens]

(* Every variable as it is, and an address wherever one has been read.      *)
RowsShaped ==
  /\ server \in ServerRow /\ issuer \in Issuer
  /\ patch \in [open : BOOLEAN, snapshot : SUBSET Entry, url : 0 .. MaxUrls]
  /\ leaving \subseteq {"forget", "delete"} /\ signins \subseteq SigningIn
  /\ lists \in [Urls -> Lists]
  /\ server.there => server.url \in Urls
  /\ patch.open => patch.url \in Urls

CallersShaped ==
  /\ holder \subseteq Callers /\ caller \in [Callers -> Position]
  /\ \A c \in Fetches : caller[c].at # "away" => caller[c].url \in Urls

Shaped == RowsShaped /\ CallersShaped

(* Tokens spent whose replacement somebody was told.                        *)
Dead == issuer.spent \ issuer.unheard

(* Who holds the lock is refreshing, and only them; the row's refresh token *)
(* is then theirs.  A token is dead only while its successor is on its way  *)
(* to the row under the lock; what a sign-in brings is nobody else's.       *)
Custody ==
  /\ \A c \in Callers : c \in holder <=> caller[c].at \in {"refreshing", "refreshed"}
  /\ \A c, d \in holder : c = d
  /\ ~server.there => server.refresh = 0
  /\ server.refresh <= issuer.issued
  /\ \A n \in issuer.spent \cup issuer.accepts : n <= issuer.issued
  /\ \A c \in Callers :
       /\ caller[c].at = "refreshing" => caller[c].refresh = server.refresh
       /\ caller[c].at = "refreshed" =>
            caller[c].refresh <= issuer.issued /\ caller[c].refresh \notin Dead
  /\ (\A c \in Callers : caller[c].at # "refreshed") => server.refresh \notin Dead
  /\ \A s \in signins : s.at = "swapped" =>
       /\ s.tokens \in 1 .. issuer.issued /\ s.tokens # server.refresh /\ s.tokens \notin Dead
       /\ \A c \in Callers : caller[c].at = "refreshed" => caller[c].refresh # s.tokens
       /\ \A t \in signins : t.at = "swapped" /\ t.tokens = s.tokens => t = s

ServersInv == Shaped /\ Custody

LEMMA BoundsAreNumbers ==
  /\ MaxTokens \in Nat /\ MaxSignIns \in Nat /\ MaxUrls \in Nat /\ MaxLists \in Nat
  /\ MaxFaults \in Nat /\ Fetches \subseteq Callers
BY ServersAssumption

LEMMA ServersAtFirst == ServersInit => ServersInv
<1> SUFFICES ASSUME ServersInit PROVE ServersInv
  OBVIOUS
<1>1. PICK u \in Urls, n \in 0 .. MaxTokens, k \in 0 .. MaxSignIns :
        /\ server = [Gone EXCEPT !.there = TRUE, !.ok = TRUE, !.url = u, !.access = n, !.refresh = n]
        /\ issuer = [issued |-> n, started |-> k, accepts |-> {n} \ {0}, spent |-> {},
                     unheard |-> {}, expiring |-> {}]
  BY DEF ServersInit
<1>2. server \in ServerRow /\ issuer \in Issuer
  <2>1. server = [there |-> TRUE, ok |-> TRUE, access |-> n, refresh |-> n, verifier |-> 0,
                  url |-> u, snapshot |-> {}, allowed |-> {}]
    BY <1>1 DEF Gone
  <2>2. server \in ServerRow
    BY <2>1, BoundsAreNumbers DEF ServerRow, Urls
  <2>3. issuer \in Issuer
    <3>1. {n} \ {0} \subseteq Tokens
      BY BoundsAreNumbers DEF Tokens
    <3> QED
      BY <1>1, <3>1 DEF Issuer
  <2> QED
    BY <2>2, <2>3
<1>3. lists \in [Urls -> Lists]
  <2>1. [name : Names, effect : {"read"}] \in Lists
    <3>1. [name : Names, effect : {"read"}] \subseteq [name : Names, effect : Effects]
      BY DEF Effects
    <3>2. ASSUME NEW t \in [name : Names, effect : {"read"}],
                 NEW v \in [name : Names, effect : {"read"}], t.name = v.name
          PROVE  t = v
      BY <3>2
    <3> QED
      BY <3>1, <3>2 DEF Lists
  <2> QED
    BY <2>1 DEF ServersInit
<1>4. caller \in [Callers -> Position]
  BY BoundsAreNumbers DEF ServersInit, Away, Position
<1>5. Shaped
  <2>1. server.there => server.url \in Urls
    BY <1>1 DEF Gone
  <2>2. /\ patch \in [open : BOOLEAN, snapshot : SUBSET Entry, url : 0 .. MaxUrls]
        /\ ~patch.open
    BY BoundsAreNumbers DEF ServersInit, NoPatch
  <2>3. \A c \in Fetches : caller[c].at = "away"
    BY BoundsAreNumbers DEF ServersInit, Away
  <2>4. holder \subseteq Callers /\ leaving \subseteq {"forget", "delete"} /\ signins \subseteq SigningIn
    BY DEF ServersInit
  <2> QED
    BY <1>2, <1>3, <1>4, <2>1, <2>2, <2>3, <2>4 DEF Shaped, RowsShaped, CallersShaped
<1>6. Custody
  <2>1. /\ server.there /\ server.refresh = n /\ issuer.issued = n /\ Dead = {}
        /\ issuer.spent = {} /\ issuer.accepts \subseteq {n}
    BY <1>1 DEF Gone, Dead
  <2>2. holder = {} /\ signins = {} /\ \A c \in Callers : caller[c].at = "away"
    BY DEF ServersInit, Away
  <2> QED
    <3>1. n <= n /\ \A k2 \in issuer.spent \cup issuer.accepts : k2 <= n
      BY <2>1, BoundsAreNumbers
    <3> QED
      BY <2>1, <2>2, <3>1 DEF Custody
<1> QED
  BY <1>5, <1>6 DEF ServersInv

-----------------------------------------------------------------------------
(* Every step keeps the shape.                                              *)

(* One caller is somewhere else; a fetch knows an address unless it is over.*)
LEMMA OneMoves ==
  ASSUME CallersShaped, NEW c \in Callers, NEW p \in Position,
         caller' = [caller EXCEPT ![c] = p], holder' \subseteq Callers,
         c \in Fetches /\ p.at # "away" => p.url \in Urls
  PROVE  CallersShaped'
BY BoundsAreNumbers DEF CallersShaped

LEMMA AwayIsAPosition == Away \in Position
BY BoundsAreNumbers DEF Away, Position

LEMMA Peeks ==
  ASSUME Shaped, NEW c \in Callers, NEW rejected \in 0 .. MaxTokens, Peek(c, rejected),
         holder' = holder, c \in Fetches => caller[c].at # "away"
  PROVE  /\ CallersShaped'
         /\ caller'[c].at \in {"away", "stale", "ready"}
         /\ \A d \in Callers : d # c => caller'[d] = caller[d]
<1>1. caller[c] \in Position /\ server.access \in 0 .. MaxTokens
  BY DEF Shaped, RowsShaped, CallersShaped, ServerRow
<1>2. PICK p \in Position : /\ caller' = [caller EXCEPT ![c] = p]
                            /\ p.at \in {"away", "stale", "ready"}
                            /\ p.at # "away" => p.url = caller[c].url
  <2> DEFINE gotten(at) == [caller[c] EXCEPT !.rejected = rejected, !.access = server.access, !.at = at]
  <2>1. /\ gotten("stale") \in Position /\ gotten("stale").at = "stale"
        /\ gotten("stale").url = caller[c].url
        /\ gotten("ready") \in Position /\ gotten("ready").at = "ready"
        /\ gotten("ready").url = caller[c].url
    BY <1>1 DEF Position
  <2>2. \E p \in {Away, gotten("stale"), gotten("ready")} : caller' = [caller EXCEPT ![c] = p]
    BY <1>1 DEF Peek, Position
  <2>3. Away.at = "away"
    BY DEF Away
  <2> QED
    BY <2>1, <2>2, <2>3, AwayIsAPosition
<1>3. caller \in [Callers -> Position] /\ holder \subseteq Callers
  BY DEF Shaped, CallersShaped
<1>4. CallersShaped'
  BY <1>2, <1>3, OneMoves DEF Shaped, CallersShaped
<1> QED
  BY <1>2, <1>3, <1>4

LEMMA CallersKeepShape ==
  ASSUME Shaped, NEW c \in Callers, CallerStep(c)
  PROVE  CallersShaped'
<1> DEFINE me == caller[c]
<1>0. /\ me \in Position /\ caller \in [Callers -> Position] /\ holder \subseteq Callers
      /\ server \in ServerRow /\ issuer \in Issuer
      /\ c \in Fetches /\ me.at # "away" => me.url \in Urls
  BY DEF Shaped, RowsShaped, CallersShaped
<1>a. CallersShaped
  BY DEF Shaped
<1>at. ASSUME NEW at \in {"away", "read", "stale", "refreshing", "refreshed", "lost", "ready"},
              Go(c, at), me.at # "away", holder' \subseteq Callers
       PROVE  CallersShaped'
  <2>1. [me EXCEPT !.at = at] \in Position /\ [me EXCEPT !.at = at].url = me.url
    BY <1>0 DEF Position
  <2>2. caller' = [caller EXCEPT ![c] = [me EXCEPT !.at = at]]
    BY <1>at DEF Go
  <2> QED
    BY <1>0, <1>a, <1>at, <2>1, <2>2, OneMoves
<1>out. ASSUME LeaveOut(c), holder' \subseteq Callers
        PROVE  CallersShaped'
  BY <1>a, <1>out, AwayIsAPosition, OneMoves DEF LeaveOut, Away
<1>1. CASE Begin(c)
  <2>1. CASE c \in Fetches
    <3> DEFINE p == [Away EXCEPT !.at = "read", !.url = server.url, !.approved = server.allowed]
    <3>1. p \in Position /\ p.url = server.url
      <4>1. server.url \in 0 .. MaxUrls /\ server.allowed \in SUBSET Entry
        BY <1>0 DEF ServerRow
      <4> QED
        BY <4>1, AwayIsAPosition DEF Position
    <3>2. server.url \in Urls
      BY <1>1, <2>1 DEF Begin, Shaped, RowsShaped
    <3>3. caller' = [caller EXCEPT ![c] = p] /\ holder' = holder
      BY <1>1, <2>1 DEF Begin
    <3> QED
      BY <1>0, <1>a, <3>1, <3>2, <3>3, OneMoves
  <2>2. CASE c \notin Fetches
    <3>1. Peek(c, 0) /\ holder' = holder /\ 0 \in 0 .. MaxTokens
      BY <1>1, <2>2, BoundsAreNumbers DEF Begin
    <3> QED
      BY <2>2, <3>1, Peeks
  <2> QED
    BY <2>1, <2>2
<1>2. CASE AskForHeaders(c)
  <2>1. Peek(c, 0) /\ holder' = holder /\ 0 \in 0 .. MaxTokens /\ me.at = "read"
    BY <1>2, BoundsAreNumbers DEF AskForHeaders
  <2> QED
    BY <2>1, Peeks
<1>3. CASE Lock(c)
  <2>0. me.at # "away"
    BY <1>3 DEF Lock
  <2>1. CASE LeaveOut(c) /\ holder' = holder
    BY <1>0, <1>out, <2>1
  <2>2. CASE holder' = holder /\ Go(c, "lost")
    BY <1>0, <1>at, <2>0, <2>2
  <2>3. CASE /\ caller' = [caller EXCEPT ![c].at = "ready", ![c].access = server.access]
             /\ holder' = holder
    <3> DEFINE p == [me EXCEPT !.at = "ready", !.access = server.access]
    <3>1. p \in Position /\ p.url = me.url /\ caller' = [caller EXCEPT ![c] = p]
      BY <1>0, <2>3 DEF Position, ServerRow
    <3> QED
      BY <1>0, <1>a, <2>0, <2>3, <3>1, OneMoves
  <2>4. CASE /\ caller' = [caller EXCEPT ![c].at = "refreshing", ![c].refresh = server.refresh]
             /\ holder' = {c}
    <3> DEFINE p == [me EXCEPT !.at = "refreshing", !.refresh = server.refresh]
    <3>1. p \in Position /\ p.url = me.url /\ caller' = [caller EXCEPT ![c] = p]
      <4>1. server.refresh \in 0 .. MaxTokens
        BY <1>0 DEF ServerRow
      <4>2. p \in Position /\ p.url = me.url
        BY <1>0, <4>1 DEF Position
      <4>3. caller' = [caller EXCEPT ![c] = p]
        BY <1>0, <2>4
      <4> QED
        BY <4>2, <4>3
    <3>2. holder' \subseteq Callers
      BY <2>4
    <3> HIDE DEF p
    <3> QED
      BY <1>0, <1>a, <2>0, <3>1, <3>2, OneMoves
  <2> QED
    BY <1>3, <2>1, <2>2, <2>3, <2>4 DEF Lock
<1>4. CASE LockTimesOut(c)
  BY <1>0, <1>4, <1>out DEF LockTimesOut
<1>5. CASE Refresh(c)
  <2>1. ASSUME NEW rotates \in BOOLEAN, issuer.issued < MaxTokens, me.at # "away",
               caller' = [caller EXCEPT ![c].at = "refreshed", ![c].access = issuer.issued + 1,
                             ![c].refresh = IF rotates THEN issuer.issued + 1 ELSE @],
               holder' = holder
        PROVE  CallersShaped'
    <3> DEFINE p == [me EXCEPT !.at = "refreshed", !.access = issuer.issued + 1,
                               !.refresh = IF rotates THEN issuer.issued + 1 ELSE @]
    <3>1. issuer.issued + 1 \in 0 .. MaxTokens
      BY <1>0, <2>1, BoundsAreNumbers DEF Issuer
    <3>2. p \in Position /\ p.url = me.url
      BY <1>0, <3>1 DEF Position
    <3>3. caller' = [caller EXCEPT ![c] = p]
      BY <1>0, <2>1
    <3> HIDE DEF p
    <3> QED
      BY <1>0, <1>a, <2>1, <3>2, <3>3, OneMoves
  <2>2. CASE Go(c, "lost") /\ holder' = {}
    BY <1>5, <1>at, <2>2 DEF Refresh
  <2>3. CASE LeaveOut(c) /\ holder' = {}
    BY <1>out, <2>3
  <2> QED
    BY <1>5, <2>1, <2>2, <2>3 DEF Refresh
<1>6. CASE SaveRefreshed(c)
  BY <1>6, <1>at DEF SaveRefreshed
<1>7. CASE LoseAnswer(c)
  BY <1>7, <1>out DEF LoseAnswer
<1>8. CASE MarkLost(c)
  BY <1>0, <1>8, <1>out DEF MarkLost
<1>9. CASE Call(c)
  <2>1. holder' = holder /\ c \notin Fetches /\ me.access \in 0 .. MaxTokens
    BY <1>0, <1>9 DEF Call, Position
  <2> QED
    BY <1>0, <1>9, <1>out, <2>1, Peeks DEF Call
<1>10. CASE StoreTools(c)
  BY <1>0, <1>10, <1>out DEF StoreTools
<1> QED
  BY <1>1, <1>2, <1>3, <1>4, <1>5, <1>6, <1>7, <1>8, <1>9, <1>10 DEF CallerStep

LEMMA RowsKeepShape ==
  ASSUME Shaped, NEW c \in Callers, CallerStep(c)
  PROVE  RowsShaped'
<1> DEFINE me == caller[c]
<1>0. /\ me \in Position /\ server \in ServerRow /\ issuer \in Issuer
      /\ lists \in [Urls -> Lists]
      /\ c \in Fetches /\ me.at # "away" => me.url \in Urls
  BY DEF Shaped, RowsShaped, CallersShaped
<1>1. CASE UNCHANGED <<server, issuer, lists, patch, leaving, signins>>
  BY <1>1 DEF Shaped, RowsShaped
<1>2. CASE Refresh(c)
  <2>1. issuer' \in Issuer
    <3>1. ASSUME NEW rotates \in BOOLEAN, issuer.issued < MaxTokens,
                 me.refresh \in issuer.accepts,
                 Exchange(me.refresh, issuer.issued + 1, rotates)
          PROVE  issuer' \in Issuer
      <4>1. issuer.issued + 1 \in 0 .. MaxTokens /\ issuer.issued + 1 \in Tokens
        BY <1>0, <3>1, BoundsAreNumbers DEF Issuer, Tokens
      <4>2. me.refresh \in Tokens
        BY <1>0, <3>1 DEF Issuer
      <4>3. /\ (issuer.accepts \ {me.refresh}) \cup {issuer.issued + 1} \in SUBSET Tokens
            /\ issuer.spent \cup {me.refresh} \in SUBSET Tokens
        BY <1>0, <4>1, <4>2 DEF Issuer
      <4> QED
        BY <1>0, <3>1, <4>1, <4>3 DEF Exchange, Issuer
    <3> QED
      BY <1>0, <1>2, <3>1 DEF Refresh
  <2>2. UNCHANGED <<server, lists, patch, leaving, signins>>
    BY <1>2 DEF Refresh, console, others
  <2> QED
    BY <2>1, <2>2 DEF Shaped, RowsShaped
<1>3. CASE SaveRefreshed(c)
  <2>1. [server EXCEPT !.access = me.access, !.refresh = me.refresh, !.verifier = 0] \in ServerRow
    <3>1. /\ me.access \in 0 .. MaxTokens /\ me.refresh \in 0 .. MaxTokens
          /\ 0 \in 0 .. MaxSignIns
      BY <1>0, BoundsAreNumbers DEF Position
    <3> QED
      BY <1>0, <3>1 DEF ServerRow
  <2>2. server' \in ServerRow /\ server'.there = server.there /\ server'.url = server.url
    BY <1>0, <1>3, <2>1 DEF SaveRefreshed, Update, ServerRow
  <2> QED
    BY <1>3, <2>2 DEF SaveRefreshed, Shaped, RowsShaped, console, others
<1>4. CASE LoseAnswer(c)
  <2>1. issuer' \in Issuer
    <3>1. issuer.unheard \cup {server.refresh} \in SUBSET (0 .. MaxTokens)
      BY <1>0 DEF ServerRow, Issuer
    <3> QED
      BY <1>0, <1>4, <3>1 DEF LoseAnswer, Issuer
  <2> QED
    BY <1>4, <2>1 DEF LoseAnswer, Shaped, RowsShaped, console, others
<1>5. CASE MarkLost(c)
  <2>1. server' \in ServerRow /\ server'.there = server.there /\ server'.url = server.url
    BY <1>0, <1>5 DEF MarkLost, Update, ServerRow
  <2> QED
    BY <1>5, <2>1 DEF MarkLost, Shaped, RowsShaped, console, others
<1>6. CASE StoreTools(c)
  <2> DEFINE listed == lists[me.url]
             listing == {[name |-> l.name, effect |-> l.effect, url |-> me.url] : l \in listed}
             kept == {e \in me.approved :
                        \E l \in listed : l.name = e.name /\ (e.effect = "read" => l.effect = "read")}
  <2>1. me.url \in Urls /\ listed \in SUBSET [name : Names, effect : Effects]
    BY <1>0, <1>6 DEF StoreTools, Lists
  <2>2. listing \in SUBSET Entry
    BY <2>1 DEF Entry
  <2>3. kept \in SUBSET Entry
    BY <1>0 DEF Position
  <2>4. server' = IF server.there THEN [server EXCEPT !.snapshot = listing, !.allowed = kept] ELSE server
    BY <1>6 DEF StoreTools, Update
  <2>5. server' \in ServerRow /\ server'.there = server.there /\ server'.url = server.url
    <3> HIDE DEF listing, kept
    <3> QED
      BY <1>0, <2>2, <2>3, <2>4 DEF ServerRow
  <2> QED
    BY <1>6, <2>5 DEF StoreTools, Shaped, RowsShaped, console, others
<1> QED
  BY <1>1, <1>2, <1>3, <1>4, <1>5, <1>6 DEF CallerStep, Begin, AskForHeaders, Lock, LockTimesOut,
     Call, console, others

LEMMA SignInsKeepShape ==
  ASSUME Shaped, NEW s \in signins,
         ComeBack(s) \/ SwapCode(s) \/ SaveTokens(s) \/ MarkSignedIn(s) \/ AbandonSignIn(s)
  PROVE  Shaped'
<1>0. s \in SigningIn /\ server \in ServerRow /\ issuer \in Issuer /\ signins \subseteq SigningIn
  BY DEF Shaped, RowsShaped
<1>1. signins' \subseteq SigningIn
  <2>1. CASE ComeBack(s)
    <3>1. [s EXCEPT !.at = "back", !.verifier = server.verifier] \in SigningIn
      BY <1>0 DEF SigningIn, ServerRow
    <3> QED
      BY <1>0, <2>1, <3>1 DEF ComeBack, SignInStep
  <2>2. CASE SwapCode(s)
    <3>1. issuer.issued < MaxTokens =>
            [s EXCEPT !.at = "swapped", !.tokens = issuer.issued + 1] \in SigningIn
      <4>1. issuer.issued < MaxTokens => issuer.issued + 1 \in 0 .. MaxTokens
        BY <1>0, BoundsAreNumbers DEF Issuer
      <4> QED
        BY <1>0, <4>1 DEF SigningIn
    <3> QED
      BY <1>0, <2>2, <3>1 DEF SwapCode, SignInStep
  <2>3. CASE SaveTokens(s)
    <3>1. [s EXCEPT !.at = "saved"] \in SigningIn
      BY <1>0 DEF SigningIn
    <3> QED
      BY <1>0, <2>3, <3>1 DEF SaveTokens, SignInStep
  <2>4. CASE MarkSignedIn(s) \/ AbandonSignIn(s)
    BY <1>0, <2>4 DEF MarkSignedIn, AbandonSignIn
  <2> QED
    BY <2>1, <2>2, <2>3, <2>4
<1>2. server' \in ServerRow /\ server'.there = server.there /\ server'.url = server.url
  <2>1. CASE SaveTokens(s)
    <3>1. PICK refresh \in {0, s.tokens} :
            Update([server EXCEPT !.access = s.tokens, !.refresh = refresh, !.verifier = 0])
      BY <2>1 DEF SaveTokens
    <3>2. refresh \in 0 .. MaxTokens /\ s.tokens \in 0 .. MaxTokens
      BY <1>0, BoundsAreNumbers DEF SigningIn
    <3>3. [server EXCEPT !.access = s.tokens, !.refresh = refresh, !.verifier = 0] \in ServerRow
      <4>1. 0 \in 0 .. MaxSignIns
        BY BoundsAreNumbers
      <4> QED
        BY <1>0, <3>2, <4>1 DEF ServerRow
    <3> QED
      BY <1>0, <3>1, <3>3 DEF Update, ServerRow
  <2>2. CASE MarkSignedIn(s)
    BY <1>0, <2>2 DEF MarkSignedIn, Update, ServerRow
  <2>3. CASE server' = server
    BY <1>0, <2>3
  <2> QED
    BY <2>1, <2>2, <2>3 DEF ComeBack, SwapCode, AbandonSignIn
<1>3. issuer' \in Issuer
  <2>1. CASE SwapCode(s) /\ s.verifier = s.challenge
    <3>1. issuer.issued + 1 \in 0 .. MaxTokens /\ issuer.issued + 1 \in Tokens
      BY <1>0, <2>1, BoundsAreNumbers DEF SwapCode, Issuer, Tokens
    <3>2. issuer.accepts \cup {issuer.issued + 1} \in SUBSET Tokens
      BY <1>0, <3>1 DEF Issuer
    <3> QED
      BY <1>0, <2>1, <3>1, <3>2 DEF SwapCode, Issuer
  <2>2. CASE issuer' = issuer
    BY <1>0, <2>2
  <2> QED
    BY <2>1, <2>2 DEF ComeBack, SwapCode, SaveTokens, MarkSignedIn, AbandonSignIn
<1>4. UNCHANGED <<holder, caller, patch, leaving, lists>>
  BY DEF ComeBack, SwapCode, SaveTokens, MarkSignedIn, AbandonSignIn, others
<1> QED
  BY <1>1, <1>2, <1>3, <1>4 DEF Shaped, RowsShaped, CallersShaped

LEMMA TheRestKeepsShape ==
  ASSUME Shaped,
         \/ StartSignIn \/ RevokeStored \/ ForgetSignIn \/ DeleteServer
         \/ ReadForPatch \/ Approve \/ ChangeUrl
         \/ \E a \in Tokens : NearExpiry(a)
         \/ Withdraw \/ \E u \in Urls : ListOtherwise(u)
  PROVE  Shaped'
<1>0. /\ server \in ServerRow /\ issuer \in Issuer /\ signins \subseteq SigningIn
      /\ patch \in [open : BOOLEAN, snapshot : SUBSET Entry, url : 0 .. MaxUrls]
      /\ lists \in [Urls -> Lists]
      /\ server.there => server.url \in Urls
      /\ patch.open => patch.url \in Urls
  BY DEF Shaped, RowsShaped
<1>callers. UNCHANGED <<holder, caller>> => CallersShaped'
  BY DEF Shaped, CallersShaped
<1> USE DEF RowsShaped, Shaped, others, console
<1>1. CASE StartSignIn
  <2>1. issuer' \in Issuer /\ issuer'.started \in 1 .. MaxSignIns
    <3>1. issuer.started + 1 \in 0 .. MaxSignIns /\ issuer.started + 1 \in 1 .. MaxSignIns
      BY <1>0, <1>1, BoundsAreNumbers DEF StartSignIn, Issuer
    <3> QED
      BY <1>0, <1>1, <3>1 DEF StartSignIn, Issuer
  <2>2. [at |-> "page", challenge |-> issuer'.started, verifier |-> 0, tokens |-> 0] \in SigningIn
    BY <2>1, BoundsAreNumbers DEF SigningIn
  <2>3. signins' \subseteq SigningIn
    BY <1>0, <1>1, <2>2 DEF StartSignIn
  <2>4. server' \in ServerRow /\ server'.there = server.there /\ server'.url = server.url
    <3>1. issuer'.started \in 0 .. MaxSignIns
      BY <2>1, BoundsAreNumbers
    <3> QED
      BY <1>0, <1>1, <3>1 DEF StartSignIn, Update, ServerRow
  <2>5. UNCHANGED <<holder, caller, patch, leaving, lists>>
    BY <1>1 DEF StartSignIn
  <2> QED
    BY <1>0, <1>callers, <2>1, <2>3, <2>4, <2>5
<1>2. CASE RevokeStored
  <2>1. issuer' \in Issuer
    BY <1>0, <1>2 DEF RevokeStored, Issuer
  <2>2. leaving' \subseteq {"forget", "delete"}
    BY <1>2 DEF RevokeStored
  <2>3. UNCHANGED <<server, holder, caller, patch, signins, lists>>
    BY <1>2 DEF RevokeStored
  <2> QED
    BY <1>0, <1>callers, <2>1, <2>2, <2>3
<1>3. CASE ForgetSignIn
  <2>1. server' \in ServerRow /\ server'.there = server.there /\ server'.url = server.url
    <3>1. 0 \in 0 .. MaxTokens /\ 0 \in 0 .. MaxSignIns
      BY BoundsAreNumbers
    <3>2. [server EXCEPT !.ok = TRUE, !.access = 0, !.refresh = 0, !.verifier = 0] \in ServerRow
      BY <1>0, <3>1 DEF ServerRow
    <3> QED
      BY <1>0, <1>3, <3>2 DEF ForgetSignIn, Update, ServerRow
  <2>2. leaving' \subseteq {"forget", "delete"}
    BY <1>3 DEF ForgetSignIn
  <2>3. UNCHANGED <<issuer, holder, caller, patch, signins, lists>>
    BY <1>3 DEF ForgetSignIn
  <2> QED
    BY <1>0, <1>callers, <2>1, <2>2, <2>3
<1>4. CASE DeleteServer
  <2>1. Gone \in ServerRow /\ ~Gone.there
    BY BoundsAreNumbers DEF Gone, ServerRow
  <2>2. /\ server' = Gone /\ leaving' = {}
        /\ UNCHANGED <<issuer, holder, caller, patch, signins, lists>>
    BY <1>4 DEF DeleteServer
  <2> QED
    BY <1>0, <1>callers, <2>1, <2>2
<1>5. CASE ReadForPatch
  <2>1. /\ patch' \in [open : BOOLEAN, snapshot : SUBSET Entry, url : 0 .. MaxUrls]
        /\ patch'.url \in Urls
    BY <1>0, <1>5 DEF ReadForPatch, ServerRow
  <2>2. UNCHANGED <<server, issuer, leaving, holder, caller, signins, lists>>
    BY <1>5 DEF ReadForPatch
  <2> QED
    BY <1>0, <1>callers, <2>1, <2>2
<1>nopatch. /\ NoPatch \in [open : BOOLEAN, snapshot : SUBSET Entry, url : 0 .. MaxUrls]
            /\ ~NoPatch.open
  BY BoundsAreNumbers DEF NoPatch
<1>6. CASE Approve
  <2>1. PICK picks \in Lists :
          Update([server EXCEPT !.allowed =
            {[name |-> t.name, effect |-> t.effect, url |-> patch.url] : t \in picks}])
    BY <1>6 DEF Approve
  <2> DEFINE approved == {[name |-> t.name, effect |-> t.effect, url |-> patch.url] : t \in picks}
  <2>2. approved \in SUBSET Entry
    <3>1. patch.url \in Urls /\ picks \subseteq [name : Names, effect : Effects]
      BY <1>0, <1>6 DEF Approve, Lists
    <3> QED
      BY <3>1 DEF Entry
  <2>3. server' \in ServerRow /\ server'.there = server.there /\ server'.url = server.url
    <3>1. server' = IF server.there THEN [server EXCEPT !.allowed = approved] ELSE server
      BY <2>1 DEF Update
    <3> HIDE DEF approved
    <3> QED
      BY <1>0, <2>2, <3>1 DEF ServerRow
  <2>4. patch' = NoPatch /\ UNCHANGED <<issuer, leaving, holder, caller, signins, lists>>
    BY <1>6 DEF Approve
  <2> QED
    BY <1>0, <1>callers, <1>nopatch, <2>3, <2>4
<1>7. CASE ChangeUrl
  <2>1. patch.url + 1 \in Urls /\ patch.url + 1 \in 0 .. MaxUrls
    BY <1>0, <1>7, BoundsAreNumbers DEF ChangeUrl, Urls
  <2>2. [server EXCEPT !.url = patch.url + 1, !.snapshot = {}, !.allowed = {}] \in ServerRow
    BY <1>0, <2>1 DEF ServerRow
  <2>3. server' \in ServerRow /\ (server'.there => server'.url \in Urls)
    BY <1>0, <1>7, <2>1, <2>2 DEF ChangeUrl, Update, ServerRow
  <2>4. patch' = NoPatch /\ UNCHANGED <<issuer, leaving, holder, caller, signins, lists>>
    BY <1>7 DEF ChangeUrl
  <2> QED
    BY <1>0, <1>callers, <1>nopatch, <2>3, <2>4
<1>8. ASSUME NEW a \in Tokens, NearExpiry(a)
      PROVE  Shaped'
  <2>1. issuer' \in Issuer
    BY <1>0, <1>8 DEF NearExpiry, Issuer
  <2>2. UNCHANGED <<server, patch, leaving, holder, caller, signins, lists>>
    BY <1>8 DEF NearExpiry
  <2> QED
    BY <1>0, <1>callers, <2>1, <2>2
<1>9. CASE Withdraw
  <2>1. issuer' \in Issuer
    BY <1>0, <1>9 DEF Withdraw, Issuer
  <2>2. UNCHANGED <<server, patch, leaving, holder, caller, signins, lists>>
    BY <1>9 DEF Withdraw
  <2> QED
    BY <1>0, <1>callers, <2>1, <2>2
<1>10. ASSUME NEW u \in Urls, ListOtherwise(u)
       PROVE  Shaped'
  <2>1. lists' \in [Urls -> Lists]
    BY <1>0, <1>10 DEF ListOtherwise
  <2>2. UNCHANGED <<server, issuer, patch, leaving, holder, caller, signins>>
    BY <1>10 DEF ListOtherwise
  <2> QED
    BY <1>0, <1>callers, <2>1, <2>2
<1> QED
  BY <1>1, <1>2, <1>3, <1>4, <1>5, <1>6, <1>7, <1>8, <1>9, <1>10

LEMMA ShapeStays == ASSUME Shaped, ServersNext PROVE Shaped'
BY CallersKeepShape, RowsKeepShape, SignInsKeepShape, TheRestKeepsShape DEF ServersNext, Shaped

-----------------------------------------------------------------------------
(* Every step keeps the custody of tokens.                                  *)

Busy == {"refreshing", "refreshed"}

(* A step that neither issues nor spends a token, and leaves the lock and   *)
(* what goes on under it alone.                                             *)
LEMMA Aside ==
  ASSUME Shaped, Custody,
         server'.refresh = server.refresh, ~server'.there => server'.refresh = 0,
         issuer'.issued = issuer.issued, issuer'.spent = issuer.spent,
         issuer'.unheard = issuer.unheard, issuer'.accepts \subseteq issuer.accepts,
         holder' = holder,
         \A c \in Callers :
           \/ caller'[c] = caller[c]
           \/ caller[c].at \notin Busy /\ caller'[c].at \notin Busy,
         \A s \in signins' : s.at = "swapped" => s \in signins
  PROVE  Custody'
<1>1. Dead' = Dead
  BY DEF Dead
<1>2. \A c \in Callers : caller'[c].at \in Busy => caller'[c] = caller[c]
  OBVIOUS
<1>3. \A c \in Callers : c \in holder' <=> caller'[c].at \in {"refreshing", "refreshed"}
  BY DEF Custody, Busy
<1>4. \A c \in Callers :
        /\ caller'[c].at = "refreshing" => caller'[c].refresh = server'.refresh
        /\ caller'[c].at = "refreshed" =>
             caller'[c].refresh <= issuer'.issued /\ caller'[c].refresh \notin Dead'
  BY <1>1, <1>2 DEF Custody, Busy
<1>5. (\A c \in Callers : caller'[c].at # "refreshed") => server'.refresh \notin Dead'
  <2>1. ASSUME NEW c \in Callers, caller[c].at = "refreshed"
        PROVE  caller'[c].at = "refreshed"
    BY <2>1 DEF Busy
  <2> QED
    BY <1>1, <2>1 DEF Custody
<1>6. \A s \in signins' : s.at = "swapped" =>
        /\ s.tokens \in 1 .. issuer'.issued /\ s.tokens # server'.refresh /\ s.tokens \notin Dead'
        /\ \A c \in Callers : caller'[c].at = "refreshed" => caller'[c].refresh # s.tokens
        /\ \A t \in signins' : t.at = "swapped" /\ t.tokens = s.tokens => t = s
  BY <1>1, <1>2 DEF Custody, Busy
<1> QED
  BY <1>3, <1>4, <1>5, <1>6 DEF Custody

(* Whoever goes about it without the lock is not at work under it.          *)
LEMMA PeekersAreIdle ==
  ASSUME Shaped, NEW c \in Callers, NEW rejected \in 0 .. MaxTokens, Peek(c, rejected),
         holder' = holder, c \in Fetches => caller[c].at # "away", caller[c].at \notin Busy
  PROVE  \A d \in Callers :
           \/ caller'[d] = caller[d]
           \/ caller[d].at \notin Busy /\ caller'[d].at \notin Busy
BY Peeks DEF Busy

LEMMA CustodyAside ==
  ASSUME ServersInv, NEW c \in Callers,
         Begin(c) \/ AskForHeaders(c) \/ LockTimesOut(c) \/ MarkLost(c) \/ Call(c) \/ StoreTools(c)
  PROVE  Custody'
<1>0. /\ server \in ServerRow /\ caller \in [Callers -> Position] /\ Shaped /\ Custody
      /\ 0 \in 0 .. MaxTokens
  BY BoundsAreNumbers DEF ServersInv, Shaped, RowsShaped, CallersShaped
<1>1. /\ issuer' = issuer /\ holder' = holder /\ signins' = signins
      /\ server'.refresh = server.refresh /\ server'.there = server.there
  <2>1. CASE MarkLost(c) \/ StoreTools(c)
    BY <1>0, <2>1 DEF MarkLost, StoreTools, Update, ServerRow, console
  <2>2. CASE Begin(c) \/ AskForHeaders(c) \/ LockTimesOut(c) \/ Call(c)
    BY <2>2 DEF Begin, AskForHeaders, LockTimesOut, Call, console
  <2> QED
    BY <2>1, <2>2
<1>2. \A d \in Callers : \/ caller'[d] = caller[d]
                         \/ caller[d].at \notin Busy /\ caller'[d].at \notin Busy
  <2>0. ASSUME LeaveOut(c), caller[c].at \notin Busy
        PROVE  \A d \in Callers : \/ caller'[d] = caller[d]
                                  \/ caller[d].at \notin Busy /\ caller'[d].at \notin Busy
    BY <1>0, <2>0 DEF LeaveOut, Away, Busy
  <2>1. CASE Begin(c)
    <3>1. CASE c \in Fetches
      <4>1. /\ caller' = [caller EXCEPT ![c] = [Away EXCEPT !.at = "read", !.url = server.url,
                                                            !.approved = server.allowed]]
            /\ caller[c].at = "away"
        BY <2>1, <3>1 DEF Begin
      <4>2. [Away EXCEPT !.at = "read", !.url = server.url, !.approved = server.allowed].at = "read"
        BY DEF Away
      <4> QED
        BY <1>0, <4>1, <4>2 DEF Busy
    <3>2. CASE c \notin Fetches
      BY <1>0, <1>1, <2>1, <3>2, PeekersAreIdle DEF Begin, Busy
    <3> QED
      BY <3>1, <3>2
  <2>2. CASE AskForHeaders(c)
    BY <1>0, <1>1, <2>2, PeekersAreIdle DEF AskForHeaders, Busy
  <2>3. CASE LockTimesOut(c) \/ MarkLost(c) \/ StoreTools(c)
    BY <2>0, <2>3 DEF LockTimesOut, MarkLost, StoreTools, Busy
  <2>4. CASE Call(c)
    <3>1. caller[c].at = "ready" /\ c \notin Fetches /\ caller[c].access \in 0 .. MaxTokens
      BY <1>0, <2>4 DEF Call, Position
    <3> QED
      BY <1>0, <1>1, <2>0, <2>4, <3>1, PeekersAreIdle DEF Call, Busy
  <2> QED
    BY <2>1, <2>2, <2>3, <2>4
<1>3. ~server'.there => server'.refresh = 0
  BY <1>0, <1>1 DEF Custody
<1> QED
  BY <1>0, <1>1, <1>2, <1>3, Aside

(* The numbers: tokens are natural, and none is dead that is not issued.    *)
LEMMA Numbers ==
  ASSUME Shaped, Custody
  PROVE  /\ issuer.issued \in Nat /\ server.refresh \in Nat
         /\ \A c \in Callers : caller[c].refresh \in Nat
         /\ \A s \in signins : s.tokens \in Nat
         /\ Dead \subseteq 1 .. issuer.issued
         /\ issuer.issued + 1 \notin Dead /\ 0 \notin Dead
<1>1. /\ issuer \in Issuer /\ server \in ServerRow /\ caller \in [Callers -> Position]
      /\ signins \subseteq SigningIn
  BY DEF Shaped, RowsShaped, CallersShaped
<1>2. issuer.issued \in Nat /\ server.refresh \in Nat
  BY <1>1, BoundsAreNumbers DEF Issuer, ServerRow
<1>3. \A c \in Callers : caller[c].refresh \in Nat
  BY <1>1, BoundsAreNumbers DEF Position
<1>4. \A s \in signins : s.tokens \in Nat
  BY <1>1, BoundsAreNumbers DEF SigningIn
<1>5. Dead \subseteq 1 .. issuer.issued
  <2>1. issuer.spent \subseteq Tokens
    BY <1>1 DEF Issuer
  <2> QED
    BY <1>2, <2>1, BoundsAreNumbers DEF Dead, Custody, Tokens
<1> QED
  BY <1>2, <1>3, <1>4, <1>5

(* Whoever holds the lock is the only one at work under it.                 *)
LEMMA Alone ==
  ASSUME CallersShaped, Custody, NEW c \in Callers, caller[c].at \in Busy
  PROVE  \A d \in Callers : d # c => caller[d].at \notin Busy
BY DEF Custody, Busy

LEMMA NobodyAtWork ==
  ASSUME Custody, Unlocked
  PROVE  \A c \in Callers : caller[c].at \notin Busy
BY DEF Custody, Unlocked, Busy

(* The lock is given back: whatever the row holds then is alive, and is not *)
(* what a sign-in is about to bring.                                        *)
LEMMA GivenBack ==
  ASSUME Shaped, Custody, holder' = {},
         \A c \in Callers : caller'[c].at \notin Busy,
         issuer'.issued = issuer.issued, issuer'.spent = issuer.spent,
         issuer.unheard \subseteq issuer'.unheard, issuer'.accepts \subseteq issuer.accepts,
         ~server'.there => server'.refresh = 0,
         server'.refresh <= issuer'.issued, server'.refresh \notin Dead',
         \A s \in signins' : s.at = "swapped" => s \in signins /\ s.tokens # server'.refresh
  PROVE  Custody'
<1>1. Dead' \subseteq Dead
  BY DEF Dead
<1>2. \A c \in Callers : caller'[c].at # "refreshing" /\ caller'[c].at # "refreshed"
  BY DEF Busy
<1> QED
  BY <1>1, <1>2 DEF Custody

LEMMA CustodyUnderLock ==
  ASSUME ServersInv, NEW c \in Callers,
         Lock(c) \/ Refresh(c) \/ SaveRefreshed(c) \/ LoseAnswer(c)
  PROVE  Custody'
<1> DEFINE me == caller[c]
<1>0. /\ server \in ServerRow /\ issuer \in Issuer /\ caller \in [Callers -> Position] /\ me \in Position
      /\ Shaped /\ Custody /\ CallersShaped
  BY DEF ServersInv, Shaped, RowsShaped, CallersShaped
<1>1. CASE Lock(c)
  <2>0. /\ UNCHANGED <<server, issuer, signins>> /\ holder = {} /\ me.at = "stale"
        /\ \A d \in Callers : caller[d].at \notin Busy
    BY <1>0, <1>1, NobodyAtWork DEF Lock, Unlocked, console
  <2>1. CASE holder' = holder
    <3>1. \A d \in Callers : \/ caller'[d] = caller[d]
                             \/ caller[d].at \notin Busy /\ caller'[d].at \notin Busy
      <4>1. holder' # {c}
        BY <2>0, <2>1
      <4>2. \/ caller' = [caller EXCEPT ![c] = Away]
            \/ caller' = [caller EXCEPT ![c].at = "ready", ![c].access = server.access]
            \/ caller' = [caller EXCEPT ![c].at = "lost"]
        BY <1>1, <4>1 DEF Lock, LeaveOut, Go
      <4>3. caller'[c].at \in {"away", "ready", "lost"}
        BY <1>0, <4>2 DEF Away, Position
      <4>4. \A d \in Callers : d # c => caller'[d] = caller[d]
        BY <1>0, <4>2
      <4> QED
        BY <2>0, <4>3, <4>4 DEF Busy
    <3>2. ~server'.there => server'.refresh = 0
      BY <1>0, <2>0 DEF Custody
    <3> QED
      BY <1>0, <2>0, <2>1, <3>1, <3>2, Aside
  <2>2. CASE /\ caller' = [caller EXCEPT ![c].at = "refreshing", ![c].refresh = server.refresh]
             /\ holder' = {c}
    <3>1. caller'[c].at = "refreshing" /\ caller'[c].refresh = server.refresh
      BY <1>0, <2>2 DEF Position
    <3>2. \A d \in Callers : d # c => caller'[d].at \notin Busy
      BY <1>0, <2>0, <2>2
    <3>3. server.refresh \notin Dead /\ Dead' = Dead
      BY <1>0, <2>0 DEF Custody, Busy, Dead
    <3>4. \A d \in Callers : d \in holder' <=> caller'[d].at \in {"refreshing", "refreshed"}
      BY <2>2, <3>1, <3>2 DEF Busy
    <3>5. \A d \in Callers : caller'[d].at # "refreshed"
      BY <3>1, <3>2 DEF Busy
    <3>6. \A d \in Callers : caller'[d].at = "refreshing" => caller'[d].refresh = server'.refresh
      BY <2>0, <3>1, <3>2 DEF Busy
    <3> QED
      BY <1>0, <2>0, <2>2, <3>3, <3>4, <3>5, <3>6 DEF Custody
  <2> QED
    BY <1>1, <2>1, <2>2 DEF Lock
<1>2. ASSUME holder' = {}, me.at \in Busy, LeaveOut(c) \/ Go(c, "lost") \/ Go(c, "ready")
      PROVE  \A d \in Callers : caller'[d].at \notin Busy
  <2>1. \A d \in Callers : d # c => caller[d].at \notin Busy
    BY <1>0, <1>2, Alone
  <2>2. caller'[c].at \notin Busy /\ \A d \in Callers : d # c => caller'[d] = caller[d]
    BY <1>0, <1>2 DEF LeaveOut, Go, Away, Busy, Position
  <2> QED
    BY <2>1, <2>2
<1>3. CASE Refresh(c)
  <2>0. me.at = "refreshing" /\ UNCHANGED <<server, signins>>
    BY <1>3 DEF Refresh, console
  <2>1. /\ me.refresh = server.refresh /\ server.refresh \notin Dead
        /\ \A d \in Callers : d # c => caller[d].at \notin Busy
        /\ c \in holder /\ \A d \in Callers : d \in holder <=> d = c
    <3>1. \A d \in Callers : d # c => caller[d].at \notin Busy
      BY <1>0, <2>0, Alone DEF Busy
    <3>2. \A d \in Callers : caller[d].at # "refreshed"
      BY <2>0, <3>1 DEF Busy
    <3> QED
      BY <1>0, <2>0, <3>1, <3>2 DEF Custody, Busy
  <2>2. CASE /\ holder' = {} /\ issuer' = issuer
             /\ LeaveOut(c) \/ Go(c, "lost")
    <3>1. \A d \in Callers : caller'[d].at \notin Busy
      BY <1>2, <2>0, <2>2 DEF Busy
    <3>2. \A s \in signins' : s.at = "swapped" => s \in signins /\ s.tokens # server'.refresh
      BY <1>0, <2>0 DEF Custody
    <3>3. ~server'.there => server'.refresh = 0
      BY <1>0, <2>0 DEF Custody
    <3>4. server'.refresh <= issuer'.issued /\ server'.refresh \notin Dead'
      BY <1>0, <2>0, <2>1, <2>2 DEF Custody, Dead
    <3> QED
      BY <1>0, <2>2, <3>1, <3>2, <3>3, <3>4, GivenBack
  <2>3. ASSUME NEW rotates \in BOOLEAN, holder' = holder,
               Exchange(me.refresh, issuer.issued + 1, rotates),
               me.refresh \in issuer.accepts,
               caller' = [caller EXCEPT ![c].at = "refreshed", ![c].access = issuer.issued + 1,
                             ![c].refresh = IF rotates THEN issuer.issued + 1 ELSE @]
        PROVE  Custody'
    <3> DEFINE n == issuer.issued + 1
    <3>1. /\ issuer'.issued = n /\ issuer'.unheard = issuer.unheard
          /\ issuer'.spent = IF rotates THEN issuer.spent \cup {me.refresh} ELSE issuer.spent
          /\ issuer'.accepts \subseteq issuer.accepts \cup {n}
      BY <1>0, <2>3 DEF Exchange, Issuer
    <3>2. /\ caller'[c].at = "refreshed"
          /\ caller'[c].refresh = IF rotates THEN n ELSE me.refresh
          /\ \A d \in Callers : d # c => caller'[d] = caller[d]
      BY <1>0, <2>3 DEF Position
    <3>3. /\ n \in Nat /\ server.refresh < n /\ me.refresh = server.refresh
          /\ issuer.issued < n
      BY <1>0, <2>1, Numbers DEF Custody
    <3>4. Dead' \subseteq IF rotates THEN Dead \cup {server.refresh} ELSE Dead
      BY <2>1, <3>1 DEF Dead
    <3>5. caller'[c].refresh <= n /\ caller'[c].refresh \notin Dead'
      <4>1. n \notin Dead /\ n # server.refresh
        BY <1>0, <3>3, Numbers
      <4> QED
        BY <1>0, <2>1, <3>2, <3>3, <3>4, <4>1, Numbers
    <3>6. \A k \in issuer'.spent \cup issuer'.accepts : k <= n
      <4>1. \A k \in issuer.spent \cup issuer.accepts : k \in Nat /\ k <= issuer.issued
        BY <1>0, BoundsAreNumbers DEF Custody, Issuer, Tokens
      <4>2. \A k \in issuer.spent \cup issuer.accepts : k <= n
        BY <1>0, <4>1, Numbers
      <4>3. me.refresh <= n
        BY <1>0, <3>3, Numbers
      <4> QED
        BY <3>1, <3>3, <4>2, <4>3
    <3>7. \A s \in signins' : s.at = "swapped" =>
            /\ s.tokens \in 1 .. n /\ s.tokens # server'.refresh /\ s.tokens \notin Dead'
            /\ s.tokens # caller'[c].refresh
            /\ \A t \in signins' : t.at = "swapped" /\ t.tokens = s.tokens => t = s
      <4>1. ASSUME NEW s \in signins, s.at = "swapped"
            PROVE  /\ s.tokens \in 1 .. issuer.issued /\ s.tokens # server.refresh
                   /\ s.tokens \notin Dead
                   /\ \A t \in signins : t.at = "swapped" /\ t.tokens = s.tokens => t = s
        BY <1>0, <4>1 DEF Custody
      <4>2. ASSUME NEW s \in signins, s.at = "swapped"
            PROVE  s.tokens \in 1 .. n /\ s.tokens \notin Dead' /\ s.tokens # caller'[c].refresh
        BY <1>0, <3>2, <3>3, <3>4, <4>1, <4>2, Numbers
      <4> QED
        BY <2>0, <4>1, <4>2
    <3>8. \A d \in Callers : d \in holder' <=> caller'[d].at \in {"refreshing", "refreshed"}
      BY <2>1, <2>3, <3>2 DEF Busy
    <3>9. \A d \in Callers : d # c => caller'[d].at \notin {"refreshing", "refreshed"}
      BY <2>1, <3>2 DEF Busy
    <3>10. server'.refresh <= issuer'.issued /\ (~server'.there => server'.refresh = 0)
      BY <1>0, <2>0, <3>1, <3>3, Numbers DEF Custody
    <3>11. \A d, e \in holder' : d = e
      BY <1>0, <2>3 DEF Custody
    <3> HIDE DEF n
    <3> QED
      BY <3>1, <3>2, <3>5, <3>6, <3>7, <3>8, <3>9, <3>10, <3>11 DEF Custody
  <2> QED
    BY <1>3, <2>2, <2>3 DEF Refresh
<1>4. CASE SaveRefreshed(c)
  <2>0. /\ me.at = "refreshed" /\ holder' = {} /\ UNCHANGED <<issuer, signins>>
        /\ \A d \in Callers : caller'[d].at \notin Busy
    BY <1>2, <1>4 DEF SaveRefreshed, Busy, console
  <2>1. /\ server'.there = server.there
        /\ server'.refresh = IF server.there THEN me.refresh ELSE server.refresh
    BY <1>0, <1>4 DEF SaveRefreshed, Update, ServerRow
  <2>2. /\ me.refresh <= issuer.issued /\ me.refresh \notin Dead
        /\ ~server.there => server.refresh = 0
        /\ server.refresh <= issuer.issued /\ 0 \notin Dead
    BY <1>0, <2>0, Numbers DEF Custody
  <2>3. \A s \in signins : s.at = "swapped" =>
          s.tokens # me.refresh /\ s.tokens # server.refresh
    BY <1>0, <2>0 DEF Custody
  <2>4. server'.refresh <= issuer'.issued /\ server'.refresh \notin Dead'
    BY <2>0, <2>1, <2>2 DEF Dead
  <2> QED
    BY <1>0, <2>0, <2>1, <2>2, <2>3, <2>4, GivenBack
<1>5. CASE LoseAnswer(c)
  <2>0. /\ me.at = "refreshed" /\ holder' = {} /\ UNCHANGED <<server, signins>>
        /\ \A d \in Callers : caller'[d].at \notin Busy
    BY <1>2, <1>5 DEF LoseAnswer, Busy, console
  <2>1. /\ issuer'.issued = issuer.issued /\ issuer'.spent = issuer.spent
        /\ issuer'.accepts = issuer.accepts
        /\ issuer'.unheard = issuer.unheard \cup {server.refresh}
    BY <1>0, <1>5 DEF LoseAnswer, Issuer
  <2>2. server'.refresh <= issuer'.issued /\ server'.refresh \notin Dead'
    BY <1>0, <2>0, <2>1 DEF Dead, Custody
  <2>3. /\ ~server'.there => server'.refresh = 0
        /\ \A s \in signins' : s.at = "swapped" => s \in signins /\ s.tokens # server'.refresh
    BY <1>0, <2>0 DEF Custody
  <2> QED
    BY <1>0, <2>0, <2>1, <2>2, <2>3, GivenBack
<1> QED
  BY <1>1, <1>3, <1>4, <1>5

LEMMA CustodyOfSignIns ==
  ASSUME ServersInv, NEW s \in signins,
         ComeBack(s) \/ SwapCode(s) \/ SaveTokens(s) \/ MarkSignedIn(s) \/ AbandonSignIn(s)
  PROVE  Custody'
<1>0. /\ server \in ServerRow /\ issuer \in Issuer /\ signins \subseteq SigningIn /\ s \in SigningIn
      /\ Shaped /\ Custody
  BY DEF ServersInv, Shaped, RowsShaped
<1>1. holder' = holder /\ caller' = caller
  BY DEF ComeBack, SwapCode, SaveTokens, MarkSignedIn, AbandonSignIn
<1>2. ASSUME server'.refresh = server.refresh, server'.there = server.there, issuer' = issuer,
             \A t \in signins' : t.at = "swapped" => t \in signins
      PROVE  Custody'
  <2>1. ~server'.there => server'.refresh = 0
    BY <1>0, <1>2 DEF Custody
  <2> QED
    BY <1>0, <1>1, <1>2, <2>1, Aside
<1>3. CASE ComeBack(s)
  <2>1. \A t \in signins' : t.at = "swapped" => t \in signins
    <3>1. \/ signins' = signins \ {s}
          \/ signins' = (signins \ {s}) \cup {[s EXCEPT !.at = "back", !.verifier = server.verifier]}
      BY <1>3 DEF ComeBack, SignInStep
    <3>2. [s EXCEPT !.at = "back", !.verifier = server.verifier].at = "back"
      BY <1>0 DEF SigningIn
    <3> QED
      BY <3>1, <3>2
  <2> QED
    BY <1>2, <1>3, <2>1 DEF ComeBack
<1>4. CASE MarkSignedIn(s) \/ AbandonSignIn(s)
  BY <1>0, <1>2, <1>4 DEF MarkSignedIn, AbandonSignIn, Update, ServerRow
<1>5. CASE SwapCode(s)
  <2>1. CASE s.verifier # s.challenge
    BY <1>2, <1>5, <2>1 DEF SwapCode
  <2>2. CASE s.verifier = s.challenge
    <3> DEFINE n == issuer.issued + 1
               swapped == [s EXCEPT !.at = "swapped", !.tokens = n]
    <3>1. /\ issuer'.issued = n /\ issuer'.spent = issuer.spent
          /\ issuer'.unheard = issuer.unheard /\ issuer'.accepts = issuer.accepts \cup {n}
          /\ server' = server /\ s.at = "back"
          /\ signins' = (signins \ {s}) \cup {swapped}
      BY <1>0, <1>5, <2>2 DEF SwapCode, SignInStep, Issuer
    <3>2. /\ n \in Nat /\ issuer.issued < n /\ n \in 1 .. n /\ n \notin Dead /\ Dead' = Dead
          /\ server.refresh < n /\ server.refresh <= n
      BY <1>0, <3>1, Numbers DEF Dead, Custody
    <3>3. swapped.tokens = n
      BY <1>0 DEF SigningIn
    <3>4. ASSUME NEW t \in signins, t.at = "swapped"
          PROVE  /\ t.tokens \in 1 .. n /\ t.tokens < n /\ t.tokens # server.refresh
                 /\ t.tokens \notin Dead /\ t # swapped
                 /\ \A c \in Callers : caller[c].at = "refreshed" => caller[c].refresh # t.tokens
                 /\ \A v \in signins : v.at = "swapped" /\ v.tokens = t.tokens => v = t
      <4>1. t.tokens \in 1 .. issuer.issued
        BY <1>0, <3>4 DEF Custody
      <4>2. t.tokens \in 1 .. n /\ t.tokens < n
        BY <1>0, <3>2, <4>1, Numbers
      <4>3. t # swapped
        <5>1. t.tokens \in Nat /\ t.tokens # n
          BY <1>0, <3>2, <4>2, Numbers
        <5> HIDE DEF swapped, n
        <5> QED
          BY <3>3, <5>1
      <4>4. /\ t.tokens # server.refresh /\ t.tokens \notin Dead
            /\ \A c \in Callers : caller[c].at = "refreshed" => caller[c].refresh # t.tokens
            /\ \A v \in signins : v.at = "swapped" /\ v.tokens = t.tokens => v = t
        BY <1>0, <3>4 DEF Custody
      <4> QED
        BY <4>2, <4>3, <4>4
    <3>5. ASSUME NEW c \in Callers, caller[c].at = "refreshed"
          PROVE  caller[c].refresh # n /\ caller[c].refresh <= n /\ caller[c].refresh \notin Dead
      <4>1. caller[c].refresh <= issuer.issued /\ caller[c].refresh \notin Dead
        BY <1>0, <3>5 DEF Custody
      <4> QED
        BY <1>0, <3>2, <4>1, Numbers
    <3>6. \A t \in signins' : t.at = "swapped" =>
            /\ t.tokens \in 1 .. issuer'.issued /\ t.tokens # server'.refresh /\ t.tokens \notin Dead'
            /\ \A c \in Callers : caller'[c].at = "refreshed" => caller'[c].refresh # t.tokens
            /\ \A v \in signins' : v.at = "swapped" /\ v.tokens = t.tokens => v = t
      <4> HIDE DEF n, swapped
      <4>1. n # server.refresh
        BY <1>0, <3>2, Numbers
      <4>2. \A t \in signins : t.at = "swapped" => t.tokens # n
        BY <1>0, <3>2, <3>4, Numbers
      <4> QED
        BY <1>1, <3>1, <3>2, <3>3, <3>4, <3>5, <4>1, <4>2
    <3>7. \A k \in issuer'.spent \cup issuer'.accepts : k <= issuer'.issued
      <4>1. \A k \in issuer.spent \cup issuer.accepts : k \in Nat /\ k <= issuer.issued
        BY <1>0, BoundsAreNumbers DEF Custody, Issuer, Tokens
      <4>2. \A k \in issuer.spent \cup issuer.accepts : k <= n
        BY <1>0, <4>1, Numbers
      <4> QED
        BY <3>1, <3>2, <4>2
    <3>8. /\ server'.refresh <= issuer'.issued /\ (~server'.there => server'.refresh = 0)
          /\ ((\A c \in Callers : caller'[c].at # "refreshed") => server'.refresh \notin Dead')
      BY <1>0, <1>1, <3>1, <3>2 DEF Custody
    <3>9. \A c \in Callers :
            /\ caller'[c].at = "refreshing" => caller'[c].refresh = server'.refresh
            /\ caller'[c].at = "refreshed" =>
                 caller'[c].refresh <= issuer'.issued /\ caller'[c].refresh \notin Dead'
      BY <1>0, <1>1, <3>1, <3>2, <3>5 DEF Custody
    <3>10. /\ \A c \in Callers : c \in holder' <=> caller'[c].at \in {"refreshing", "refreshed"}
           /\ \A c, d \in holder' : c = d
      BY <1>0, <1>1 DEF Custody
    <3> QED
      BY <3>6, <3>7, <3>8, <3>9, <3>10 DEF Custody
  <2> QED
    BY <2>1, <2>2
<1>6. CASE SaveTokens(s)
  <2>0. s.at = "swapped" /\ holder = {} /\ issuer' = issuer /\ Dead' = Dead
    BY <1>6 DEF SaveTokens, Unlocked, Dead
  <2>1. \A c \in Callers : caller'[c].at \notin Busy
    BY <1>0, <1>1, <1>6, NobodyAtWork DEF SaveTokens
  <2>2. PICK refresh \in {0, s.tokens} :
          Update([server EXCEPT !.access = s.tokens, !.refresh = refresh, !.verifier = 0])
    BY <1>6 DEF SaveTokens
  <2>3. server'.there = server.there /\ server'.refresh \in {refresh, server.refresh}
        /\ (~server.there => server'.refresh = server.refresh)
    BY <1>0, <2>2 DEF Update, ServerRow
  <2>4. /\ s.tokens \in 1 .. issuer.issued /\ s.tokens \notin Dead
        /\ \A t \in signins : t.at = "swapped" => t.tokens # server.refresh /\ t.tokens \in 1 .. issuer.issued
        /\ \A t \in signins : t.at = "swapped" /\ t.tokens = s.tokens => t = s
    BY <1>0, <2>0 DEF Custody
  <2>5. \A t \in signins' : t.at = "swapped" => t \in signins /\ t # s
    BY <1>0, <1>6 DEF SaveTokens, SignInStep, SigningIn
  <2>6. server.refresh \notin Dead /\ server.refresh <= issuer.issued
    BY <1>0, <1>1, <2>1 DEF Custody, Busy
  <2>7. server'.refresh <= issuer'.issued /\ server'.refresh \notin Dead'
    BY <1>0, <2>0, <2>3, <2>4, <2>6, Numbers
  <2>8. \A t \in signins' : t.at = "swapped" => t \in signins /\ t.tokens # server'.refresh
    BY <2>3, <2>4, <2>5
  <2>9. ~server'.there => server'.refresh = 0
    BY <1>0, <2>3 DEF Custody
  <2> QED
    BY <1>0, <1>1, <2>0, <2>1, <2>7, <2>8, <2>9, GivenBack
<1> QED
  BY <1>3, <1>4, <1>5, <1>6

LEMMA CustodyOfTheRest ==
  ASSUME ServersInv,
         \/ StartSignIn \/ RevokeStored \/ ForgetSignIn \/ DeleteServer
         \/ ReadForPatch \/ Approve \/ ChangeUrl
         \/ \E a \in Tokens : NearExpiry(a)
         \/ Withdraw \/ \E u \in Urls : ListOtherwise(u)
  PROVE  Custody'
<1>0. server \in ServerRow /\ issuer \in Issuer /\ Shaped /\ Custody
  BY DEF ServersInv, Shaped, RowsShaped
<1>1. holder' = holder /\ caller' = caller
  BY DEF StartSignIn, RevokeStored, ForgetSignIn, DeleteServer, ReadForPatch, Approve, ChangeUrl,
         NearExpiry, Withdraw, ListOtherwise
<1>2. CASE ForgetSignIn \/ DeleteServer
  <2>1. /\ holder = {} /\ issuer' = issuer /\ Dead' = Dead /\ signins' = signins
        /\ \A c \in Callers : caller'[c].at \notin Busy
    BY <1>0, <1>1, <1>2, NobodyAtWork DEF ForgetSignIn, DeleteServer, Unlocked, Dead
  <2>2. server'.refresh = 0
    <3>1. CASE ForgetSignIn
      <4>1. CASE server.there
        BY <1>0, <3>1, <4>1 DEF ForgetSignIn, Update, ServerRow
      <4>2. CASE ~server.there
        BY <1>0, <3>1, <4>2 DEF ForgetSignIn, Update, Custody
      <4> QED
        BY <4>1, <4>2
    <3>2. CASE DeleteServer
      BY <3>2 DEF DeleteServer, Gone
    <3> QED
      BY <1>2, <3>1, <3>2
  <2>3. /\ 0 <= issuer.issued /\ 0 \notin Dead
        /\ \A s \in signins : s.at = "swapped" => s.tokens # 0
    BY <1>0, Numbers DEF Custody
  <2> QED
    BY <1>0, <1>1, <2>1, <2>2, <2>3, GivenBack
<1>3. ASSUME server'.refresh = server.refresh, server'.there = server.there,
             issuer'.issued = issuer.issued, issuer'.spent = issuer.spent,
             issuer'.unheard = issuer.unheard, issuer'.accepts \subseteq issuer.accepts,
             \A s \in signins' : s.at = "swapped" => s \in signins
      PROVE  Custody'
  <2>1. ~server'.there => server'.refresh = 0
    BY <1>0, <1>3 DEF Custody
  <2> QED
    BY <1>0, <1>1, <1>3, <2>1, Aside
<1>4. CASE StartSignIn
  <2>1. server'.refresh = server.refresh /\ server'.there = server.there
    BY <1>0, <1>4 DEF StartSignIn, Update, ServerRow
  <2>2. /\ issuer'.issued = issuer.issued /\ issuer'.spent = issuer.spent
        /\ issuer'.unheard = issuer.unheard /\ issuer'.accepts = issuer.accepts
    BY <1>0, <1>4 DEF StartSignIn, Issuer
  <2> QED
    BY <1>3, <1>4, <2>1, <2>2 DEF StartSignIn
<1>5. CASE Approve \/ ChangeUrl
  <2>1. server'.refresh = server.refresh /\ server'.there = server.there
    BY <1>0, <1>5 DEF Approve, ChangeUrl, Update, ServerRow
  <2> QED
    BY <1>3, <1>5, <2>1 DEF Approve, ChangeUrl
<1>6. CASE RevokeStored \/ Withdraw \/ \E a \in Tokens : NearExpiry(a)
  <2>1. /\ issuer'.issued = issuer.issued /\ issuer'.spent = issuer.spent
        /\ issuer'.unheard = issuer.unheard /\ issuer'.accepts \subseteq issuer.accepts
    BY <1>0, <1>6 DEF RevokeStored, Withdraw, NearExpiry, Issuer
  <2> QED
    BY <1>3, <1>6, <2>1 DEF RevokeStored, Withdraw, NearExpiry, console
<1>7. CASE ReadForPatch \/ \E u \in Urls : ListOtherwise(u)
  BY <1>3, <1>7 DEF ReadForPatch, ListOtherwise, console
<1> QED
  BY <1>2, <1>4, <1>5, <1>6, <1>7

-----------------------------------------------------------------------------
LEMMA ServersInductive == ServersInv /\ [ServersNext]_servers => ServersInv'
<1> SUFFICES ASSUME ServersInv, [ServersNext]_servers PROVE ServersInv'
  OBVIOUS
<1>1. CASE ServersNext
  <2>1. Shaped'
    BY <1>1, ShapeStays DEF ServersInv
  <2>2. Custody'
    <3>1. ASSUME NEW c \in Callers, CallerStep(c)
          PROVE  Custody'
      BY <3>1, CustodyAside, CustodyUnderLock DEF CallerStep
    <3> QED
      BY <1>1, <3>1, CustodyOfSignIns, CustodyOfTheRest DEF ServersNext
  <2> QED
    BY <2>1, <2>2 DEF ServersInv
<1>2. CASE UNCHANGED servers
  BY <1>2 DEF servers, console, others, ServersInv, Shaped, RowsShaped, CallersShaped, Custody, Dead
<1> QED
  BY <1>1, <1>2

LEMMA ServersAlways == ServersSpec => []ServersInv
BY ServersAtFirst, ServersInductive, PTL DEF ServersSpec

(* The row, the callers, the sign-ins and the issuer keep their types, for  *)
(* any number of each.                                                      *)
THEOREM ServersTypeCorrect == ServersSpec => []ServersTypeOK
<1>1. ServersInv => ServersTypeOK
  <2> SUFFICES ASSUME ServersInv PROVE ServersTypeOK
    OBVIOUS
  <2>1. server \in ServerRow /\ issuer \in Issuer /\ Shaped /\ Custody
    BY DEF ServersInv, Shaped, RowsShaped
  <2>2. Cardinality(holder) <= 1
    <3>1. CASE holder = {}
      BY <3>1, FS_EmptySet
    <3>2. ASSUME NEW c \in holder
          PROVE  Cardinality(holder) <= 1
      <4>1. holder = {c}
        BY <2>1 DEF Custody
      <4> QED
        BY <4>1, FS_Singleton
    <3> QED
      BY <3>1, <3>2
  <2>3. issuer.accepts \subseteq Tokens /\ issuer.spent \subseteq Tokens
    BY <2>1 DEF Issuer
  <2> QED
    BY <2>1, <2>2, <2>3 DEF ServersTypeOK, Shaped, RowsShaped, CallersShaped, ServerRow, Position, SigningIn
<1> QED
  BY <1>1, ServersAlways, PTL

(* However many turns and fetches refresh a server's sign-in at once, with  *)
(* an admin who signs in, signs out or deletes it meanwhile, whoever is     *)
(* about to spend a refresh token finds it unspent, unless an answer was    *)
(* lost on its way (oauthHeaders' lock and second look, mcp-oauth.ts).      *)
THEOREM TokensAreSpentOnce == ServersSpec => []RefreshTokensAreSpentOnce
<1>1. ServersInv => RefreshTokensAreSpentOnce
  <2> SUFFICES ASSUME ServersInv, NEW c \in Callers, caller[c].at = "refreshing"
               PROVE  caller[c].refresh \notin Dead
    BY DEF RefreshTokensAreSpentOnce, Dead
  <2>1. Custody /\ CallersShaped
    BY DEF ServersInv, Shaped
  <2>2. \A d \in Callers : caller[d].at # "refreshed"
    BY <2>1, Alone DEF Busy
  <2> QED
    BY <2>1, <2>2 DEF Custody
<1> QED
  BY <1>1, ServersAlways, PTL

-----------------------------------------------------------------------------
(* A turn and what it does to the tenant's system.                          *)

AgentTurn == [at : {"asking", "firing", "sent", "handed", "quiet"}, run : Nat,
         target : {"primary", "fallback"}]
Pad == [handoff : BOOLEAN, toolError : BOOLEAN, link : BOOLEAN,
        writes : Seq(Operations), steps : 0 .. MaxSteps]
Carrying == [left : Seq(Nat), done : Seq(Operations), again : BOOLEAN]
Tenancy == [keys : SUBSET Operations, landed : [Operations -> Nat]]

AgentTyped ==
  /\ mode \in {"answer", "suggest"} /\ proved \in BOOLEAN
  /\ turn \in AgentTurn /\ pad \in Pad /\ carried \in Carrying /\ tenant \in Tenancy
  /\ agreed \subseteq Operations /\ told \subseteq SUBSET Operations /\ refusals \in Nat

\* What is left to fire is the end of the list.
InOrder(left, writes) ==
  /\ Len(left) <= Len(writes)
  /\ \A i \in 1 .. Len(left) : left[i] = (Len(writes) - Len(left)) + i

\* What is no longer left has been carried out.
FiredSoFar(left, writes, keys) ==
  \A i \in 1 .. (Len(writes) - Len(left)) : writes[i] \in keys

\* The tenant's system carries an operation out with the first answer to its key.
CarriedOutOnce(t) == \A o \in Operations : t.landed[o] = IF o \in t.keys THEN 1 ELSE 0

AgentInv ==
  /\ AgentTyped
  /\ InOrder(carried.left, pad.writes)
  /\ turn.at = "asking" => carried = NothingCarried
  /\ turn.at \in {"firing", "sent"} =>
       ToSet(pad.writes) \subseteq agreed /\ FiredSoFar(carried.left, pad.writes, tenant.keys)
  /\ turn.at = "sent" => carried.left = << >>
  /\ CarriedOutOnce(tenant) /\ tenant.keys \subseteq agreed

LEMMA EmptyLists ==
  /\ << >> \in Seq(Nat) /\ << >> \in Seq(Operations) /\ Len(<< >>) = 0
BY EmptySeq

LEMMA NothingToCarry ==
  ASSUME NEW writes \in Seq(Operations)
  PROVE  NothingCarried \in Carrying /\ InOrder(NothingCarried.left, writes)
<1>1. Len(writes) \in Nat
  BY LenProperties
<1> QED
  BY <1>1, EmptyLists DEF NothingCarried, Carrying, InOrder

LEMMA CleanPad == NoPad \in Pad
BY EmptyLists, AgentAssumption DEF NoPad, Pad

LEMMA AgentStart == AgentInit => AgentInv
<1> SUFFICES ASSUME AgentInit PROVE AgentInv
  OBVIOUS
<1>1. pad \in Pad /\ carried \in Carrying /\ InOrder(carried.left, pad.writes)
  BY CleanPad, NothingToCarry DEF AgentInit, Pad
<1>2. turn \in AgentTurn /\ tenant \in Tenancy
  BY DEF AgentInit, AgentTurn, Tenancy
<1>3. CarriedOutOnce(tenant) /\ tenant.keys \subseteq agreed
  BY DEF AgentInit, CarriedOutOnce
<1> QED
  BY <1>1, <1>2, <1>3 DEF AgentInit, AgentInv, AgentTyped

LEMMA CallKept ==
  ASSUME AgentInv, NEW p \in Pad, CallTool(p) PROVE AgentInv'
<1>1. turn.at = "asking" /\ carried = NothingCarried /\ pad.steps + 1 \in 0 .. MaxSteps
  BY AgentAssumption DEF AgentInv, AgentTyped, CallTool, Asking, Pad
<1>2. pad' \in Pad
  BY <1>1 DEF CallTool, Pad
<1>3. InOrder(carried'.left, pad'.writes)
  BY <1>1, <1>2, NothingToCarry DEF CallTool, Pad
<1> QED
  BY <1>1, <1>2, <1>3 DEF CallTool, AgentInv, AgentTyped

LEMMA AskKept ==
  ASSUME AgentInv,
         (\E o \in Operations : AskWrite(o)) \/ LookUp \/ LookUpFails \/ AskForPerson \/ AskForLink
  PROVE  AgentInv'
<1>1. pad \in Pad
  BY DEF AgentInv, AgentTyped
<1>2. CASE \E o \in Operations : AskWrite(o)
  <2>1. PICK o \in Operations : CallTool([pad EXCEPT !.writes = Append(@, o)])
    BY <1>2 DEF AskWrite
  <2>2. Append(pad.writes, o) \in Seq(Operations)
    BY <1>1, AppendProperties DEF Pad
  <2>3. [pad EXCEPT !.writes = Append(@, o)] \in Pad
    BY <1>1, <2>2 DEF Pad
  <2> QED
    BY <2>1, <2>3, CallKept
<1>3. CASE LookUp \/ LookUpFails \/ AskForPerson \/ AskForLink
  <2>1. /\ [pad EXCEPT !.toolError = TRUE] \in Pad /\ [pad EXCEPT !.handoff = TRUE] \in Pad
        /\ [pad EXCEPT !.link = TRUE] \in Pad
    BY <1>1 DEF Pad
  <2> QED
    BY <1>1, <1>3, <2>1, CallKept DEF LookUp, LookUpFails, AskForPerson, AskForLink
<1> QED
  BY <1>2, <1>3

LEMMA RestartKept ==
  ASSUME AgentInv, ProviderFails \/ CrashAgent PROVE AgentInv'
<1>1. pad' = NoPad /\ pad' \in Pad /\ UNCHANGED <<mode, proved, tenant, agreed, told, refusals>>
  BY CleanPad DEF ProviderFails, CrashAgent
<1>2. turn' \in AgentTurn /\ turn'.at \in {"asking", "handed"}
  BY DEF ProviderFails, CrashAgent, GoOn, AgentInv, AgentTyped, AgentTurn
<1>3. carried' = NothingCarried
  BY DEF ProviderFails, CrashAgent, AgentInv
<1>4. carried' \in Carrying /\ InOrder(carried'.left, pad'.writes)
  BY <1>1, <1>3, NothingToCarry DEF Pad
<1> QED
  BY <1>1, <1>2, <1>3, <1>4 DEF AgentInv, AgentTyped

LEMMA AnswerKept ==
  ASSUME AgentInv, Answers PROVE AgentInv'
<1>1. /\ pad \in Pad /\ turn \in AgentTurn /\ carried = NothingCarried
      /\ UNCHANGED <<mode, proved, pad, tenant, told, refusals>>
  BY DEF Answers, AgentInv, AgentTyped
<1>2. pad.writes \in Seq(Operations) /\ Len(pad.writes) \in Nat /\ DOMAIN pad.writes = 1 .. Len(pad.writes)
  BY <1>1, LenProperties DEF Pad
<1>3. CASE pad.handoff \/ pad.toolError
  <2>1. turn' \in AgentTurn /\ turn'.at = "handed" /\ UNCHANGED <<carried, agreed>>
    BY <1>1, <1>3 DEF Answers, GoOn, AgentTurn
  <2> QED
    BY <1>1, <2>1 DEF AgentInv, AgentTyped
<1>4. CASE ~(pad.handoff \/ pad.toolError)
  <2> DEFINE all == [i \in DOMAIN pad.writes |-> i]
  <2>1. turn' \in AgentTurn /\ turn'.at = "firing"
    BY <1>1, <1>4 DEF Answers, GoOn, AgentTurn
  <2>2. all \in Seq(Nat) /\ Len(all) = Len(pad.writes) /\ \A i \in 1 .. Len(all) : all[i] = i
    <3>1. all \in Seq(Nat)
      BY <1>2, SeqDef
    <3> QED
      BY <1>2, <3>1, LenProperties
  <2>3. carried' = [left |-> all, done |-> << >>, again |-> FALSE]
    BY <1>4 DEF Answers, NothingCarried
  <2> HIDE DEF all
  <2>4. carried'.left = all /\ carried' \in Carrying
    BY <2>2, <2>3, EmptyLists DEF Carrying
  <2>5. InOrder(all, pad.writes)
    BY <1>2, <2>2 DEF InOrder
  <2>6. FiredSoFar(all, pad.writes, tenant.keys)
    BY <1>2, <2>2 DEF FiredSoFar
  <2>7. agreed' = agreed \cup ToSet(pad.writes) /\ agreed' \subseteq Operations
    BY <1>2, <1>4, ElementOfSeq DEF Answers, ToSet, AgentInv, AgentTyped
  <2> QED
    BY <1>1, <2>1, <2>4, <2>5, <2>6, <2>7 DEF AgentInv, AgentTyped
<1> QED
  BY <1>3, <1>4

\* The first of what is left, and what is left after it.
LEMMA FirstLeft ==
  ASSUME NEW left \in Seq(Nat), NEW writes \in Seq(Operations), left # << >>, InOrder(left, writes)
  PROVE  /\ Len(writes) \in Nat /\ Len(left) \in 1 .. Len(writes)
         /\ Head(left) = (Len(writes) - Len(left)) + 1 /\ Head(left) \in 1 .. Len(writes)
<1>1. Len(writes) \in Nat /\ Len(left) \in Nat /\ Len(left) # 0
  BY LenProperties, EmptySeq
<1>2. 1 \in 1 .. Len(left) /\ Len(left) <= Len(writes)
  BY <1>1 DEF InOrder
<1>3. left[1] = (Len(writes) - Len(left)) + 1
  BY <1>2 DEF InOrder
<1>4. Head(left) = left[1]
  OBVIOUS
<1> HIDE DEF InOrder
<1> QED
  BY <1>1, <1>2, <1>3, <1>4

LEMMA RestLeft ==
  ASSUME NEW left \in Seq(Nat), NEW writes \in Seq(Operations), left # << >>, InOrder(left, writes)
  PROVE  /\ Tail(left) \in Seq(Nat) /\ Len(Tail(left)) = Len(left) - 1
         /\ InOrder(Tail(left), writes)
<1> DEFINE rest == Tail(left)
<1>1. /\ rest \in Seq(Nat) /\ Len(rest) = Len(left) - 1
      /\ \A i \in 1 .. Len(rest) : rest[i] = left[i + 1]
  BY HeadTailProperties
<1>2. Len(writes) \in Nat /\ Len(left) \in Nat /\ Len(left) <= Len(writes)
  BY LenProperties DEF InOrder
<1> HIDE DEF rest
<1>3. ASSUME NEW i \in 1 .. Len(rest) PROVE rest[i] = (Len(writes) - Len(rest)) + i
  <2>1. i + 1 \in 1 .. Len(left) /\ rest[i] = left[i + 1]
    BY <1>1, <1>2
  <2>2. left[i + 1] = (Len(writes) - Len(left)) + (i + 1)
    BY <2>1 DEF InOrder
  <2> QED
    BY <1>1, <1>2, <2>1, <2>2
<1>4. InOrder(rest, writes)
  BY <1>1, <1>2, <1>3 DEF InOrder
<1> QED
  BY <1>1, <1>4 DEF rest

\* What is fired next, and what reaching the tenant's system with it does.
LEMMA NextIsOfTheList ==
  ASSUME AgentInv, Firing
  PROVE  /\ Len(pad.writes) \in Nat /\ Len(carried.left) \in 1 .. Len(pad.writes)
         /\ Head(carried.left) = (Len(pad.writes) - Len(carried.left)) + 1
         /\ NextWrite = pad.writes[Head(carried.left)]
         /\ NextWrite \in Operations /\ NextWrite \in agreed /\ FiringKey = NextWrite
<1>1. /\ pad.writes \in Seq(Operations) /\ carried.left \in Seq(Nat) /\ carried.left # << >>
      /\ InOrder(carried.left, pad.writes) /\ ToSet(pad.writes) \subseteq agreed
  BY DEF AgentInv, AgentTyped, Firing, Pad, Carrying
<1>2. /\ Len(pad.writes) \in Nat /\ Len(carried.left) \in 1 .. Len(pad.writes)
      /\ Head(carried.left) = (Len(pad.writes) - Len(carried.left)) + 1
      /\ Head(carried.left) \in 1 .. Len(pad.writes)
  BY <1>1, FirstLeft
<1>3. NextWrite \in Operations /\ NextWrite \in agreed
  BY <1>1, <1>2, LenProperties, ElementOfSeq DEF NextWrite, ToSet
<1> QED
  BY <1>2, <1>3 DEF FiringKey, KeyOf, NextWrite

LEMMA ReachesKept ==
  ASSUME AgentInv, Firing, Reaches
  PROVE  /\ tenant' \in Tenancy /\ CarriedOutOnce(tenant') /\ tenant'.keys \subseteq agreed
         /\ NextWrite \in tenant'.keys /\ tenant.keys \subseteq tenant'.keys
<1>1. /\ tenant \in Tenancy /\ CarriedOutOnce(tenant) /\ tenant.keys \subseteq agreed
  BY DEF AgentInv, AgentTyped
<1>2. NextWrite \in Operations /\ NextWrite \in agreed /\ FiringKey = NextWrite
  BY NextIsOfTheList
<1>3. CASE FiringKey \in tenant.keys
  BY <1>1, <1>2, <1>3 DEF Reaches
<1>4. CASE FiringKey \notin tenant.keys
  <2> DEFINE keys == tenant.keys \cup {NextWrite}
             landed == [tenant.landed EXCEPT ![NextWrite] = @ + 1]
  <2>1. tenant' = [keys |-> keys, landed |-> landed]
    BY <1>2, <1>4 DEF Reaches
  <2>2. tenant.landed[NextWrite] = 0 /\ tenant.landed \in [Operations -> Nat]
    BY <1>1, <1>2, <1>4 DEF CarriedOutOnce, Tenancy
  <2>3. \A o \in Operations : landed[o] = IF o \in keys THEN 1 ELSE 0
    BY <1>1, <1>2, <2>2 DEF CarriedOutOnce
  <2>4. keys \subseteq Operations /\ keys \subseteq agreed /\ landed \in [Operations -> Nat]
    BY <1>1, <1>2, <2>2 DEF Tenancy
  <2> HIDE DEF keys, landed
  <2>5. tenant' \in Tenancy /\ tenant'.keys = keys /\ tenant'.landed = landed
    BY <2>1, <2>4 DEF Tenancy
  <2> QED
    BY <1>1, <2>3, <2>4, <2>5 DEF CarriedOutOnce, keys
<1> QED
  BY <1>3, <1>4

LEMMA FireKept ==
  ASSUME AgentInv, Fire PROVE AgentInv'
<1>1. /\ Firing /\ Reaches /\ UNCHANGED <<mode, proved, turn, pad, agreed, told, refusals>>
      /\ carried' = [left |-> Tail(carried.left), done |-> Append(carried.done, NextWrite), again |-> FALSE]
  BY DEF Fire
<1>2. /\ tenant' \in Tenancy /\ CarriedOutOnce(tenant') /\ tenant'.keys \subseteq agreed
      /\ NextWrite \in tenant'.keys /\ tenant.keys \subseteq tenant'.keys
  BY <1>1, ReachesKept
<1>3. /\ Len(pad.writes) \in Nat /\ Len(carried.left) \in 1 .. Len(pad.writes)
      /\ Head(carried.left) = (Len(pad.writes) - Len(carried.left)) + 1
      /\ NextWrite = pad.writes[Head(carried.left)] /\ NextWrite \in Operations
  BY <1>1, NextIsOfTheList
<1>4. /\ carried \in Carrying /\ carried.left \in Seq(Nat) /\ carried.done \in Seq(Operations)
      /\ carried.left # << >> /\ InOrder(carried.left, pad.writes)
      /\ turn.at = "firing" /\ ToSet(pad.writes) \subseteq agreed
      /\ FiredSoFar(carried.left, pad.writes, tenant.keys)
  BY <1>1 DEF AgentInv, AgentTyped, Firing, Carrying
<1> DEFINE left == Tail(carried.left)
<1>5. left \in Seq(Nat) /\ Len(left) = Len(carried.left) - 1 /\ InOrder(left, pad.writes)
  <2>1. pad.writes \in Seq(Operations)
    BY DEF AgentInv, AgentTyped, Pad
  <2> QED
    BY <1>4, <2>1, RestLeft
<1>6. Append(carried.done, NextWrite) \in Seq(Operations)
  BY <1>3, <1>4, AppendProperties
<1> HIDE DEF left
<1>7. carried'.left = left /\ carried' \in Carrying
  BY <1>1, <1>5, <1>6 DEF Carrying, left
<1>8. FiredSoFar(left, pad.writes, tenant'.keys)
  <2> SUFFICES ASSUME NEW i \in 1 .. (Len(pad.writes) - Len(left))
               PROVE  pad.writes[i] \in tenant'.keys
    BY DEF FiredSoFar
  <2>1. i = Head(carried.left) \/ i \in 1 .. (Len(pad.writes) - Len(carried.left))
    <3>1. PICK n \in Nat, m \in Nat : n = Len(pad.writes) /\ m = Len(carried.left) /\ m \in 1 .. n
      BY <1>3
    <3>2. Head(carried.left) = (n - m) + 1 /\ i \in 1 .. (n - (m - 1))
      BY <1>3, <1>5, <3>1
    <3>3. i = (n - m) + 1 \/ i \in 1 .. (n - m)
      BY <3>1, <3>2
    <3> QED
      BY <3>1, <3>2, <3>3
  <2> QED
    BY <1>2, <1>3, <1>4, <2>1 DEF FiredSoFar
<1> QED
  BY <1>1, <1>2, <1>4, <1>5, <1>7, <1>8 DEF AgentInv, AgentTyped

LEMMA FireFailsKept ==
  ASSUME AgentInv, FireFails PROVE AgentInv'
<1>1. Firing /\ UNCHANGED <<mode, proved, pad, carried, agreed>>
  BY DEF FireFails
<1>2. tenant' \in Tenancy /\ CarriedOutOnce(tenant') /\ tenant'.keys \subseteq agreed
  BY <1>1, ReachesKept DEF FireFails, AgentInv, AgentTyped
<1>3. turn' \in AgentTurn /\ turn'.at = "handed" /\ refusals' \in Nat
  BY DEF FireFails, GoOn, AgentInv, AgentTyped, AgentTurn
<1>4. told' \subseteq SUBSET Operations
  <2>1. carried.done \in Seq(Operations)
    BY DEF AgentInv, AgentTyped, Carrying
  <2> QED
    BY <2>1, LenProperties, ElementOfSeq DEF FireFails, ToSet
<1> QED
  BY <1>1, <1>2, <1>3, <1>4 DEF AgentInv, AgentTyped

LEMMA TurnEndKept ==
  ASSUME AgentInv, Reauthorise \/ SendReply \/ EmptyReply PROVE AgentInv'
<1>1. UNCHANGED <<mode, proved, pad, tenant, agreed>>
  BY DEF Reauthorise, SendReply, EmptyReply
<1>2. CASE Reauthorise
  <2>1. carried' \in Carrying /\ carried'.left = carried.left /\ turn' = turn /\ turn.at = "firing"
        /\ told' = told /\ refusals' \in Nat
    <3>1. carried \in Carrying /\ turn.at = "firing" /\ carried' = [carried EXCEPT !.again = TRUE]
          /\ refusals \in Nat /\ refusals' = refusals + 1 /\ turn' = turn /\ told' = told
      BY <1>2 DEF Reauthorise, Firing, AgentInv, AgentTyped
    <3>2. carried' \in Carrying /\ carried'.left = carried.left
      BY <3>1 DEF Carrying
    <3> QED
      BY <3>1, <3>2
  <2> QED
    BY <1>1, <2>1 DEF AgentInv, AgentTyped, InOrder, FiredSoFar
<1>3. CASE SendReply
  <2>1. turn' \in AgentTurn /\ turn'.at = "sent" /\ turn.at = "firing" /\ carried.left = << >>
    BY <1>3 DEF SendReply, GoOn, AgentInv, AgentTyped, AgentTurn
  <2> QED
    BY <1>1, <1>3, <2>1 DEF SendReply, AgentInv, AgentTyped
<1>4. CASE EmptyReply
  <2>1. turn' \in AgentTurn /\ turn'.at \in {"handed", "quiet"}
    BY <1>4 DEF EmptyReply, GoOn, AgentInv, AgentTyped, AgentTurn
  <2>2. told' \subseteq SUBSET Operations
    <3>1. carried.done \in Seq(Operations)
      BY DEF AgentInv, AgentTyped, Carrying
    <3>2. ToSet(carried.done) \subseteq Operations
      BY <3>1, LenProperties, ElementOfSeq DEF ToSet
    <3> QED
      BY <1>4, <3>2 DEF EmptyReply, AgentInv, AgentTyped
  <2> QED
    BY <1>1, <1>4, <2>1, <2>2 DEF EmptyReply, AgentInv, AgentTyped
<1> QED
  BY <1>2, <1>3, <1>4

LEMMA AgentInvHolds == AgentSpec => []AgentInv
<1>1. AgentInv /\ [AgentNext]_agent => AgentInv'
  <2> SUFFICES ASSUME AgentInv, [AgentNext]_agent PROVE AgentInv'
    OBVIOUS
  <2>1. CASE UNCHANGED agent
    BY <2>1 DEF agent, AgentInv, AgentTyped
  <2> QED
    BY <2>1, AskKept, RestartKept, AnswerKept, FireKept, FireFailsKept, TurnEndKept DEF AgentNext
<1> QED
  BY <1>1, AgentStart, PTL DEF AgentSpec

LEMMA LateInList ==
  ASSUME NEW n \in Nat, NEW m \in Nat, m <= n, NEW i \in 1 .. m
  PROVE  (n - m) + i \in 1 .. n
OBVIOUS

LEMMA AgentTypes == AgentInv => AgentTypeOK
<1> SUFFICES ASSUME AgentInv PROVE AgentTypeOK
  OBVIOUS
<1>1. AgentTyped /\ InOrder(carried.left, pad.writes) /\ pad.writes \in Seq(Operations)
      /\ carried.left \in Seq(Nat)
  BY DEF AgentInv, AgentTyped, Pad, Carrying
<1>2. Len(pad.writes) \in Nat /\ DOMAIN pad.writes = 1 .. Len(pad.writes)
      /\ Len(carried.left) \in Nat
  BY <1>1, LenProperties
<1>3. carried.left \in Seq(DOMAIN pad.writes)
  <2>1. \A i \in 1 .. Len(carried.left) : carried.left[i] \in 1 .. Len(pad.writes)
    <3> SUFFICES ASSUME NEW i \in 1 .. Len(carried.left)
                 PROVE  carried.left[i] \in 1 .. Len(pad.writes)
      OBVIOUS
    <3>1. /\ carried.left[i] = (Len(pad.writes) - Len(carried.left)) + i
          /\ Len(carried.left) <= Len(pad.writes)
      BY <1>1 DEF InOrder
    <3> QED
      BY <1>2, <3>1, LateInList
  <2>2. carried.left \in [1 .. Len(carried.left) -> 1 .. Len(pad.writes)]
    BY <1>1, <2>1, LenProperties
  <2> QED
    BY <1>2, <2>2, SeqDef
<1> QED
  BY <1>1, <1>3 DEF AgentTyped, AgentTypeOK, AgentTurn, Pad, Carrying, Tenancy

(* Whatever crashes, lost answers, refusals, fallbacks and changes of the   *)
(* model's mind lie between, no operation is carried out twice, none that   *)
(* only an attempt without an answer agreed for, and a reply goes out with  *)
(* all of its writes carried out.                                           *)
THEOREM RepliesKeep == AgentSpec => []RepliesKeepTheirWord
<1>1. AgentInv => RepliesKeepTheirWord
  <2> SUFFICES ASSUME AgentInv PROVE RepliesKeepTheirWord
    OBVIOUS
  <2>1. /\ \A o \in Operations : tenant.landed[o] <= 1
        /\ \A o \in Operations : tenant.landed[o] > 0 => o \in agreed
    BY DEF AgentInv, CarriedOutOnce
  <2>2. ASSUME turn.at = "sent", NEW o \in ToSet(pad.writes) PROVE tenant.landed[o] = 1
    <3>1. pad.writes \in Seq(Operations) /\ carried.left = << >>
          /\ FiredSoFar(carried.left, pad.writes, tenant.keys) /\ tenant \in Tenancy
      BY <2>2 DEF AgentInv, AgentTyped, Pad
    <3>2. Len(pad.writes) \in Nat /\ DOMAIN pad.writes = 1 .. Len(pad.writes) /\ Len(carried.left) = 0
      BY <3>1, LenProperties, EmptyLists
    <3>3. o \in tenant.keys
      BY <2>2, <3>1, <3>2 DEF FiredSoFar, ToSet
    <3> QED
      BY <3>1, <3>3 DEF AgentInv, CarriedOutOnce, Tenancy
  <2> QED
    BY <2>1, <2>2 DEF RepliesKeepTheirWord
<1> QED
  BY <1>1, AgentInvHolds, PTL

-----------------------------------------------------------------------------
(* The parts together.                                                      *)

(* What happens in one part changes nothing of another, so that each of     *)
(* them behaves as it does by itself.                                       *)
THEOREM PartsAreTheirOwn ==
  Spec => /\ AccessSpec /\ SettingsSpec /\ ServersSpec /\ AgentSpec
          /\ PushSpec /\ SlotsSpec /\ ToolsSpec /\ ApprovalsSpec
<1>1. Init => /\ AccessInit /\ SettingsInit /\ ServersInit /\ AgentInit
              /\ PushInit /\ SlotsInit /\ ToolsInit /\ ApprovalsInit
  BY DEF Init
<1>2. [Next]_parts => /\ [AccessNext]_access /\ [SettingsNext]_desk
                      /\ [ServersNext]_servers /\ [AgentNext]_agent
  BY DEF Next, parts
<1>3. [Next]_parts => /\ [PushNext]_push /\ [SlotsNext]_choosing
                      /\ [ToolsNext]_tooling /\ [ApprovalsNext]_approving
  BY DEF Next, parts
<1> QED
  BY <1>1, <1>2, <1>3, PTL
     DEF Spec, AccessSpec, SettingsSpec, ServersSpec, AgentSpec,
         PushSpec, SlotsSpec, ToolsSpec, ApprovalsSpec

LEMMA SlotsInvHolds == SlotsSpec => []SlotsInv
<1>1. SlotsInv /\ UNCHANGED choosing => SlotsInv'
  BY DEF SlotsInv, choosing
<1> QED
  BY <1>1, SlotsStart, SlotsKept, PTL DEF SlotsSpec

LEMMA ToolsInvHolds == ToolsSpec => []ToolsInv
<1>1. ToolsInv /\ UNCHANGED tooling => ToolsInv'
  BY DEF ToolsInv, ToolsTyped, tooling
<1> QED
  BY <1>1, ToolsStart, ToolsKept, PTL DEF ToolsSpec

LEMMA ApprovalsInvHolds == ApprovalsSpec => []ApprovalsInv
<1>1. ApprovalsInv /\ UNCHANGED approving => ApprovalsInv'
  BY DEF ApprovalsInv, ApprovalsTyped, AllChosen, approving
<1> QED
  BY <1>1, ApprovalsStart, ApprovalsKept, PTL DEF ApprovalsSpec

(* A tuned value that no form shows, the switch of a tool and what a tool   *)
(* of an MCP server may do stay what an admin made them, whatever pages of  *)
(* whatever age are saved from, in any number and however they overlap.     *)
THEOREM ChoicesAreKept == Spec => []ChoicesStand
<1>1. SlotsInv => TunedIsKept
  BY DEF SlotsInv, TunedIsKept
<1>2. ToolsInv => SwitchedOffStaysOff
  BY DEF ToolsInv, SwitchedOffStaysOff, Defined
<1>3. ApprovalsInv => EffectsAreChosen
  BY DEF ApprovalsInv, AllChosen, Held, Backed, Decided, EffectsAreChosen
<1>4. TunedIsKept /\ SwitchedOffStaysOff /\ EffectsAreChosen => ChoicesStand
  BY DEF ChoicesStand
<1> QED
  BY <1>1, <1>2, <1>3, <1>4, PartsAreTheirOwn, SlotsInvHolds, ToolsInvHolds, ApprovalsInvHolds, PTL

-----------------------------------------------------------------------------
(* The types of the parts that are not stated above.                        *)

TargetMaps == [Targets -> Target]
SlotRow == [targets : TargetMaps, params : Params]
Verdict == [provider : Providers \cup {NoOne}, model : Models \cup {NoOne}, ok : BOOLEAN]
Committed == [Targets -> Models \cup {NoOne}]
CardRow == [loaded : BOOLEAN, targets : TargetMaps, held : Committed, latest : Int,
            line : {"idle", "saving", "saved", "failed"}, answer : {"none", "saved", "failed"},
            verdict : [Targets -> Verdict]]
PutRow == [card : Cards, seq : Int, targets : TargetMaps, params : Params, picked : SUBSET Targets,
           read : Params, at : {"sent", "merging", "stored", "failed"}]
LoadingRow == [providers : SUBSET (Providers \cup {"unread"}), targets : TargetMaps,
               read : BOOLEAN, uses : SUBSET Targets]

SlotsTyped ==
  /\ lines \in [Providers -> {"absent", "on", "off"}] /\ slot \in SlotRow
  /\ cards \in [Cards -> CardRow] /\ puts \subseteq PutRow /\ loading \in LoadingRow

LEMMA BlankCard == /\ NoOne \in Providers \cup {NoOne} /\ NoOne \in Models \cup {NoOne}
                   /\ Unset \in TargetMaps /\ Blank \in CardRow /\ NoVerdict \in Verdict /\ NoParams \in Params
<1>1. Unset \in TargetMaps /\ NoVerdict \in Verdict /\ NoParams \in Params
  BY DEF Unset, TargetMaps, Target, NoVerdict, Verdict, NoParams, Params
<1>2. [t \in Targets |-> NoOne] \in Committed /\ [t \in Targets |-> NoVerdict] \in [Targets -> Verdict]
  BY <1>1 DEF Committed
<1> QED
  BY <1>1, <1>2 DEF Blank, CardRow

LEMMA SlotsTypedFirst == SlotsInit => SlotsTyped
<1> SUFFICES ASSUME SlotsInit PROVE SlotsTyped
  OBVIOUS
<1>1. PICK p \in Providers, m \in Models :
        /\ lines = [q \in Providers |-> "on"]
        /\ slot = [targets |-> [Unset EXCEPT !["primary"] = [provider |-> p, model |-> m]],
                   params |-> [NoParams EXCEPT !.temperature = "tuned"]]
        /\ cards \in [Cards -> {Blank, Drawn, [Drawn EXCEPT !.latest = MaxSaves - 1]}]
        /\ puts = {}
        /\ loading = [providers |-> {"unread"}, targets |-> Unset, read |-> FALSE, uses |-> {}]
  BY DEF SlotsInit
<1>2. [Unset EXCEPT !["primary"] = [provider |-> p, model |-> m]] \in TargetMaps
  BY BlankCard DEF TargetMaps, Target, Targets
<1>3. [NoParams EXCEPT !.temperature = "tuned"] \in Params
  BY DEF NoParams, Params
<1>4. slot \in SlotRow /\ slot.targets \in TargetMaps
  BY <1>1, <1>2, <1>3 DEF SlotRow
<1>5. [t \in Targets |-> slot.targets[t].model] \in Committed
  BY <1>4 DEF TargetMaps, Target, Committed
<1>6. Drawn \in CardRow
  <2> DEFINE first == [t \in Targets |-> slot.targets[t].model]
  <2>1. Drawn = [Blank EXCEPT !.loaded = TRUE, !.targets = slot.targets, !.held = first]
    BY DEF Drawn
  <2> HIDE DEF first
  <2> QED
    BY <1>4, <1>5, <2>1, BlankCard DEF CardRow, first
<1>7. MaxSaves - 1 \in Int
  BY SlotsAssumption
<1>8. [Drawn EXCEPT !.latest = MaxSaves - 1] \in CardRow
  BY <1>6, <1>7 DEF CardRow
<1>9. loading \in LoadingRow
  BY <1>1, BlankCard DEF LoadingRow
<1> QED
  BY <1>1, <1>4, <1>6, <1>8, <1>9, BlankCard DEF SlotsTyped

LEMMA CardChanged ==
  ASSUME SlotsTyped, NEW c \in Cards, NEW after \in CardRow, cards' = [cards EXCEPT ![c] = after],
         puts' \subseteq PutRow, UNCHANGED <<lines, slot, loading>>
  PROVE  SlotsTyped'
BY DEF SlotsTyped

LEMMA SaveTyped ==
  ASSUME SlotsTyped, NEW c \in Cards, NEW targets \in TargetMaps, NEW params \in Params,
         NEW picked \in SUBSET Targets, NEW held \in Committed, Save(c, targets, params, picked, held)
  PROVE  SlotsTyped'
<1> DEFINE new == [card |-> c, seq |-> NextPut(c), targets |-> targets, params |-> params,
                   picked |-> picked, read |-> NoParams, at |-> "sent"]
           after == [cards[c] EXCEPT !.latest = NextPut(c), !.line = "saving", !.answer = "none", !.held = held]
<1>1. cards[c] \in CardRow /\ puts \subseteq PutRow
  BY DEF SlotsTyped
<1>2. NextPut(c) \in Int
  BY <1>1 DEF NextPut, CardRow
<1>3. new \in PutRow /\ after \in CardRow
  BY <1>1, <1>2, BlankCard DEF PutRow, CardRow
<1>4. puts' = puts \cup {new} /\ UNCHANGED <<lines, slot, loading>>
  BY DEF Save
<1>5. cards' = [cards EXCEPT ![c] = after]
  BY DEF Save
<1> HIDE DEF new, after
<1> QED
  BY <1>1, <1>3, <1>4, <1>5, CardChanged

LEMMA CardsTyped ==
  ASSUME SlotsTyped, NEW c \in Cards,
         \/ Refetch(c) \/ TickDimensions(c)
         \/ \E t \in Targets : PickProvider(c, t) \/ PickModel(c, t) \/ Verify(c, t)
  PROVE  SlotsTyped'
<1>1. /\ cards[c] \in CardRow /\ puts \subseteq PutRow /\ slot \in SlotRow
      /\ lines \in [Providers -> {"absent", "on", "off"}]
  BY DEF SlotsTyped
<1>2. cards[c].targets \in TargetMaps /\ cards[c].held \in Committed /\ slot.targets \in TargetMaps
  BY <1>1 DEF CardRow, SlotRow
<1>3. CASE Refetch(c)
  <2>1. [cards[c] EXCEPT !.loaded = TRUE, !.targets = slot.targets] \in CardRow
    BY <1>1, <1>2 DEF CardRow
  <2>2. cards' = [cards EXCEPT ![c] = [cards[c] EXCEPT !.loaded = TRUE, !.targets = slot.targets]]
    BY <1>3 DEF Refetch
  <2> QED
    BY <1>1, <1>3, <2>1, <2>2, CardChanged DEF Refetch
<1>4. CASE TickDimensions(c)
  <2>1. PICK v \in {"yes", "no"} :
          Save(c, cards[c].targets, [NoParams EXCEPT !.sendDimensions = v], {}, cards[c].held)
    BY <1>4 DEF TickDimensions
  <2>2. [NoParams EXCEPT !.sendDimensions = v] \in Params
    BY DEF NoParams, Params
  <2> QED
    BY <1>2, <2>1, <2>2, SaveTyped
<1>5. ASSUME NEW t \in Targets, PickProvider(c, t) PROVE SlotsTyped'
  <2>1. PICK p \in Known \cup {NoOne} :
          Save(c, [cards[c].targets EXCEPT ![t].provider = p], NoParams, {t}, cards[c].held)
    BY <1>5 DEF PickProvider
  <2>2. p \in Providers \cup {NoOne}
    BY DEF Known
  <2>3. [cards[c].targets EXCEPT ![t].provider = p] \in TargetMaps
    BY <1>2, <2>2 DEF TargetMaps, Target
  <2> QED
    BY <1>2, <2>1, <2>3, SaveTyped, BlankCard
<1>6. ASSUME NEW t \in Targets, PickModel(c, t) PROVE SlotsTyped'
  <2>1. PICK m \in Models \cup {NoOne} :
          Save(c, [cards[c].targets EXCEPT ![t].model = m], NoParams, {t}, [cards[c].held EXCEPT ![t] = m])
    BY <1>6 DEF PickModel
  <2>2. [cards[c].targets EXCEPT ![t].model = m] \in TargetMaps /\ [cards[c].held EXCEPT ![t] = m] \in Committed
    BY <1>2 DEF TargetMaps, Target, Committed
  <2> QED
    BY <2>1, <2>2, SaveTyped, BlankCard
<1>7. ASSUME NEW t \in Targets, Verify(c, t) PROVE SlotsTyped'
  <2> DEFINE pair == cards[c].targets[t]
             found == IF pair.provider \in Known
                      THEN [provider |-> pair.provider, model |-> pair.model,
                            ok |-> pair.model \in Served[pair.provider]]
                      ELSE NoVerdict
             after == [cards[c] EXCEPT !.verdict[t] = found]
  <2>1. pair \in Target
    BY <1>2 DEF TargetMaps
  <2>2. found \in Verdict
    BY <2>1, BlankCard DEF Target, Verdict
  <2>3. cards' = [cards EXCEPT ![c] = after] /\ puts' = puts /\ UNCHANGED <<lines, slot, loading>>
    BY <1>7 DEF Verify
  <2> HIDE DEF found
  <2>4. after \in CardRow
    BY <1>1, <2>2 DEF CardRow
  <2> HIDE DEF after
  <2> QED
    BY <1>1, <2>3, <2>4, CardChanged
<1> QED
  BY <1>3, <1>4, <1>5, <1>6, <1>7

LEMMA PutsTyped ==
  ASSUME SlotsTyped, NEW s \in puts,
         ReadParams(s) \/ WriteSlot(s) \/ LoseSave(s) \/ HearSaved(s) \/ HearFailed(s)
  PROVE  SlotsTyped'
<1>1. s \in PutRow /\ puts \subseteq PutRow /\ slot \in SlotRow /\ cards \in [Cards -> CardRow]
  BY DEF SlotsTyped
<1>2. /\ s.card \in Cards /\ s.targets \in TargetMaps /\ s.params \in Params /\ s.read \in Params
      /\ slot.params \in Params /\ slot.targets \in TargetMaps
  BY <1>1 DEF PutRow, SlotRow
<1>3. ASSUME NEW at \in {"stored", "failed"}, SetPut(s, at) PROVE puts' \subseteq PutRow
  <2>1. [s EXCEPT !.at = at] \in PutRow
    BY <1>1 DEF PutRow
  <2> QED
    BY <1>1, <1>3, <2>1 DEF SetPut
<1>4. CASE ReadParams(s)
  <2>1. [s EXCEPT !.at = "merging", !.read = slot.params] \in PutRow
    BY <1>1, <1>2 DEF PutRow
  <2> QED
    BY <1>1, <1>4, <2>1 DEF ReadParams, SlotsTyped
<1>5. CASE WriteSlot(s)
  <2>1. puts' \subseteq PutRow /\ UNCHANGED <<lines, cards, loading>>
    BY <1>3, <1>5 DEF WriteSlot
  <2>2. Merged(s.read, s.params) \in Params
    BY <1>2 DEF Merged, Params
  <2>3. [targets |-> s.targets, params |-> Merged(s.read, s.params)] \in SlotRow
    BY <1>2, <2>2 DEF SlotRow
  <2>4. slot' \in SlotRow
    BY <1>1, <1>5, <2>3 DEF WriteSlot
  <2> QED
    BY <2>1, <2>4 DEF SlotsTyped
<1>6. CASE LoseSave(s)
  BY <1>3, <1>6 DEF LoseSave, SlotsTyped
<1>7. CASE HearSaved(s)
  <2> DEFINE after == [cards[s.card] EXCEPT !.line = "saved", 
                       !.answer = IF s.seq = cards[s.card].latest THEN "saved" ELSE @,
                       !.loaded = TRUE, !.targets = slot.targets]
  <2>1. cards[s.card] \in CardRow
    BY <1>1, <1>2
  <2>2. after \in CardRow
    BY <1>2, <2>1 DEF CardRow
  <2>3. cards' = [cards EXCEPT ![s.card] = after]
    BY <1>2, <1>7, <2>1 DEF HearSaved
  <2>4. puts' \subseteq PutRow /\ UNCHANGED <<lines, slot, loading>>
    BY <1>1, <1>7 DEF HearSaved
  <2> HIDE DEF after
  <2> QED
    BY <1>2, <2>2, <2>3, <2>4, CardChanged
<1>8. CASE HearFailed(s)
  <2>1. puts' \subseteq PutRow /\ UNCHANGED <<lines, slot, loading>>
    BY <1>1, <1>8 DEF HearFailed
  <2>2. CASE cards' = cards
    BY <2>1, <2>2 DEF SlotsTyped
  <2>3. CASE cards' # cards
    <3>1. cards[s.card] \in CardRow
      BY <1>1, <1>2
    <3>2. [cards[s.card] EXCEPT !.line = "failed", !.answer = "failed"] \in CardRow
      BY <3>1 DEF CardRow
    <3>3. cards' = [cards EXCEPT ![s.card] = [cards[s.card] EXCEPT !.line = "failed", !.answer = "failed"]]
      BY <1>8, <2>3 DEF HearFailed
    <3> QED
      BY <1>2, <2>1, <3>2, <3>3, CardChanged
  <2> QED
    BY <2>2, <2>3
<1> QED
  BY <1>4, <1>5, <1>6, <1>7, <1>8

LEMMA ProvidersTyped ==
  ASSUME SlotsTyped,
         \/ \E p \in Providers : AddProvider(p) \/ SwitchProvider(p) \/ DropProvider(p)
         \/ ReadProviders \/ ReadSlot \/ UseSlot
  PROVE  SlotsTyped'
<1>1. /\ lines \in [Providers -> {"absent", "on", "off"}] /\ slot \in SlotRow /\ loading \in LoadingRow
  BY DEF SlotsTyped
<1>2. ASSUME NEW p \in Providers, AddProvider(p) \/ SwitchProvider(p) PROVE SlotsTyped'
  BY <1>1, <1>2 DEF AddProvider, SwitchProvider, SlotsTyped
<1>3. ASSUME NEW p \in Providers, DropProvider(p) PROVE SlotsTyped'
  <2> DEFINE left == [t \in Targets |->
               IF slot.targets[t].provider = p THEN [slot.targets[t] EXCEPT !.provider = NoOne]
               ELSE slot.targets[t]]
  <2>1. slot.targets \in TargetMaps
    BY <1>1 DEF SlotRow
  <2>2. \A t \in Targets : slot.targets[t] \in Target
    BY <2>1 DEF TargetMaps
  <2>3. left \in TargetMaps
    BY <2>2, BlankCard DEF TargetMaps, Target
  <2>4. slot' = [slot EXCEPT !.targets = left]
    BY <1>3 DEF DropProvider
  <2> HIDE DEF left
  <2>5. slot' \in SlotRow
    BY <1>1, <2>3, <2>4 DEF SlotRow
  <2>6. lines' \in [Providers -> {"absent", "on", "off"}] /\ UNCHANGED <<cards, puts, loading>>
    BY <1>1, <1>3 DEF DropProvider
  <2> QED
    BY <2>5, <2>6 DEF SlotsTyped
<1>4. CASE ReadProviders
  <2>1. Enabled \in SUBSET (Providers \cup {"unread"})
    BY DEF Enabled
  <2>2. loading' \in LoadingRow
    BY <1>1, <1>4, <2>1 DEF ReadProviders, LoadingRow
  <2> QED
    BY <1>4, <2>2 DEF ReadProviders, SlotsTyped
<1>5. CASE ReadSlot
  <2>1. slot.targets \in TargetMaps
    BY <1>1 DEF SlotRow
  <2>2. loading' \in LoadingRow
    BY <1>1, <1>5, <2>1 DEF ReadSlot, LoadingRow
  <2> QED
    BY <1>5, <2>2 DEF ReadSlot, SlotsTyped
<1>6. CASE UseSlot
  <2>1. loading' \in LoadingRow
    BY <1>1, <1>6 DEF UseSlot, LoadingRow
  <2> QED
    BY <1>6, <2>1 DEF UseSlot, SlotsTyped
<1> QED
  BY <1>2, <1>3, <1>4, <1>5, <1>6

LEMMA SlotsTypedAlways == SlotsSpec => []SlotsTyped
<1>1. SlotsTyped /\ [SlotsNext]_choosing => SlotsTyped'
  <2>1. SlotsTyped /\ UNCHANGED choosing => SlotsTyped'
    BY DEF SlotsTyped, choosing
  <2> QED
    BY <2>1, CardsTyped, PutsTyped, ProvidersTyped DEF SlotsNext
<1> QED
  BY <1>1, SlotsTypedFirst, PTL DEF SlotsSpec

LEMMA SlotsTypes == SlotsTyped => SlotsTypeOK
<1> SUFFICES ASSUME SlotsTyped PROVE SlotsTypeOK
  OBVIOUS
<1>1. slot.targets \in [Targets -> Target] /\ slot.params \in Params
  BY DEF SlotsTyped, SlotRow, TargetMaps
<1>2. \A c \in Cards :
        /\ cards[c].targets \in [Targets -> Target]
        /\ cards[c].held \in [Targets -> Models \cup {NoOne}]
        /\ cards[c].line \in {"idle", "saving", "saved", "failed"}
  BY DEF SlotsTyped, CardRow, TargetMaps, Committed
<1>3. \A s \in puts :
        /\ s.at \in {"sent", "merging", "stored", "failed"}
        /\ s.targets \in [Targets -> Target] /\ s.read \in Params
  BY DEF SlotsTyped, PutRow, TargetMaps
<1>4. loading.uses \subseteq Targets
  BY DEF SlotsTyped, LoadingRow
<1> QED
  BY <1>1, <1>2, <1>3, <1>4 DEF SlotsTypeOK, SlotsTyped

(* A tool that is defined has a name and a config, and so has what asks for *)
(* one, the editor it is asked from and the rows that is filled from.       *)
Full(r) == r.name \in Titles /\ r.config \in Configs
ToolsFull ==
  /\ \A i \in Ids : tools[i] # NoRow => Full(tools[i])
  /\ \A c \in Consoles, i \in Ids : listsHeld[c][i] # NoRow => Full(listsHeld[c][i])
  /\ \A c \in Consoles : editor[c].on # Nil => Full(editor[c])
  /\ \A a \in asks : /\ a.kind \in {"create", "update"} => Full(a)
                     /\ a.kind = "approve" => a.name \in Titles
  /\ offered \subseteq Titles /\ offer.rows \subseteq Ids

LEMMA ToolsFullFirst == ToolsInit => ToolsFull
BY DEF ToolsInit, ToolsFull, Full, Closed

LEMMA AskForFull ==
  ASSUME ToolsFull, NEW c \in Consoles, NEW kind, NEW id, NEW from, NEW name, NEW config, NEW enabled,
         AskFor(c, kind, id, from, name, config, enabled),
         kind \in {"create", "update"} => name \in Titles /\ config \in Configs,
         kind = "approve" => name \in Titles
  PROVE  ToolsFull'
<1> DEFINE new == [by |-> c, no |-> asksMade, kind |-> kind, id |-> id, from |-> from,
                   name |-> name, config |-> config, enabled |-> enabled, at |-> "sent"]
<1>1. new.kind = kind /\ new.name = name /\ new.config = config
  OBVIOUS
<1>2. asks' = asks \cup {new} /\ UNCHANGED <<tools, offered, listsHeld, editor, offer>>
  BY DEF AskFor
<1> HIDE DEF new
<1> QED
  BY <1>1, <1>2 DEF ToolsFull, Full

LEMMA ConsolesFull ==
  ASSUME ToolsTyped, ToolsFull, NEW c \in Consoles,
         \/ FetchTools(c) \/ NewTool(c) \/ EditField(c) \/ CloseEditor(c) \/ TestTool(c)
         \/ \E i \in Ids : EditTool(c, i)
  PROVE  ToolsFull'
<1>1. ASSUME NEW e, e.on # Nil => Full(e), editor' = [editor EXCEPT ![c] = e],
             UNCHANGED <<tools, offered, listsHeld, asks, offer>>
      PROVE  ToolsFull'
  <2>1. \A d \in Consoles : editor'[d] = IF d = c THEN e ELSE editor[d]
    BY <1>1 DEF ToolsTyped
  <2> QED
    BY <1>1, <2>1 DEF ToolsFull
<1>2. editor[c] \in Editor
  BY DEF ToolsTyped
<1>3. CASE FetchTools(c)
  <2>1. \A d \in Consoles : listsHeld'[d] = IF d = c THEN tools ELSE listsHeld[d]
    BY <1>3 DEF FetchTools, ToolsTyped
  <2> QED
    BY <1>3, <2>1 DEF FetchTools, ToolsFull
<1>4. CASE NewTool(c)
  <2>1. PICK n \in Titles, g \in Configs :
          editor' = [editor EXCEPT ![c] =
            [on |-> "new", from |-> "new", name |-> n, config |-> g, enabled |-> TRUE]]
    BY <1>4 DEF NewTool
  <2>2. Full([on |-> "new", from |-> "new", name |-> n, config |-> g, enabled |-> TRUE])
    BY DEF Full
  <2> QED
    BY <1>1, <1>4, <2>1, <2>2 DEF NewTool
<1>5. CASE EditField(c)
  <2>1. PICK g \in Configs : editor' = [editor EXCEPT ![c].config = g]
    BY <1>5 DEF EditField
  <2>2. editor' = [editor EXCEPT ![c] = [editor[c] EXCEPT !.config = g]]
    BY <2>1
  <2>3. Full([editor[c] EXCEPT !.config = g])
    BY <1>2, <1>5 DEF EditField, ToolsFull, Full, Editor
  <2> QED
    BY <1>1, <1>5, <2>2, <2>3 DEF EditField
<1>6. CASE CloseEditor(c)
  <2>1. Closed.on = Nil
    BY DEF Closed
  <2> QED
    BY <1>1, <1>6, <2>1 DEF CloseEditor
<1>7. CASE TestTool(c)
  BY <1>7 DEF TestTool, ToolsFull, Full
<1>8. ASSUME NEW i \in Ids, EditTool(c, i) PROVE ToolsFull'
  <2>1. CASE editor[c].on # Nil
    <3>1. editor' = [editor EXCEPT ![c] = [editor[c] EXCEPT !.on = i]]
      BY <1>8, <2>1 DEF EditTool, ToolsTyped
    <3>2. Full([editor[c] EXCEPT !.on = i])
      BY <1>2, <2>1 DEF ToolsFull, Full, Editor
    <3> QED
      BY <1>1, <1>8, <3>1, <3>2 DEF EditTool
  <2>2. CASE editor[c].on = Nil
    <3> DEFINE e == [on |-> i, from |-> i, name |-> listsHeld[c][i].name,
                     config |-> listsHeld[c][i].config, enabled |-> listsHeld[c][i].enabled]
    <3>1. editor' = [editor EXCEPT ![c] = e]
      BY <1>8, <2>2 DEF EditTool, ToolsTyped
    <3>2. Full(listsHeld[c][i])
      BY <1>8 DEF EditTool, ToolsFull
    <3>3. Full(e)
      BY <3>2 DEF Full
    <3> HIDE DEF e
    <3> QED
      BY <1>1, <1>8, <3>1, <3>3 DEF EditTool
  <2> QED
    BY <2>1, <2>2
<1> QED
  BY <1>3, <1>4, <1>5, <1>6, <1>7, <1>8

LEMMA ConsoleAsksFull ==
  ASSUME ToolsTyped, ToolsFull, NEW c \in Consoles,
         \/ SaveTool(c) \/ \E i \in Ids : SwitchTool(c, i) \/ RemoveTool(c, i)
         \/ \E n \in Titles : ApproveTool(c, n)
  PROVE  ToolsFull'
<1>1. CASE SaveTool(c)
  <2>1. Full(editor[c])
    BY <1>1 DEF SaveTool, ToolsFull
  <2> DEFINE kind == IF editor[c].on = "new" THEN "create" ELSE "update"
  <2>2. PICK enabled \in BOOLEAN : enabled = editor[c].enabled
    BY DEF ToolsTyped, Editor
  <2>3. AskFor(c, kind, editor[c].on, editor[c].from, editor[c].name, editor[c].config, enabled)
    BY <1>1, <2>2 DEF SaveTool
  <2>4. kind # "approve"
    OBVIOUS
  <2> HIDE DEF kind
  <2> QED
    BY <2>1, <2>3, <2>4, AskForFull DEF Full
<1>2. ASSUME NEW i \in Ids, SwitchTool(c, i) PROVE ToolsFull'
  <2>1. AskFor(c, "switch", i, i, Nil, Nil, ~listsHeld[c][i].enabled)
    BY <1>2 DEF SwitchTool
  <2>2. PICK enabled \in BOOLEAN : enabled = ~listsHeld[c][i].enabled
    OBVIOUS
  <2>3. AskFor(c, "switch", i, i, Nil, Nil, enabled)
    BY <2>1, <2>2
  <2> QED
    BY <2>3, AskForFull
<1>3. ASSUME NEW i \in Ids, RemoveTool(c, i) PROVE ToolsFull'
  <2>1. PICK enabled \in BOOLEAN : enabled = FALSE
    OBVIOUS
  <2>2. AskFor(c, "remove", i, i, Nil, Nil, enabled)
    BY <1>3, <2>1 DEF RemoveTool
  <2> QED
    BY <2>2, AskForFull
<1>4. ASSUME NEW n \in Titles, ApproveTool(c, n) PROVE ToolsFull'
  BY <1>4, AskForFull DEF ApproveTool
<1> QED
  BY <1>1, <1>2, <1>3, <1>4

LEMMA ApiFull ==
  ASSUME ToolsTyped, ToolsFull, NEW a \in asks,
         \/ CheckName(a) \/ WriteApproval(a) \/ CreateTool(a) \/ UpdateTool(a)
         \/ WriteSwitch(a) \/ DeleteTool(a) \/ HearDone(a) \/ HearRefused(a)
  PROVE  ToolsFull'
<1> DEFINE AskFull(b) == /\ b.kind \in {"create", "update"} => Full(b)
                         /\ b.kind = "approve" => b.name \in Titles
<1>1. a \in ToolAsk /\ AskFull(a) /\ \A b \in asks : AskFull(b)
  BY DEF ToolsTyped, ToolsFull
<1>2. ASSUME NEW at PROVE \A b \in Turned(a, at) : AskFull(b)
  <2>1. AskFull([a EXCEPT !.at = at])
    BY <1>1 DEF ToolAsk, Full
  <2> QED
    BY <1>1, <2>1 DEF Turned
<1>3. ASSUME \A b \in asks' : AskFull(b), \A i \in Ids : tools'[i] # NoRow => Full(tools'[i]),
             UNCHANGED <<listsHeld, editor, offered, offer>>
      PROVE  ToolsFull'
  BY <1>3 DEF ToolsFull
<1>4. \A i \in Ids : tools[i] \in Row /\ (tools[i] # NoRow => Full(tools[i]))
  BY DEF ToolsTyped, ToolsFull
<1>5. ASSUME NEW i \in Ids, NEW r, r # NoRow => Full(r), tools' = [tools EXCEPT ![i] = r]
      PROVE  \A j \in Ids : tools'[j] # NoRow => Full(tools'[j])
  BY <1>4, <1>5 DEF ToolsTyped
<1>6. CASE CheckName(a)
  BY <1>2, <1>3, <1>4, <1>6 DEF CheckName
<1>7. CASE WriteApproval(a)
  <2>1. a.name \in Titles
    BY <1>1, <1>7 DEF WriteApproval
  <2> QED
    BY <1>2, <1>7, <2>1 DEF WriteApproval, ToolsFull
<1>8. CASE CreateTool(a)
  <2>1. (\A b \in asks' : AskFull(b)) /\ UNCHANGED <<listsHeld, editor, offered, offer>>
    BY <1>2, <1>8 DEF CreateTool
  <2>2. CASE tools' = tools
    BY <1>3, <1>4, <2>1, <2>2
  <2>3. CASE \E i \in Ids \ Defined : tools' = [tools EXCEPT ![i] =
                    [name |-> a.name, config |-> a.config, enabled |-> TRUE]]
    <3> DEFINE r == [name |-> a.name, config |-> a.config, enabled |-> TRUE]
    <3>1. Full(a)
      BY <1>1, <1>8 DEF CreateTool
    <3>2. Full(r)
      BY <3>1 DEF Full
    <3>3. PICK i \in Ids : tools' = [tools EXCEPT ![i] = r]
      BY <2>3
    <3> HIDE DEF r
    <3> QED
      BY <1>3, <1>5, <2>1, <3>2, <3>3
  <2> QED
    BY <1>8, <2>2, <2>3 DEF CreateTool
<1>9. CASE UpdateTool(a)
  <2>1. (\A b \in asks' : AskFull(b)) /\ UNCHANGED <<listsHeld, editor, offered, offer>>
    BY <1>2, <1>9 DEF UpdateTool
  <2>2. CASE tools' = tools
    BY <1>3, <1>4, <2>1, <2>2
  <2>3. CASE a.id \in Ids /\ tools' = [tools EXCEPT ![a.id] = Edited(a, tools[a.id])]
    <3>1. Full(a) /\ tools[a.id] \in Row
      BY <1>1, <1>4, <1>9, <2>3 DEF UpdateTool
    <3>2. Full(Edited(a, tools[a.id]))
      BY <3>1 DEF Full, Edited, Row
    <3> QED
      BY <1>3, <1>5, <2>1, <2>3, <3>2
  <2> QED
    BY <1>9, <2>2, <2>3 DEF UpdateTool, Defined
<1>10. CASE WriteSwitch(a)
  <2>1. (\A b \in asks' : AskFull(b)) /\ UNCHANGED <<listsHeld, editor, offered, offer>>
    BY <1>2, <1>10 DEF WriteSwitch
  <2>2. CASE tools' = tools
    BY <1>3, <1>4, <2>1, <2>2
  <2>3. CASE a.id \in Defined /\ tools' = [tools EXCEPT ![a.id].enabled = a.enabled]
    <3>1. a.id \in Ids /\ tools[a.id] \in Row /\ Full(tools[a.id])
      BY <1>4, <2>3 DEF Defined
    <3>2. Full([tools[a.id] EXCEPT !.enabled = a.enabled])
      BY <3>1 DEF Full, Row
    <3>3. tools' = [tools EXCEPT ![a.id] = [tools[a.id] EXCEPT !.enabled = a.enabled]]
      BY <2>3
    <3> QED
      BY <1>3, <1>5, <2>1, <3>1, <3>2, <3>3
  <2> QED
    BY <1>10, <2>2, <2>3 DEF WriteSwitch
<1>11. CASE DeleteTool(a)
  <2>1. (\A b \in asks' : AskFull(b)) /\ UNCHANGED <<listsHeld, editor, offered, offer>>
    BY <1>2, <1>11 DEF DeleteTool
  <2>2. \A j \in Ids : tools'[j] # NoRow => Full(tools'[j])
    BY <1>4, <1>11 DEF DeleteTool, ToolsTyped
  <2> QED
    BY <1>3, <2>1, <2>2
<1>12. CASE HearRefused(a)
  BY <1>12 DEF HearRefused, ToolsFull, Full
<1>13. CASE HearDone(a)
  <2>1. (\A b \in asks' : AskFull(b)) /\ UNCHANGED <<tools, offered, offer>>
    BY <1>1, <1>13 DEF HearDone
  <2>2. \A d \in Consoles : listsHeld'[d] = IF d = a.by THEN tools ELSE listsHeld[d]
    BY <1>13 DEF HearDone, ToolsTyped
  <2>3. Closed.on = Nil
    BY DEF Closed
  <2>4. \A d \in Consoles : editor'[d] = editor[d] \/ editor'[d] = Closed
    BY <1>13 DEF HearDone, ToolsTyped
  <2>5. \A d \in Consoles : editor'[d].on # Nil => Full(editor'[d])
    BY <2>3, <2>4 DEF ToolsFull
  <2> QED
    BY <2>1, <2>2, <2>5 DEF ToolsFull
<1> QED
  BY <1>6, <1>7, <1>8, <1>9, <1>10, <1>11, <1>12, <1>13

LEMMA ToolsFullAlways == ToolsSpec => []ToolsFull
<1>1. ToolsInv /\ ToolsFull /\ [ToolsNext]_tooling => ToolsFull'
  <2> SUFFICES ASSUME ToolsTyped, ToolsFull, [ToolsNext]_tooling PROVE ToolsFull'
    BY DEF ToolsInv
  <2>1. ASSUME UNCHANGED tooling PROVE ToolsFull'
    BY <2>1 DEF tooling, ToolsFull, Full
  <2>2. ASSUME LoadTools PROVE ToolsFull'
    BY <2>2 DEF LoadTools, ToolsFull, Full, Defined
  <2> QED
    BY <2>1, <2>2, ConsolesFull, ConsoleAsksFull, ApiFull DEF ToolsNext
<1> QED
  BY <1>1, ToolsFullFirst, ToolsInvHolds, PTL DEF ToolsSpec

LEMMA ToolsTypes == ToolsInv /\ ToolsFull => ToolsTypeOK
<1> SUFFICES ASSUME ToolsInv, ToolsFull PROVE ToolsTypeOK
  OBVIOUS
<1>1. ASSUME NEW i \in Defined PROVE tools[i] \in [name : Titles, config : Configs, enabled : BOOLEAN]
  <2>1. tools[i] \in Row /\ Full(tools[i])
    BY DEF Defined, ToolsInv, ToolsTyped, ToolsFull
  <2> QED
    BY <2>1 DEF Row, Full
<1>2. \A c \in Consoles : editor[c].on \in Ids \cup {Nil, "new"}
  BY DEF ToolsInv, ToolsTyped, Editor, ToolIds
<1>3. \A a \in asks : a.at \in {"sent", "checked", "done", "refused"}
  BY DEF ToolsInv, ToolsTyped, ToolAsk
<1> QED
  BY <1>1, <1>2, <1>3 DEF ToolsTypeOK, ToolsFull

LEMMA ApprovalsTypes == ApprovalsInv => ApprovalsTypeOK
<1> SUFFICES ASSUME ApprovalsInv PROVE ApprovalsTypeOK
  OBVIOUS
<1>1. row.snapshot \in [Listed -> Word] /\ says \in [Listed -> Word]
  BY DEF ApprovalsInv, ApprovalsTyped, Listing
<1>2. row.allowed \in [Listed -> Effect \ {"unchosen"}]
  BY DEF ApprovalsInv, AllChosen, Held, Decided, EffectMaps
<1>3. \A p \in Panels : panel[p].draft \in [Listed -> Effect]
  BY DEF ApprovalsInv, ApprovalsTyped, DrawnPanel, EffectMaps
<1>4. \A r \in requests : r.draft \in [Listed -> Effect]
  BY DEF ApprovalsInv, ApprovalsTyped, Calling, EffectMaps
<1> QED
  BY <1>1, <1>2, <1>3, <1>4 DEF ApprovalsTypeOK

(* THEOREM EdgesTypeCorrect.                                                *)
(* Every part keeps its types.                                              *)
THEOREM EdgesTypeCorrect == Spec => []EdgesTypeOK
<1>1. /\ AgentInv => AgentTypeOK
      /\ SlotsTyped => SlotsTypeOK
      /\ ToolsInv /\ ToolsFull => ToolsTypeOK
      /\ ApprovalsInv => ApprovalsTypeOK
  BY AgentTypes, SlotsTypes, ToolsTypes, ApprovalsTypes
<1>2. /\ AccessTypeOK /\ SettingsTypeOK /\ ServersTypeOK /\ AgentTypeOK
      /\ PushTypeOK /\ SlotsTypeOK /\ ToolsTypeOK /\ ApprovalsTypeOK
      => EdgesTypeOK
  BY DEF EdgesTypeOK
<1> QED
  BY <1>1, <1>2, PartsAreTheirOwn, AccessTypeCorrect, SettingsTypeCorrect, ServersTypeCorrect,
     AgentInvHolds, PushTypeCorrect, SlotsTypedAlways, ToolsInvHolds, ToolsFullAlways,
     ApprovalsInvHolds, PTL
=============================================================================
