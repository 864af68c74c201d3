------------------------------- MODULE People -------------------------------
(***************************************************************************)
(* Who is who.  Every channel identity that writes gets a customer of its  *)
(* own (resolveConversation); colleagues join two customers that turn out  *)
(* to be one person (merge.ts); an admin erases one (eraseCustomer).       *)
(*                                                                         *)
(* The database is at READ COMMITTED: what a transaction has moved is seen *)
(* by others when it commits, and they wait for the rows it holds.  Rows   *)
(* that reference a customer go with it (ON DELETE CASCADE), judged when   *)
(* the delete runs; a row that names a customer who is gone is refused.    *)
(***************************************************************************)
EXTENDS Naturals, FiniteSets

CONSTANTS
  Who,          \* people as a channel names them (channel id, external id)
  Messages,     \* inbound jobs
  Writer,       \* who wrote each message
  Colleagues,   \* requests that accept a proposal, at most one each at a time
  MaxCustomers, \* bound: customer rows ever made
  MaxThreads,   \* bound: conversation rows ever made
  MaxErasures   \* bound: erasures ever asked for

ASSUME PeopleAssumption ==
  /\ Writer \in [Messages -> Who]
  /\ MaxCustomers \in Nat /\ MaxThreads \in Nat /\ MaxErasures \in Nat

VARIABLES
  customers,  \* the ids with a row; they are time-ordered, so the smaller is the older
  phone,      \* customers whose fields hold the number two records are matched on
  identity,   \* channel_identities: [row, customer] of each person, or NoRow
  threads,    \* conversations: [id, row, customer], row being that of the identity
  pending,    \* merge_suggestions awaiting a decision, as <<older, newer>>
  rejected,   \* those a colleague said no to
  job,        \* each inbound job: where it is and what it has read
  desk,       \* each accepting request: where it is, what it has read and moved
  check,      \* customers about to be checked for matches
  asked,      \* customers whose erasure is queued
  made        \* rows made so far: customers, threads, erasures

records == <<customers, phone, identity, threads, pending, rejected,
          job, desk, check, asked, made>>

Ids == 1 .. MaxCustomers
Pairs == {p \in Ids \X Ids : p[1] < p[2]}
NoRow == [row |-> 0, customer |-> 0]
Rows == [row : Ids, customer : Ids]
Waiting == [at |-> "sent", row |-> 0, customer |-> 0, found |-> 0]
Idle == [at |-> "idle", survivor |-> 0, absorbed |-> 0, known |-> FALSE,
         people |-> {}, moved |-> {}]

PeopleInit ==
  /\ customers = {} /\ phone = {}
  /\ identity = [w \in Who |-> NoRow]
  /\ threads = {}
  /\ pending = {} /\ rejected = {}
  /\ job = [m \in Messages |-> Waiting]
  /\ desk = [k \in Colleagues |-> Idle]
  /\ check = {} /\ asked = {}
  /\ made = [customers |-> 0, threads |-> 0, erasures |-> 0]

Of(c) == {w \in Who : identity[w].customer = c}
Holder(r) == {w \in Who : identity[w] # NoRow /\ identity[w].row = r}

\* Rows a transaction holds: an identity being resolved, identities and conversations moved
\* by a merge.
HeldByJob(w) == \E m \in Messages : job[m].at = "locked" /\ w \in Holder(job[m].row)
HeldByMerge(w) == \E k \in Colleagues : w \in desk[k].people
ThreadHeld(id) == \E k \in Colleagues : id \in desk[k].moved
\* A merge that has pointed rows at its survivor keeps that customer from being deleted.
Pinned(c) == \E k \in Colleagues :
  /\ desk[k].survivor = c
  /\ desk[k].people # {} \/ desk[k].at = "conversations"

\* A delete waits for whoever else holds the customer or a row that would go with it.
MayDelete(c, people, moved) ==
  /\ ~Pinned(c)
  /\ \A w \in Of(c) \ people : ~HeldByJob(w) /\ ~HeldByMerge(w)
  /\ \A t \in threads : t.customer = c /\ t.id \notin moved => ~ThreadHeld(t.id)

\* What DELETE FROM customers takes along: identities and conversations that name the
\* customer, conversations of those identities, and proposals.
DeleteCustomer(c, people, conversations) ==
  /\ customers' = customers \ {c}
  /\ identity' = [w \in Who |-> IF people[w].customer = c THEN NoRow ELSE people[w]]
  /\ threads' = {t \in conversations : /\ t.customer # c
                                       /\ \A w \in Who : identity'[w] = NoRow
                                                           => people[w].row # t.row}
  /\ pending' = {p \in pending : c \notin {p[1], p[2]}}
  /\ rejected' = {p \in rejected : c \notin {p[1], p[2]}}

-----------------------------------------------------------------------------
(* The inbound job: resolveConversation.                                    *)

\* The identity is read; where there is none a customer is inserted for it first.
ReadIdentity(m) ==
  /\ job[m].at = "sent"
  /\ IF identity[Writer[m]] # NoRow
     THEN /\ job' = [job EXCEPT ![m].at = "known",
                                ![m].row = identity[Writer[m]].row,
                                ![m].customer = identity[Writer[m]].customer]
          /\ UNCHANGED <<customers, made>>
     ELSE /\ made.customers < MaxCustomers
          /\ made' = [made EXCEPT !.customers = @ + 1]
          /\ customers' = customers \cup {made'.customers}
          /\ job' = [job EXCEPT ![m].at = "made", ![m].row = made'.customers,
                                ![m].customer = made'.customers]
  /\ UNCHANGED <<phone, identity, threads, pending, rejected, desk, check, asked>>

\* INSERT ... ON CONFLICT DO NOTHING: one of two jobs that made a customer wins.
InsertIdentity(m) ==
  /\ job[m].at = "made"
  /\ IF identity[Writer[m]] = NoRow
     THEN /\ identity' = [identity EXCEPT ![Writer[m]] =
                            [row |-> job[m].row, customer |-> job[m].customer]]
          /\ job' = [job EXCEPT ![m].at = "known"]
     ELSE /\ job' = [job EXCEPT ![m].at = "lost"]
          /\ UNCHANGED identity
  /\ UNCHANGED <<customers, phone, threads, pending, rejected, desk, check, asked, made>>

(* A slip: whoever lost the race goes on with the customer of their own. *)
KeepOwn(m) ==
  /\ job[m].at = "lost"
  /\ job' = [job EXCEPT ![m].at = "known", ![m].row = identity[Writer[m]].row]
  /\ UNCHANGED <<customers, phone, identity, threads, pending, rejected, desk, check, asked, made>>

\* The loser takes the winner's identity and deletes the customer it made; the winner's
\* may have been erased meanwhile, and then the job fails and is retried.
TakeWinners(m) ==
  /\ job[m].at = "lost"
  /\ customers' = customers \ {job[m].customer}
  /\ job' = [job EXCEPT ![m] =
       IF identity[Writer[m]] = NoRow THEN Waiting
       ELSE [Waiting EXCEPT !.at = "known", !.row = identity[Writer[m]].row,
                            !.customer = identity[Writer[m]].customer]]
  /\ UNCHANGED <<phone, identity, threads, pending, rejected, desk, check, asked, made>>

\* SELECT ... FOR UPDATE on the identity, and the look for its conversation under that lock.
LockIdentity(m) ==
  /\ job[m].at = "known"
  /\ \A w \in Holder(job[m].row) : ~HeldByJob(w) /\ ~HeldByMerge(w)
  /\ LET mine == {t \in threads : t.row = job[m].row}
     IN job' = [job EXCEPT ![m].at = "locked",
                           ![m].found = IF mine = {} THEN 0 ELSE (CHOOSE t \in mine : TRUE).id]
  /\ UNCHANGED <<customers, phone, identity, threads, pending, rejected, desk, check, asked, made>>

\* The conversation found is continued; otherwise one is inserted for the customer the
\* identity had when it was read, and a foreign key that no longer holds fails the job.
Converse(m) ==
  /\ job[m].at = "locked"
  /\ IF job[m].found # 0
     THEN /\ job' = [job EXCEPT ![m] = [Waiting EXCEPT !.at = "done"]]
          /\ UNCHANGED <<threads, made>>
     ELSE IF job[m].customer \in customers /\ Holder(job[m].row) # {}
     THEN /\ made.threads < MaxThreads
          /\ made' = [made EXCEPT !.threads = @ + 1]
          /\ threads' = threads \cup {[id |-> made'.threads, row |-> job[m].row,
                                       customer |-> job[m].customer]}
          /\ job' = [job EXCEPT ![m] = [Waiting EXCEPT !.at = "done"]]
     ELSE /\ job' = [job EXCEPT ![m] = Waiting]
          /\ UNCHANGED <<threads, made>>
  /\ UNCHANGED <<customers, phone, identity, pending, rejected, desk, check, asked>>

\* The worker dies, or a statement fails: the job starts again from nothing, and a
\* customer inserted for it stays behind.
RetryJob(m) ==
  /\ job[m].at \in {"made", "lost", "known", "locked"}
  /\ job' = [job EXCEPT ![m] = Waiting]
  /\ UNCHANGED <<customers, phone, identity, threads, pending, rejected, desk, check, asked, made>>

-----------------------------------------------------------------------------
(* Fields, proposals and decisions.                                         *)

\* A turn records what a customer said of themselves (mergeCustomerFields).
RecordField(c) ==
  /\ \E t \in threads : t.customer = c
  /\ c \notin phone
  /\ phone' = phone \cup {c}
  /\ check' = check \cup {c}
  /\ UNCHANGED <<customers, identity, threads, pending, rejected, job, desk, asked, made>>

(* A slip: a pair is stored as it was met. *)
AsMet(a, b) == <<a, b>>

Ordered(a, b) == IF a < b THEN <<a, b>> ELSE <<b, a>>

\* suggestMergesFor: every other customer with the same number, unless the pair was
\* raised before.  The process that was about to do it may die instead.
Suggest(c) ==
  /\ c \in check
  /\ check' = check \ {c}
  /\ \/ UNCHANGED pending
     \/ /\ c \in customers \cap phone
        /\ pending' = pending \cup
             ({Ordered(c, d) : d \in (customers \cap phone) \ {c}} \ rejected)
  /\ UNCHANGED <<customers, phone, identity, threads, rejected, job, desk, asked, made>>

\* rejectMergeSuggestion.
Reject(p) ==
  /\ p \in pending
  /\ pending' = pending \ {p}
  /\ rejected' = rejected \cup {p}
  /\ UNCHANGED <<customers, phone, identity, threads, job, desk, check, asked, made>>

\* acceptMergeSuggestion and the first read of mergeCustomers, before its transaction:
\* the proposal is pending, and what either record knows is computed here.
Accept(k, p) ==
  /\ desk[k] = Idle
  /\ p \in pending
  /\ desk' = [desk EXCEPT ![k] = [Idle EXCEPT !.at = "decided", !.survivor = p[1],
                !.absorbed = p[2], !.known = p[1] \in phone \/ p[2] \in phone]]
  /\ UNCHANGED <<customers, phone, identity, threads, pending, rejected, job, check, asked, made>>

\* First statement: the absorbed customer's identities.  It waits for the rows others
\* hold, and fails when the survivor it points them at is gone.
RepointIdentities(k) ==
  /\ desk[k].at = "decided"
  /\ LET people == Of(desk[k].absorbed)
     IN /\ \A w \in people : ~HeldByJob(w) /\ ~HeldByMerge(w)
        /\ desk' = [desk EXCEPT ![k] =
             IF people # {} /\ desk[k].survivor \notin customers THEN Idle
             ELSE [@ EXCEPT !.at = "identities", !.people = people]]
  /\ UNCHANGED <<customers, phone, identity, threads, pending, rejected, job, check, asked, made>>

\* Then its conversations (embeddings and summaries follow them), and the survivor's fields.
RepointConversations(k) ==
  /\ desk[k].at = "identities"
  /\ LET moved == {t.id : t \in {u \in threads : u.customer = desk[k].absorbed}}
     IN /\ \A id \in moved : ~ThreadHeld(id)
        /\ desk' = [desk EXCEPT ![k] =
             IF moved # {} /\ desk[k].survivor \notin customers THEN Idle
             ELSE [@ EXCEPT !.at = "conversations", !.moved = moved]]
  /\ UNCHANGED <<customers, phone, identity, threads, pending, rejected, job, check, asked, made>>

\* Last the absorbed customer is deleted, once nobody holds its row, and all of it
\* commits; acceptMergeSuggestion then checks the survivor again.
CommitMerge(k) ==
  /\ desk[k].at = "conversations"
  /\ LET d == desk[k]
     IN /\ MayDelete(d.absorbed, d.people, d.moved)
        /\ DeleteCustomer(d.absorbed,
             [w \in Who |-> IF w \in d.people THEN [identity[w] EXCEPT !.customer = d.survivor]
                            ELSE identity[w]],
             {IF t.id \in d.moved THEN [t EXCEPT !.customer = d.survivor] ELSE t : t \in threads})
        /\ phone' = (phone \ {d.survivor}) \cup (IF d.known THEN {d.survivor} ELSE {})
        /\ check' = check \cup {d.survivor}
  /\ desk' = [desk EXCEPT ![k] = Idle]
  /\ UNCHANGED <<job, asked, made>>

\* The request dies or its transaction is rolled back: nothing it moved has happened.
AbandonMerge(k) ==
  /\ desk[k] # Idle
  /\ desk' = [desk EXCEPT ![k] = Idle]
  /\ UNCHANGED <<customers, phone, identity, threads, pending, rejected, job, check, asked, made>>

-----------------------------------------------------------------------------
(* Erasure.                                                                 *)

\* The erase-customer route, asked on a conversation; one job for each customer.
AskErasure(c) ==
  /\ made.erasures < MaxErasures
  /\ \E t \in threads : t.customer = c
  /\ c \notin asked
  /\ made' = [made EXCEPT !.erasures = @ + 1]
  /\ asked' = asked \cup {c}
  /\ UNCHANGED <<customers, phone, identity, threads, pending, rejected, job, desk, check>>

\* eraseCustomer deletes the row, if it is still there.
EraseCustomer(c) ==
  /\ c \in asked
  /\ MayDelete(c, {}, {})
  /\ DeleteCustomer(c, identity, threads)
  /\ asked' = asked \ {c}
  /\ UNCHANGED <<phone, job, desk, check, made>>

PeopleNext ==
  \/ \E m \in Messages : \/ ReadIdentity(m) \/ InsertIdentity(m) \/ TakeWinners(m)
                         \/ LockIdentity(m) \/ Converse(m) \/ RetryJob(m)
  \/ \E c \in Ids : \/ RecordField(c) \/ Suggest(c) \/ AskErasure(c) \/ EraseCustomer(c)
  \/ \E p \in Pairs : Reject(p)
  \/ \E k \in Colleagues :
       \/ \E p \in Pairs : Accept(k, p)
       \/ RepointIdentities(k) \/ RepointConversations(k) \/ CommitMerge(k) \/ AbandonMerge(k)

PeopleSpec == PeopleInit /\ [][PeopleNext]_records

-----------------------------------------------------------------------------
(* Every variable holds what its table or its process can hold.             *)
PeopleTypeOK ==
  /\ customers \subseteq Ids /\ phone \subseteq Ids
  /\ check \subseteq Ids /\ asked \subseteq Ids
  /\ identity \in [Who -> Rows \cup {NoRow}]
  /\ threads \subseteq [id : 1 .. MaxThreads, row : Ids, customer : Ids]
  /\ pending \subseteq Pairs /\ rejected \subseteq Pairs
  /\ job \in [Messages -> [at : {"sent", "made", "lost", "known", "locked", "done"},
                           row : 0 .. MaxCustomers, customer : 0 .. MaxCustomers,
                           found : 0 .. MaxThreads]]
  /\ desk \in [Colleagues -> [at : {"idle", "decided", "identities", "conversations"},
                              survivor : 0 .. MaxCustomers, absorbed : 0 .. MaxCustomers,
                              known : BOOLEAN, people : SUBSET Who,
                              moved : SUBSET (1 .. MaxThreads)]]
  /\ made \in [customers : 0 .. MaxCustomers, threads : 0 .. MaxThreads,
               erasures : 0 .. MaxErasures]

(* However many messages of one person are resolved at once, and whatever   *)
(* is merged meanwhile, an identity has one conversation (repo.ts:296-305). *)
OneConversationEach ==
  \A t, u \in threads : t.row = u.row => t = u

(* A conversation belongs to the customer its identity belongs to: a job    *)
(* that read the identity before a merge never writes the old customer.     *)
ConversationFollowsIdentity ==
  \A t \in threads : \E w \in Who : identity[w] = [row |-> t.row, customer |-> t.customer]

(* A conversation leaves the database by an erasure that was asked for its  *)
(* customer, never by the delete that ends a merge (merge.ts:230-242).      *)
HistoryIsKept ==
  [][\A t \in threads : \/ \E u \in threads' : u.id = t.id
                        \/ t.customer \in asked /\ t.customer \notin asked']_records

(* A pair a colleague said no to is not raised again, whatever is recorded  *)
(* or merged later, as long as both records exist (merge.ts:107-113).       *)
RejectionIsRemembered ==
  [][\A p \in rejected : \/ p \in rejected' \ pending'
                         \/ ~({p[1], p[2]} \subseteq customers')]_records
=============================================================================
