------------------------------- MODULE Queue --------------------------------
(***************************************************************************)
(* The inbox's list of conversations: the API's order and its pages (GET   *)
(* /conversations), and the console that loads them one after the other    *)
(* while conversations move in the queue.  A page starts after the keys of *)
(* the last row of the one before.  The four sort keys are one number here,*)
(* different for every conversation (the id is the last of them); 0 is a   *)
(* conversation the filters leave out.                                     *)
(***************************************************************************)
EXTENDS Naturals, Sequences, FiniteSets

CONSTANTS
  Listed,    \* conversations of the workspace
  MaxKey,    \* bound: places in the order
  PageSize,  \* `limit`
  MaxMoves   \* bound: times a conversation moves

ASSUME QueueAssumption ==
  /\ IsFiniteSet(Listed) /\ MaxKey \in Nat /\ PageSize \in Nat \ {0} /\ MaxMoves \in Nat

VARIABLES
  key,      \* the place of each conversation
  moves,    \* how often one has moved
  pages,    \* what the console shows: conversations.data.pages
  still,    \* conversations that have not moved since the first of these was read
  fetching  \* the fetch under way: the pages it has, how many it wants

queue == <<key, moves, pages, still, fetching>>

Idling == [pages |-> << >>, want |-> 0, still |-> {}]

(* A slip: the next page is asked for after the row that did not fit on this one. *)
PageUpTo(cursor) ==
  LET later == {c \in Listed : key[c] > cursor}
      upTo(n) == {c \in later : Cardinality({d \in later : key[d] < key[c]}) < n}
  IN [rows |-> upTo(PageSize),
      next |-> IF upTo(PageSize) = later THEN 0
               ELSE CHOOSE k \in 1 .. MaxKey : \E c \in upTo(PageSize + 1) \ upTo(PageSize) : key[c] = k]

\* The rows after a cursor, as many as a page holds, and the cursor after them, if there
\* are more: one more row than a page is asked for.
PageAfter(cursor) ==
  LET later == {c \in Listed : key[c] > cursor}
      rows == {c \in later : Cardinality({d \in later : key[d] < key[c]}) < PageSize}
  IN [rows |-> rows,
      next |-> IF rows = later THEN 0
               ELSE CHOOSE k \in 1 .. MaxKey : /\ \E c \in rows : key[c] = k
                                               /\ \A c \in rows : key[c] <= k]

NextCursor(shown) == IF shown = << >> THEN 0 ELSE shown[Len(shown)].next

QueueInit ==
  /\ key \in {f \in [Listed -> 0 .. MaxKey] :
                \A c, d \in Listed : f[c] = f[d] /\ f[c] # 0 => c = d}
  /\ moves = 0 /\ pages = << >> /\ still = {}
  /\ fetching = [Idling EXCEPT !.want = 1, !.still = Listed]

\* A customer writes, an agent answers, claims or resolves: the conversation is elsewhere in
\* the queue, or in none of it.
Move(c) ==
  /\ moves < MaxMoves
  /\ moves' = moves + 1
  /\ \E k \in {0} \cup ((1 .. MaxKey) \ {key[d] : d \in Listed}) :
       k # key[c] /\ key' = [key EXCEPT ![c] = k]
  /\ still' = still \ {c}
  /\ fetching' = [fetching EXCEPT !.still = @ \ {c}]
  /\ UNCHANGED pages

\* An event, or the interval: every page is read again, from the first.  A fetch that is
\* under way is dropped.
RefetchPages ==
  /\ fetching' = [pages |-> << >>, want |-> IF pages = << >> THEN 1 ELSE Len(pages),
                  still |-> Listed]
  /\ UNCHANGED <<key, moves, pages, still>>

\* "Load more".
LoadMore ==
  /\ pages # << >> /\ NextCursor(pages) # 0
  /\ fetching' = [pages |-> pages, want |-> Len(pages) + 1, still |-> still]
  /\ UNCHANGED <<key, moves, pages, still>>

\* The API answers with a page; what is shown is replaced once the fetch has all it wants,
\* or there is no more.
ReadPage ==
  /\ fetching.want > 0
  /\ LET read == Append(fetching.pages, PageAfter(NextCursor(fetching.pages)))
     IN IF Len(read) = fetching.want \/ NextCursor(read) = 0
        THEN pages' = read /\ still' = fetching.still /\ fetching' = Idling
        ELSE fetching' = [fetching EXCEPT !.pages = read] /\ UNCHANGED <<pages, still>>
  /\ UNCHANGED <<key, moves>>

\* The request fails: what was shown stays.
FailPage ==
  /\ fetching.want > 0
  /\ fetching' = Idling
  /\ UNCHANGED <<key, moves, pages, still>>

QueueNext == (\E c \in Listed : Move(c)) \/ RefetchPages \/ LoadMore \/ ReadPage \/ FailPage
QueueSpec == QueueInit /\ [][QueueNext]_queue

-----------------------------------------------------------------------------
PageSet == [rows : SUBSET Listed, next : 0 .. MaxKey]

(* The list is made of pages, and a fetch of the pages it has read.         *)
QueueTypeOK ==
  /\ key \in [Listed -> 0 .. MaxKey] /\ moves \in 0 .. MaxMoves
  /\ pages \in Seq(PageSet) /\ still \subseteq Listed
  /\ fetching \in [pages : Seq(PageSet), want : Nat, still : SUBSET Listed]

(* While other conversations rise, sink, arrive and leave between two pages,*)
(* one that did not move is shown, and once: "every row that did not move   *)
(* is seen exactly once" (conversations.ts:245-247).                        *)
StillRowsAreSeenOnce ==
  \A c \in still :
    key[c] # 0 /\ pages # << >> /\ (NextCursor(pages) = 0 \/ key[c] <= NextCursor(pages))
    => Cardinality({i \in DOMAIN pages : c \in pages[i].rows}) = 1
=============================================================================
