---------------------------- MODULE ConsoleProofs ---------------------------
(***************************************************************************)
(* What holds of the parts of MCConsole for any number of conversations,   *)
(* messages, sockets, tabs, editors and jobs: a row that did not move is   *)
(* seen once, a message is drawn once and in its place, the sockets of a   *)
(* workspace share one room, and no job puts an older text back.           *)
(***************************************************************************)
EXTENDS MCConsole, SequenceTheorems, FiniteSetTheorems, WellFoundedInduction, TLAPS

-----------------------------------------------------------------------------
(* The inbox's pages.                                                       *)

(* Where the queue is as k says, each of the conversations S is once in     *)
(* these pages if they reach it, and in none of them if they do not.        *)
ReachedOnce(k, shown, S) ==
  \A c \in S : k[c] # 0 /\ shown # << >> =>
    /\ NextCursor(shown) = 0 \/ k[c] <= NextCursor(shown) =>
         \E i \in DOMAIN shown : c \in shown[i].rows /\ \A j \in DOMAIN shown : c \in shown[j].rows => j = i
    /\ NextCursor(shown) # 0 /\ k[c] > NextCursor(shown) =>
         \A i \in DOMAIN shown : c \notin shown[i].rows

FetchRows == [pages : Seq(PageSet), want : Nat, still : SUBSET Listed]

(* A fetch goes on only after a page there is more below.                   *)
QueueInv ==
  /\ QueueTypeOK
  /\ ReachedOnce(key, pages, still)
  /\ ReachedOnce(key, fetching.pages, fetching.still)
  /\ fetching.pages # << >> => NextCursor(fetching.pages) # 0

LEMMA ArgMin ==
  ASSUME NEW S, S # {}, NEW f, \A x \in S : f[x] \in Nat
  PROVE  \E x \in S : \A y \in S : f[x] <= f[y]
<1> DEFINE Below == OpToRel(<, Nat)
           T == {f[x] : x \in S}
<1>1. IsWellFoundedOn(Below, Nat)
  BY NatLessThanWellFounded
<1>2. \A x, y \in Nat : x < y => <<x, y>> \in Below
  BY DEF OpToRel
<1> HIDE DEF Below
<1>3. T \subseteq Nat /\ T # {}
  OBVIOUS
<1>4. PICK least \in T : \A y \in T : ~ (<<y, least>> \in Below)
  BY <1>1, <1>3, WFMin
<1>5. \A y \in T : least <= y
  <2> SUFFICES ASSUME NEW y \in T PROVE least <= y
    OBVIOUS
  <2>1. y \in Nat /\ least \in Nat
    BY <1>3
  <2>2. ~(y < least)
    BY <1>2, <1>4, <2>1
  <2> QED
    BY <2>1, <2>2
<1>6. PICK x \in S : f[x] = least
  BY <1>4
<1> QED
  BY <1>5, <1>6

LEMMA ArgMax ==
  ASSUME NEW S, S # {}, NEW n \in Nat, NEW f, \A x \in S : f[x] \in 0 .. n
  PROVE  \E x \in S : \A y \in S : f[y] <= f[x]
<1> DEFINE g == [x \in S |-> n - f[x]]
<1>1. \A x \in S : g[x] \in Nat /\ g[x] = n - f[x] /\ f[x] \in Nat
  OBVIOUS
<1> HIDE DEF g
<1>2. PICK x \in S : \A y \in S : g[x] <= g[y]
  BY <1>1, ArgMin
<1>3. \A y \in S : f[y] <= f[x]
  BY <1>1, <1>2
<1> QED
  BY <1>3

(* A page holds all that is left, or what comes first of it and a cursor    *)
(* between the two.                                                         *)
LEMMA PageIsSound ==
  ASSUME key \in [Listed -> 0 .. MaxKey], NEW cursor \in Nat
  PROVE  /\ PageAfter(cursor) \in PageSet
         /\ \A c \in PageAfter(cursor).rows : key[c] > cursor
         /\ PageAfter(cursor).next = 0 => \A c \in Listed : key[c] > cursor => c \in PageAfter(cursor).rows
         /\ PageAfter(cursor).next # 0 =>
              /\ PageAfter(cursor).next > cursor
              /\ \A c \in Listed : key[c] > cursor =>
                   (c \in PageAfter(cursor).rows <=> key[c] <= PageAfter(cursor).next)
<1> DEFINE later == {c \in Listed : key[c] > cursor}
           before(c) == {d \in later : key[d] < key[c]}
           those == {c \in later : Cardinality(before(c)) < PageSize}
           next == PageAfter(cursor).next
<1>0. MaxKey \in Nat /\ PageSize \in Nat /\ PageSize # 0 /\ IsFiniteSet(Listed)
  BY QueueAssumption
<1>1. PageAfter(cursor).rows = those
  BY DEF PageAfter
<1>2. next = IF those = later THEN 0
             ELSE CHOOSE k \in 1 .. MaxKey : /\ \E c \in those : key[c] = k
                                             /\ \A c \in those : key[c] <= k
  BY DEF PageAfter
<1>3. \A c \in later : key[c] \in Nat /\ key[c] \in 1 .. MaxKey /\ key[c] > cursor /\ c \in Listed
  BY <1>0
<1>4. \A c \in Listed : key[c] > cursor => c \in later
  OBVIOUS
<1>5. later \subseteq Listed /\ IsFiniteSet(later)
  BY <1>0, FS_Subset
<1>6. \A c \in later : before(c) \subseteq later /\ IsFiniteSet(before(c)) /\ Cardinality(before(c)) \in Nat
  BY <1>5, FS_Subset, FS_CardinalityType
<1>7. \A c, d \in later : key[d] <= key[c] => Cardinality(before(d)) <= Cardinality(before(c))
  <2> SUFFICES ASSUME NEW c \in later, NEW d \in later, key[d] <= key[c]
               PROVE  Cardinality(before(d)) <= Cardinality(before(c))
    OBVIOUS
  <2>1. before(d) \subseteq before(c)
    BY <1>3
  <2> HIDE DEF before
  <2> QED
    BY <1>6, <2>1, FS_Subset
<1>8. those \subseteq later /\ \A c \in later : c \in those <=> Cardinality(before(c)) < PageSize
  OBVIOUS
<1>9. ASSUME those # later PROVE those # {}
  <2>1. later # {}
    BY <1>9
  <2>2. PICK c \in later : \A d \in later : key[c] <= key[d]
    BY <1>3, <2>1, ArgMin
  <2>3. before(c) = {}
    BY <1>3, <2>2
  <2>4. Cardinality(before(c)) = 0
    BY <2>3, FS_EmptySet
  <2> QED
    BY <1>0, <2>4
<1> HIDE DEF later, before, those
<1>10. ASSUME those # later
       PROVE  /\ next \in 1 .. MaxKey /\ next > cursor
              /\ \A c \in later : c \in those <=> key[c] <= next
  <2>1. \A c \in those : key[c] \in 0 .. MaxKey /\ key[c] \in 1 .. MaxKey /\ key[c] \in Nat
    BY <1>3, <1>8
  <2>2. PICK last \in those : \A c \in those : key[c] <= key[last]
    BY <1>0, <1>9, <1>10, <2>1, ArgMax
  <2>3. key[last] \in 1 .. MaxKey
    BY <2>1
  <2> DEFINE Ends(k) == (\E c \in those : key[c] = k) /\ (\A c \in those : key[c] <= k)
  <2>4. Ends(key[last])
    BY <2>2
  <2>5. next = CHOOSE k \in 1 .. MaxKey : Ends(k)
    BY <1>2, <1>10
  <2>6. next \in 1 .. MaxKey /\ Ends(next)
    <3> HIDE DEF Ends, next
    <3> QED
      BY <2>3, <2>4, <2>5
  <2>7. PICK end \in those : key[end] = next
    BY <2>6
  <2>8. \A c \in later : key[c] <= next => c \in those
    <3> SUFFICES ASSUME NEW c \in later, key[c] <= next PROVE c \in those
      OBVIOUS
    <3>1. Cardinality(before(c)) <= Cardinality(before(end)) /\ Cardinality(before(end)) < PageSize
      BY <1>7, <1>8, <2>7
    <3>2. Cardinality(before(c)) \in Nat /\ Cardinality(before(end)) \in Nat
      BY <1>6, <1>8
    <3> QED
      BY <1>0, <1>8, <3>1, <3>2
  <2>9. next > cursor
    BY <1>3, <1>8, <2>7
  <2> QED
    BY <1>8, <2>6, <2>8, <2>9
<1>11. PageAfter(cursor) \in PageSet
  <2>1. next \in 0 .. MaxKey
    BY <1>0, <1>2, <1>10
  <2>2. PageAfter(cursor) = [rows |-> PageAfter(cursor).rows, next |-> next]
    BY DEF PageAfter
  <2>3. those \subseteq Listed
    BY <1>5, <1>8
  <2> QED
    BY <1>1, <2>1, <2>2, <2>3 DEF PageSet
<1>12. those # later => next # 0
  BY <1>10
<1>13. those = later => next = 0
  BY <1>2
<1> HIDE DEF next
<1>14. \A c \in those : key[c] > cursor
  BY <1>3, <1>8
<1>15. next = 0 => \A c \in Listed : key[c] > cursor => c \in those
  BY <1>4, <1>12
<1>16. next # 0 => next > cursor /\ \A c \in Listed : key[c] > cursor => (c \in those <=> key[c] <= next)
  BY <1>4, <1>10, <1>13
<1> QED
  BY <1>1, <1>11, <1>14, <1>15, <1>16 DEF next

LEMMA QueueFacts ==
  ASSUME QueueInv
  PROVE  /\ key \in [Listed -> 0 .. MaxKey] /\ moves \in 0 .. MaxMoves /\ pages \in Seq(PageSet)
         /\ still \subseteq Listed /\ fetching \in FetchRows /\ fetching.pages \in Seq(PageSet)
         /\ fetching.want \in Nat /\ fetching.still \subseteq Listed /\ MaxKey \in Nat
         /\ \A c \in Listed : key[c] \in Nat
BY QueueAssumption DEF QueueInv, QueueTypeOK, FetchRows

LEMMA CursorIsNat ==
  ASSUME NEW shown \in Seq(PageSet)
  PROVE  /\ NextCursor(shown) \in 0 .. MaxKey /\ NextCursor(shown) \in Nat
         /\ shown # << >> => NextCursor(shown) = shown[Len(shown)].next /\ Len(shown) \in DOMAIN shown
         /\ Len(shown) \in Nat /\ DOMAIN shown = 1 .. Len(shown)
<1>1. Len(shown) \in Nat /\ DOMAIN shown = 1 .. Len(shown) /\ MaxKey \in Nat
  BY QueueAssumption
<1>2. shown # << >> => Len(shown) \in 1 .. Len(shown)
  BY <1>1, EmptySeq
<1>3. shown # << >> => shown[Len(shown)] \in PageSet
  BY <1>2, ElementOfSeq
<1>4. shown # << >> => shown[Len(shown)].next \in 0 .. MaxKey
  BY <1>3 DEF PageSet
<1> QED
  BY <1>1, <1>2, <1>4 DEF NextCursor

(* One page more.                                                           *)
LEMMA OnePageMore ==
  ASSUME key \in [Listed -> 0 .. MaxKey], NEW shown \in Seq(PageSet), NEW S \in SUBSET Listed,
         ReachedOnce(key, shown, S), shown # << >> => NextCursor(shown) # 0
  PROVE  LET read == Append(shown, PageAfter(NextCursor(shown)))
         IN read \in Seq(PageSet) /\ ReachedOnce(key, read, S)
<1> DEFINE cursor == NextCursor(shown)
           page == PageAfter(cursor)
           read == Append(shown, page)
           n == Len(shown) + 1
<1>1. cursor \in Nat /\ Len(shown) \in Nat /\ DOMAIN shown = 1 .. Len(shown)
  BY CursorIsNat
<1>2. /\ page \in PageSet
      /\ \A c \in page.rows : key[c] > cursor
      /\ page.next = 0 => \A c \in Listed : key[c] > cursor => c \in page.rows
      /\ page.next # 0 => /\ page.next > cursor
                          /\ \A c \in Listed : key[c] > cursor => (c \in page.rows <=> key[c] <= page.next)
  BY <1>1, PageIsSound
<1>3. shown = << >> => cursor = 0
  BY DEF NextCursor
<1>4. shown # << >> => cursor # 0
  OBVIOUS
<1>5. \A c \in S : key[c] # 0 /\ shown # << >> =>
        /\ key[c] <= cursor =>
             \E i \in DOMAIN shown : c \in shown[i].rows /\ \A j \in DOMAIN shown : c \in shown[j].rows => j = i
        /\ key[c] > cursor => \A i \in DOMAIN shown : c \notin shown[i].rows
  BY <1>4 DEF ReachedOnce
<1>6. page.next \in Nat
  BY <1>2, QueueAssumption DEF PageSet
<1> HIDE DEF cursor, page
<1>7. /\ read \in Seq(PageSet) /\ Len(read) = n /\ read[n] = page
      /\ \A i \in 1 .. Len(shown) : read[i] = shown[i]
  BY <1>2, AppendProperties
<1>8. DOMAIN read = 1 .. n /\ n \in DOMAIN read /\ read # << >> /\ NextCursor(read) = page.next
  <2>1. DOMAIN read = 1 .. n /\ n \in 1 .. n
    BY <1>1, <1>7
  <2>2. read # << >>
    BY <1>1, <1>7, EmptySeq
  <2> QED
    BY <1>7, <2>1, <2>2 DEF NextCursor
<1> HIDE DEF read
<1>9. \A i \in 1 .. n : i = n \/ (i \in 1 .. Len(shown) /\ i # n)
  BY <1>1
<1>10. ASSUME NEW c \in S, key[c] # 0
       PROVE  /\ page.next = 0 \/ key[c] <= page.next =>
                   \E i \in DOMAIN read : c \in read[i].rows /\ \A j \in DOMAIN read : c \in read[j].rows => j = i
              /\ page.next # 0 /\ key[c] > page.next => \A i \in DOMAIN read : c \notin read[i].rows
  <2>1. key[c] \in Nat /\ key[c] > 0 /\ c \in Listed
    BY <1>10, QueueAssumption
  <2>2. CASE key[c] <= cursor
    <3>1. shown # << >>
      BY <1>3, <2>1, <2>2
    <3>2. PICK i \in DOMAIN shown : c \in shown[i].rows /\ \A j \in DOMAIN shown : c \in shown[j].rows => j = i
      BY <1>5, <1>10, <2>2, <3>1
    <3>3. c \notin page.rows
      BY <1>1, <1>2, <2>1, <2>2
    <3>4. i \in DOMAIN read /\ c \in read[i].rows
      BY <1>1, <1>7, <1>8, <3>2
    <3>5. \A j \in DOMAIN read : c \in read[j].rows => j = i
      BY <1>1, <1>7, <1>8, <1>9, <3>2, <3>3
    <3>6. ~(page.next # 0 /\ key[c] > page.next)
      BY <1>1, <1>2, <1>6, <2>1, <2>2
    <3> QED
      BY <3>4, <3>5, <3>6
  <2>3. CASE key[c] > cursor
    <3>1. \A i \in DOMAIN shown : c \notin shown[i].rows
      <4>1. CASE shown = << >>
        BY <1>1, <4>1, EmptySeq
      <4>2. CASE shown # << >>
        BY <1>5, <1>10, <2>3, <4>2
      <4> QED
        BY <4>1, <4>2
    <3>2. \A i \in DOMAIN read : c \in read[i].rows => i = n
      BY <1>1, <1>7, <1>8, <1>9, <3>1
    <3>3. CASE page.next = 0 \/ key[c] <= page.next
      <4>1. c \in page.rows
        BY <1>2, <2>1, <2>3, <3>3
      <4>2. c \in read[n].rows
        BY <1>7, <4>1
      <4> QED
        BY <1>6, <1>8, <2>1, <3>2, <3>3, <4>2
    <3>4. CASE page.next # 0 /\ key[c] > page.next
      <4>1. c \notin page.rows
        BY <1>2, <1>6, <2>1, <2>3, <3>4
      <4>2. \A i \in DOMAIN read : c \notin read[i].rows
        BY <1>7, <3>2, <4>1
      <4> QED
        BY <1>6, <2>1, <3>4, <4>2
    <3> QED
      BY <1>6, <2>1, <3>3, <3>4
  <2> QED
    BY <1>1, <2>1, <2>2, <2>3
<1>11. ReachedOnce(key, read, S)
  BY <1>8, <1>10 DEF ReachedOnce
<1> QED
  BY <1>7, <1>11 DEF read, page, cursor

LEMMA QueueStart == QueueInit => QueueInv
<1> SUFFICES ASSUME QueueInit PROVE QueueInv
  OBVIOUS
<1>1. << >> \in Seq(PageSet) /\ MaxMoves \in Nat /\ 0 \in 0 .. MaxMoves
  BY EmptySeq, QueueAssumption
<1>2. /\ fetching = [pages |-> << >>, want |-> 1, still |-> Listed] /\ pages = << >> /\ still = {} /\ moves = 0
      /\ key \in [Listed -> 0 .. MaxKey]
  BY DEF QueueInit, Idling
<1>3. fetching \in FetchRows /\ fetching.pages = << >>
  BY <1>1, <1>2 DEF FetchRows
<1>4. QueueTypeOK
  BY <1>1, <1>2, <1>3 DEF QueueTypeOK, FetchRows
<1>5. \A S : ReachedOnce(key, << >>, S)
  BY DEF ReachedOnce
<1> QED
  BY <1>2, <1>3, <1>4, <1>5 DEF QueueInv

(* A fetch begins, or is over; what is shown stays.                         *)
LEMMA FetchBegins ==
  ASSUME QueueInv, NEW row \in FetchRows, fetching' = row, UNCHANGED <<key, moves, pages, still>>,
         ReachedOnce(key, row.pages, row.still), row.pages # << >> => NextCursor(row.pages) # 0
  PROVE  QueueInv'
BY DEF QueueInv, QueueTypeOK, FetchRows, ReachedOnce, NextCursor

LEMMA MoveKeeps ==
  ASSUME QueueInv, NEW c \in Listed, Move(c)
  PROVE  QueueInv'
<1> DEFINE row == [fetching EXCEPT !.still = fetching.still \ {c}]
<1>0. /\ key \in [Listed -> 0 .. MaxKey] /\ moves \in 0 .. MaxMoves /\ pages \in Seq(PageSet)
      /\ still \subseteq Listed /\ fetching \in FetchRows /\ fetching.still \subseteq Listed
      /\ MaxKey \in Nat /\ MaxMoves \in Nat
  BY QueueFacts, QueueAssumption
<1>1. PICK k \in 0 .. MaxKey : key' = [key EXCEPT ![c] = k]
  <2>1. PICK place \in {0} \cup ((1 .. MaxKey) \ {key[d] : d \in Listed}) :
          key' = [key EXCEPT ![c] = place]
    BY DEF Move
  <2>2. place \in 0 .. MaxKey
    BY <1>0
  <2> QED
    BY <2>1, <2>2
<1>2. /\ still' = still \ {c} /\ fetching' = row /\ pages' = pages /\ moves' = moves + 1 /\ moves < MaxMoves
  BY <1>0 DEF Move, FetchRows
<1>3. row \in FetchRows /\ row.pages = fetching.pages /\ row.still = fetching.still \ {c}
  BY <1>0 DEF FetchRows
<1> HIDE DEF row
<1>4. \A d \in Listed : d # c => key'[d] = key[d]
  BY <1>0, <1>1
<1>5. ASSUME NEW shown, NEW S \in SUBSET Listed, ReachedOnce(key, shown, S)
      PROVE  ReachedOnce(key', shown, S \ {c})
  BY <1>4, <1>5 DEF ReachedOnce
<1>6. ReachedOnce(key, pages, still) /\ ReachedOnce(key, fetching.pages, fetching.still)
      /\ (fetching.pages # << >> => NextCursor(fetching.pages) # 0)
  BY DEF QueueInv
<1>7. ReachedOnce(key', pages, still \ {c}) /\ ReachedOnce(key', fetching.pages, fetching.still \ {c})
  BY <1>0, <1>5, <1>6
<1>8. key' \in [Listed -> 0 .. MaxKey] /\ moves' \in 0 .. MaxMoves
  BY <1>0, <1>1, <1>2
<1>9. QueueTypeOK'
  BY <1>0, <1>2, <1>3, <1>8 DEF QueueTypeOK, FetchRows
<1>10. ReachedOnce(key', pages', still') /\ ReachedOnce(key', fetching'.pages, fetching'.still)
  BY <1>2, <1>3, <1>7
<1>11. fetching'.pages # << >> => NextCursor(fetching'.pages) # 0
  BY <1>2, <1>3, <1>6
<1> QED
  BY <1>9, <1>10, <1>11 DEF QueueInv, ReachedOnce, NextCursor

LEMMA ReadPageKeeps ==
  ASSUME QueueInv, ReadPage
  PROVE  QueueInv'
<1> DEFINE read == Append(fetching.pages, PageAfter(NextCursor(fetching.pages)))
           row == [fetching EXCEPT !.pages = read]
<1>0. /\ key \in [Listed -> 0 .. MaxKey] /\ fetching \in FetchRows /\ fetching.pages \in Seq(PageSet)
      /\ fetching.still \in SUBSET Listed /\ moves \in 0 .. MaxMoves
  BY QueueFacts
<1>1. read \in Seq(PageSet) /\ ReachedOnce(key, read, fetching.still)
  BY <1>0, OnePageMore DEF QueueInv
<1>2. \/ pages' = read /\ still' = fetching.still /\ fetching' = Idling /\ UNCHANGED <<key, moves>>
      \/ fetching' = row /\ NextCursor(read) # 0 /\ UNCHANGED <<key, moves, pages, still>>
  BY DEF ReadPage
<1> HIDE DEF read
<1>3. CASE pages' = read /\ still' = fetching.still /\ fetching' = Idling /\ UNCHANGED <<key, moves>>
  <2>1. Idling \in FetchRows /\ Idling.pages = << >>
    BY EmptySeq DEF Idling, FetchRows
  <2>2. QueueTypeOK'
    BY <1>0, <1>1, <1>3, <2>1 DEF QueueTypeOK, FetchRows
  <2>3. ReachedOnce(key', pages', still') /\ ReachedOnce(key', fetching'.pages, fetching'.still)
    BY <1>1, <1>3, <2>1 DEF ReachedOnce
  <2>4. fetching'.pages = << >>
    BY <1>3, <2>1
  <2> QED
    BY <2>2, <2>3, <2>4 DEF QueueInv, ReachedOnce, NextCursor
<1>4. CASE fetching' = row /\ NextCursor(read) # 0 /\ UNCHANGED <<key, moves, pages, still>>
  <2>1. row \in FetchRows /\ row.pages = read /\ row.still = fetching.still
    BY <1>0, <1>1 DEF FetchRows
  <2> HIDE DEF row
  <2> QED
    BY <1>1, <1>4, <2>1, FetchBegins
<1> QED
  BY <1>2, <1>3, <1>4

LEMMA OtherFetches ==
  ASSUME QueueInv, RefetchPages \/ LoadMore \/ FailPage
  PROVE  QueueInv'
<1>0. pages \in Seq(PageSet) /\ still \subseteq Listed /\ << >> \in Seq(PageSet) /\ Len(pages) \in Nat
  BY QueueFacts, EmptySeq
<1>1. \A S : ReachedOnce(key, << >>, S)
  BY DEF ReachedOnce
<1>2. UNCHANGED <<key, moves, pages, still>>
  BY DEF RefetchPages, LoadMore, FailPage
<1>3. CASE RefetchPages
  <2> DEFINE row == [pages |-> << >>, want |-> IF pages = << >> THEN 1 ELSE Len(pages), still |-> Listed]
  <2>1. row \in FetchRows
    BY <1>0 DEF FetchRows
  <2>2. fetching' = row /\ row.pages = << >>
    BY <1>3 DEF RefetchPages
  <2> HIDE DEF row
  <2> QED
    BY <1>1, <1>2, <2>1, <2>2, FetchBegins
<1>4. CASE LoadMore
  <2> DEFINE row == [pages |-> pages, want |-> Len(pages) + 1, still |-> still]
  <2>1. row \in FetchRows
    BY <1>0 DEF FetchRows
  <2>2. fetching' = row /\ row.pages = pages /\ row.still = still /\ NextCursor(pages) # 0
    BY <1>4 DEF LoadMore
  <2> HIDE DEF row
  <2>3. ReachedOnce(key, pages, still)
    BY DEF QueueInv
  <2> QED
    BY <1>2, <2>1, <2>2, <2>3, FetchBegins
<1>5. CASE FailPage
  <2>1. Idling \in FetchRows /\ Idling.pages = << >>
    BY <1>0 DEF Idling, FetchRows
  <2>2. fetching' = Idling
    BY <1>5 DEF FailPage
  <2> QED
    BY <1>1, <1>2, <2>1, <2>2, FetchBegins
<1> QED
  BY <1>3, <1>4, <1>5

LEMMA QueueInvHolds == QueueSpec => []QueueInv
<1>1. QueueInv /\ [QueueNext]_queue => QueueInv'
  <2> SUFFICES ASSUME QueueInv, [QueueNext]_queue PROVE QueueInv'
    OBVIOUS
  <2>1. CASE UNCHANGED queue
    BY <2>1 DEF queue, QueueInv, QueueTypeOK, ReachedOnce, NextCursor
  <2> QED
    BY <2>1, MoveKeeps, ReadPageKeeps, OtherFetches DEF QueueNext
<1> QED
  BY <1>1, QueueStart, PTL DEF QueueSpec

(* THEOREM StillMeansSeen.                                                  *)
(* However the other conversations move between two pages, and however the  *)
(* list is read again, extended or fails to be, a conversation that did not *)
(* move is on one page if the pages reach it (GET /conversations and the    *)
(* list's query), for any number of conversations and any length of a page. *)
THEOREM StillMeansSeen == QueueSpec => []StillRowsAreSeenOnce
<1>1. QueueInv => StillRowsAreSeenOnce
  <2> SUFFICES ASSUME QueueInv, NEW c \in still, key[c] # 0, pages # << >>,
                      NextCursor(pages) = 0 \/ key[c] <= NextCursor(pages)
               PROVE  Cardinality({i \in DOMAIN pages : c \in pages[i].rows}) = 1
    BY DEF StillRowsAreSeenOnce
  <2>1. PICK i \in DOMAIN pages : c \in pages[i].rows /\ \A j \in DOMAIN pages : c \in pages[j].rows => j = i
    BY DEF QueueInv, ReachedOnce
  <2>2. {j \in DOMAIN pages : c \in pages[j].rows} = {i}
    BY <2>1
  <2> QED
    BY <2>2, FS_Singleton
<1> QED
  BY <1>1, QueueInvHolds, PTL

-----------------------------------------------------------------------------
(* Reading one conversation.                                                *)

LiveFirst(n) == n - Smallest(n, MessagePage) + 1
Ascending(s) == \A i, j \in DOMAIN s : i < j => s[i] < s[j]

PaneRows == [open : BOOLEAN, query : {"idle", "asked", "answered"}, answer : 0 .. written,
             window : 0 .. written, older : Seq(1 .. written),
             olderMore : {"unknown", "yes", "no"}, up : 0 .. written]

(* What was loaded above ascends and is all from before the newest page,    *)
(* and so is what is asked for; the page on its way is no older than the    *)
(* one that is shown.                                                       *)
LoadedInOrder ==
  /\ Ascending(pane.older)
  /\ \A i \in DOMAIN pane.older : pane.older[i] < LiveFirst(pane.window)
  /\ pane.older # << >> \/ pane.up # 0 => pane.window # 0
  /\ pane.up # 0 => IF pane.older # << >> THEN pane.up = pane.older[1]
                    ELSE pane.up <= LiveFirst(pane.window)
  /\ pane.query = "answered" => pane.window <= pane.answer

(* A message is counted while there is room for it.                         *)
ThreadInv == ThreadTypeOK /\ LoadedInOrder /\ (coming = "counted" => written < MaxWritten)

LEMMA LiveFacts ==
  ASSUME NEW n \in Nat
  PROVE  /\ DOMAIN Newest(n) = 1 .. Smallest(n, MessagePage) /\ Smallest(n, MessagePage) \in 0 .. n
         /\ \A i \in DOMAIN Newest(n) : Newest(n)[i] = n - Smallest(n, MessagePage) + i
         /\ \A i \in DOMAIN Newest(n) : Newest(n)[i] \in 1 .. n /\ Newest(n)[i] >= LiveFirst(n)
         /\ LiveFirst(n) \in Nat
         /\ n # 0 => Newest(n)[1] = LiveFirst(n) /\ LiveFirst(n) \in 1 .. n
         /\ Newest(n) \in Seq(1 .. n) /\ Ascending(Newest(n)) /\ Len(Newest(n)) = Smallest(n, MessagePage)
<1>1. MessagePage \in Nat /\ MessagePage # 0
  BY ThreadAssumption
<1>2. Smallest(n, MessagePage) \in 0 .. n /\ (n # 0 => Smallest(n, MessagePage) # 0)
  BY <1>1 DEF Smallest
<1>3. DOMAIN Newest(n) = 1 .. Smallest(n, MessagePage)
  BY DEF Newest
<1>4. \A i \in 1 .. Smallest(n, MessagePage) : Newest(n)[i] = n - Smallest(n, MessagePage) + i
  BY DEF Newest
<1>5. \A i \in 1 .. Smallest(n, MessagePage) : n - Smallest(n, MessagePage) + i \in 1 .. n
  BY <1>2
<1>6. Newest(n) \in Seq(1 .. n) /\ Len(Newest(n)) = Smallest(n, MessagePage)
  BY <1>2, <1>5, IsASeq DEF Newest
<1> QED
  BY <1>2, <1>3, <1>4, <1>5, <1>6 DEF LiveFirst, Ascending

LEMMA LiveRises ==
  ASSUME NEW m \in Nat, NEW n \in Nat, m <= n
  PROVE  LiveFirst(m) <= LiveFirst(n)
BY ThreadAssumption DEF LiveFirst, Smallest

LEMMA OneMoreWritten ==
  ASSUME NEW n \in Nat, NEW m \in Nat, n <= m
  PROVE  Seq(1 .. n) \subseteq Seq(1 .. m)
<1>1. 1 .. n \subseteq 1 .. m
  OBVIOUS
<1> QED
  BY <1>1, SeqMonotonic

LEMMA ThreadStart == ThreadInit => ThreadInv
<1> SUFFICES ASSUME ThreadInit PROVE ThreadInv
  OBVIOUS
<1>1. written \in 1 .. MaxWritten /\ written \in Nat /\ << >> \in Seq(1 .. written) /\ DOMAIN << >> = {}
  BY ThreadAssumption, EmptySeq DEF ThreadInit
<1>2. ClosedPane \in PaneRows
  BY <1>1 DEF ClosedPane, PaneRows
<1>3. ThreadTypeOK
  <2>1. pane \in PaneRows /\ unread \in Nat /\ coming \in {"no", "counted", "stored"}
    BY <1>1, <1>2 DEF ThreadInit
  <2>2. served = 0 /\ reading = FALSE
    BY DEF ThreadInit
  <2>4. served \in 0 .. written
    <3>1. 0 \in 0 .. written
      BY <1>1
    <3> QED
      BY <2>2, <3>1
  <2>3. failures \in 0 .. MaxFailures
    BY ThreadAssumption DEF ThreadInit
  <2> QED
    BY <1>1, <2>1, <2>2, <2>3, <2>4 DEF ThreadTypeOK, PaneRows
<1>4. LoadedInOrder
  BY <1>1 DEF ThreadInit, ClosedPane, LoadedInOrder, Ascending
<1> QED
  BY <1>3, <1>4 DEF ThreadInv, ThreadInit

LEMMA ThreadFacts ==
  ASSUME ThreadInv
  PROVE  /\ pane \in PaneRows /\ written \in Nat /\ written \in 1 .. MaxWritten /\ unread \in Nat
         /\ pane.window \in Nat /\ pane.answer \in Nat /\ pane.up \in Nat /\ pane.older \in Seq(1 .. written)
         /\ DOMAIN pane.older = 1 .. Len(pane.older) /\ Len(pane.older) \in Nat
         /\ \A i \in DOMAIN pane.older : pane.older[i] \in 1 .. written
         /\ pane.older # << >> => 1 \in DOMAIN pane.older
<1>1. pane \in PaneRows /\ written \in 1 .. MaxWritten
  BY DEF ThreadInv, ThreadTypeOK, PaneRows
<1>2. pane.older \in Seq(1 .. written) /\ pane.window \in 0 .. written /\ pane.answer \in 0 .. written
      /\ pane.up \in 0 .. written
  BY <1>1 DEF PaneRows
<1>3. \A i \in DOMAIN pane.older : pane.older[i] \in 1 .. written
  <2> SUFFICES ASSUME NEW i \in DOMAIN pane.older PROVE pane.older[i] \in 1 .. written
    OBVIOUS
  <2>1. i \in 1 .. Len(pane.older)
    BY <1>2
  <2> QED
    BY <1>2, <2>1, ElementOfSeq
<1>4. pane.older # << >> => 1 \in DOMAIN pane.older
  BY <1>2, EmptySeq
<1> QED
  BY <1>1, <1>2, <1>3, <1>4, ThreadAssumption DEF ThreadInv, ThreadTypeOK

(* What the pane holds is still of the conversation when it is longer.      *)
LEMMA LongerConversation ==
  ASSUME NEW n \in Nat, NEW m \in Nat, n <= m,
         NEW p \in [open : BOOLEAN, query : {"idle", "asked", "answered"}, answer : 0 .. n,
                    window : 0 .. n, older : Seq(1 .. n), olderMore : {"unknown", "yes", "no"}, up : 0 .. n]
  PROVE  p \in [open : BOOLEAN, query : {"idle", "asked", "answered"}, answer : 0 .. m,
                window : 0 .. m, older : Seq(1 .. m), olderMore : {"unknown", "yes", "no"}, up : 0 .. m]
<1>1. p.older \in Seq(1 .. m)
  BY OneMoreWritten
<1>2. p.answer \in 0 .. m /\ p.window \in 0 .. m /\ p.up \in 0 .. m
  OBVIOUS
<1> HIDE DEF LiveFirst
<1> QED
  BY <1>1, <1>2

LEMMA ConversationSteps ==
  ASSUME ThreadInv, MessageComes \/ MessageIsStored \/ AnswerIsStored \/ MarkRead
  PROVE  ThreadInv'
<1>1. pane' = pane /\ failures' = failures /\ served' = served /\ written' \in {written, written + 1}
  BY DEF MessageComes, MessageIsStored, AnswerIsStored, MarkRead
<1>2. written \in 1 .. MaxWritten /\ written \in Nat /\ served \in 0 .. written /\ unread \in Nat
      /\ pane \in PaneRows /\ MaxWritten \in Nat /\ failures \in 0 .. MaxFailures /\ reading \in BOOLEAN
  BY ThreadFacts, ThreadAssumption DEF ThreadInv, ThreadTypeOK
<1>3. written' \in 1 .. MaxWritten
  BY <1>2 DEF ThreadInv, MessageComes, MessageIsStored, AnswerIsStored, MarkRead
<1>4. written' \in Nat /\ written <= written'
  BY <1>1, <1>2
<1>5. pane' \in PaneRows'
  BY <1>1, <1>2, <1>4, LongerConversation DEF PaneRows
<1>6. unread' \in Nat /\ coming' \in {"no", "counted", "stored"} /\ reading' \in BOOLEAN
  BY <1>2 DEF ThreadInv, ThreadTypeOK, MessageComes, MessageIsStored, AnswerIsStored, MarkRead
<1>7. ThreadTypeOK'
  BY <1>1, <1>2, <1>3, <1>4, <1>5, <1>6 DEF ThreadTypeOK, PaneRows
<1>8. coming' = "counted" => written' < MaxWritten
  BY DEF ThreadInv, MessageComes, MessageIsStored, AnswerIsStored, MarkRead
<1> QED
  BY <1>1, <1>7, <1>8 DEF ThreadInv, LoadedInOrder

(* What a pane is changed to, in a conversation that stays as it is.        *)
LEMMA PaneMoves ==
  ASSUME ThreadInv, pane' \in PaneRows, LoadedInOrder', written' = written, unread' = unread,
         coming' \in {coming, "no"}, served' \in {served, written}, reading' \in {reading, TRUE},
         failures' \in 0 .. MaxFailures
  PROVE  ThreadInv'
<1>1. served' \in 0 .. written'
  BY ThreadFacts DEF ThreadInv, ThreadTypeOK
<1>2. coming' \in {"no", "counted", "stored"} /\ (coming' = "counted" => written' < MaxWritten)
  BY DEF ThreadInv, ThreadTypeOK
<1>3. reading' \in BOOLEAN
  BY DEF ThreadInv, ThreadTypeOK
<1> QED
  BY <1>1, <1>2, <1>3 DEF ThreadInv, ThreadTypeOK, PaneRows

LEMMA PaneSteps ==
  ASSUME ThreadInv,
         \/ MessageIsTold \/ OpenPane \/ ClosePane \/ ReadNewest \/ ShowNewest \/ LoadOlder \/ OlderFails
  PROVE  ThreadInv'
<1>0. /\ pane \in PaneRows /\ written \in Nat /\ failures \in 0 .. MaxFailures /\ LoadedInOrder
      /\ pane.window \in 0 .. written /\ pane.answer \in 0 .. written /\ written \in 1 .. MaxWritten
      /\ 0 \in 0 .. written /\ written \in 0 .. written
  BY ThreadFacts DEF ThreadInv, ThreadTypeOK, PaneRows
<1>1. ASSUME NEW q \in {"idle", "asked"}, pane' \in {pane, [pane EXCEPT !.query = q]},
             UNCHANGED <<written, unread, served, reading>>, coming' \in {coming, "no"},
             failures' \in 0 .. MaxFailures
      PROVE  ThreadInv'
  <2>1. pane' \in PaneRows
    BY <1>0, <1>1 DEF PaneRows
  <2>2. LoadedInOrder'
    BY <1>0, <1>1 DEF LoadedInOrder, PaneRows
  <2> QED
    BY <1>1, <2>1, <2>2, PaneMoves
<1>2. CASE MessageIsTold
  BY <1>0, <1>1, <1>2 DEF MessageIsTold
<1>3. CASE OpenPane \/ ClosePane
  <2>1. << >> \in Seq(1 .. written) /\ DOMAIN << >> = {}
    BY EmptySeq
  <2>2. pane' = ClosedPane \/ pane' = [ClosedPane EXCEPT !.open = TRUE, !.query = "asked"]
    BY <1>3 DEF OpenPane, ClosePane
  <2>3. pane' \in PaneRows
    <3>1. ClosedPane \in PaneRows
      BY <1>0, <2>1 DEF ClosedPane, PaneRows
    <3> QED
      BY <2>2, <3>1 DEF PaneRows
  <2>4. pane'.older = << >> /\ pane'.up = 0 /\ pane'.query \in {"idle", "asked"}
    <3>1. /\ ClosedPane.older = << >> /\ ClosedPane.up = 0 /\ ClosedPane.query = "idle"
      BY DEF ClosedPane
    <3>2. CASE pane' = ClosedPane
      BY <3>1, <3>2
    <3>3. CASE pane' = [ClosedPane EXCEPT !.open = TRUE, !.query = "asked"]
      <4>1. ClosedPane \in PaneRows
        BY <1>0, <2>1 DEF ClosedPane, PaneRows
      <4>2. pane'.older = ClosedPane.older /\ pane'.up = ClosedPane.up /\ pane'.query = "asked"
        BY <3>3, <4>1 DEF PaneRows
      <4> QED
        BY <3>1, <4>2
    <3> QED
      BY <2>2, <3>2, <3>3
  <2>5. LoadedInOrder'
    BY <2>1, <2>4 DEF LoadedInOrder, Ascending
  <2> QED
    BY <1>0, <1>3, <2>3, <2>5, PaneMoves DEF OpenPane, ClosePane
<1>4. CASE ReadNewest
  <2>1. pane' = [pane EXCEPT !.query = "answered", !.answer = written]
    BY <1>4 DEF ReadNewest
  <2>2. pane' \in PaneRows
    BY <1>0, <2>1 DEF PaneRows
  <2>3. LoadedInOrder'
    BY <1>0, <2>1 DEF LoadedInOrder, PaneRows
  <2> QED
    BY <1>0, <1>4, <2>2, <2>3, PaneMoves DEF ReadNewest
<1>5. CASE ShowNewest
  <2>1. pane' = [pane EXCEPT !.query = "idle", !.answer = 0, !.window = pane.answer]
        /\ pane.query = "answered"
    BY <1>5 DEF ShowNewest
  <2>2. pane' \in PaneRows
    BY <1>0, <2>1 DEF PaneRows
  <2>3. pane.window <= pane.answer /\ pane.window \in Nat /\ pane.answer \in Nat
    BY <1>0, <2>1, ThreadFacts DEF LoadedInOrder
  <2>4. /\ LiveFirst(pane.window) <= LiveFirst(pane.answer)
        /\ LiveFirst(pane.window) \in Nat /\ LiveFirst(pane.answer) \in Nat
    BY <2>3, LiveRises, LiveFacts
  <2>5. /\ pane'.older = pane.older /\ pane'.up = pane.up /\ pane'.window = pane.answer
        /\ pane'.query = "idle"
    BY <1>0, <2>1 DEF PaneRows
  <2>6. \A i \in DOMAIN pane.older : pane.older[i] \in Nat
    BY ThreadFacts
  <2>7. \A i \in DOMAIN pane.older : pane.older[i] < LiveFirst(pane.answer)
    BY <1>0, <2>4, <2>6 DEF LoadedInOrder
  <2>8. pane.up # 0 /\ pane.older = << >> => pane.up <= LiveFirst(pane.answer)
    BY <1>0, <2>4, ThreadFacts DEF LoadedInOrder
  <2>9. pane.older # << >> \/ pane.up # 0 => pane.answer # 0
    BY <1>0, <2>3 DEF LoadedInOrder
  <2>10. LoadedInOrder'
    BY <1>0, <2>5, <2>7, <2>8, <2>9 DEF LoadedInOrder
  <2> QED
    BY <1>0, <1>5, <2>2, <2>10, PaneMoves DEF ShowNewest
<1>6. CASE LoadOlder
  <2>1. pane' = [pane EXCEPT !.up = Oldest] /\ pane.window # 0
    BY <1>6 DEF LoadOlder, CanLoadOlder
  <2>2. Live[1] = LiveFirst(pane.window) /\ Live[1] \in 1 .. pane.window
    BY <1>0, <2>1, LiveFacts, ThreadFacts DEF Live
  <2>3. pane.older # << >> => Oldest = pane.older[1] /\ Oldest \in 1 .. written
    BY ThreadFacts DEF Oldest
  <2>4. pane.older = << >> => Oldest = LiveFirst(pane.window) /\ Oldest \in 1 .. written
    BY <1>0, <2>2 DEF Oldest
  <2>5. pane' \in PaneRows
    BY <1>0, <2>1, <2>3, <2>4 DEF PaneRows
  <2>6. /\ pane'.older = pane.older /\ pane'.up = Oldest /\ pane'.window = pane.window
        /\ pane'.query = pane.query /\ pane'.answer = pane.answer
    BY <1>0, <2>1 DEF PaneRows
  <2>7. LiveFirst(pane.window) \in Nat
    BY LiveFacts, ThreadFacts
  <2>8. LoadedInOrder'
    BY <1>0, <2>1, <2>3, <2>4, <2>6, <2>7 DEF LoadedInOrder
  <2> QED
    BY <1>0, <1>6, <2>5, <2>8, PaneMoves DEF LoadOlder
<1>7. CASE OlderFails
  <2>1. pane' = [pane EXCEPT !.up = 0] /\ failures' \in 0 .. MaxFailures
    BY <1>0, <1>7, ThreadAssumption DEF OlderFails
  <2>2. pane' \in PaneRows /\ LoadedInOrder'
    BY <1>0, <2>1 DEF PaneRows, LoadedInOrder
  <2> QED
    BY <1>7, <2>1, <2>2, PaneMoves DEF OlderFails
<1> QED
  BY <1>2, <1>3, <1>4, <1>5, <1>6, <1>7

(* The page above ends where what was loaded before it begins.              *)
LEMMA OlderArrivesInOrder ==
  ASSUME ThreadInv, OlderArrives
  PROVE  ThreadInv'
<1> DEFINE n == pane.up - 1
           page == Newest(n)
           older == page \o pane.older
           more == IF More(n) THEN "yes" ELSE "no"
<1>1. /\ pane \in PaneRows /\ written \in Nat /\ 0 \in 0 .. written /\ LoadedInOrder /\ pane.up # 0 /\ pane.up \in 0 .. written
      /\ pane.older \in Seq(1 .. written) /\ failures \in 0 .. MaxFailures /\ pane.window # 0
  BY ThreadFacts DEF OlderArrives, PaneRows, ThreadInv, ThreadTypeOK, LoadedInOrder
<1>2. n \in Nat /\ n <= written
  BY <1>1
<1>5. pane' = [pane EXCEPT !.up = 0, !.older = older, !.olderMore = more]
  BY DEF OlderArrives
<1> HIDE DEF n
<1>3. /\ page \in Seq(1 .. n) /\ Ascending(page) /\ DOMAIN page = 1 .. Len(page) /\ Len(page) \in Nat
      /\ \A i \in DOMAIN page : page[i] \in 1 .. n
  BY <1>2, LiveFacts
<1>4. page \in Seq(1 .. written)
  BY <1>1, <1>2, <1>3, OneMoreWritten
<1> HIDE DEF page
<1>6. /\ older \in Seq(1 .. written) /\ Len(older) = Len(page) + Len(pane.older)
      /\ \A i \in 1 .. Len(older) : older[i] = IF i <= Len(page) THEN page[i] ELSE pane.older[i - Len(page)]
  BY <1>1, <1>4, ConcatProperties
<1>7. DOMAIN older = 1 .. (Len(page) + Len(pane.older)) /\ DOMAIN pane.older = 1 .. Len(pane.older)
      /\ Len(pane.older) \in Nat
  BY <1>1, <1>6
<1>8. LiveFirst(pane.window) \in Nat
  BY LiveFacts, ThreadFacts
<1>9. \A i \in DOMAIN pane.older : pane.older[i] \in Nat /\ pane.up <= pane.older[i]
  <2> SUFFICES ASSUME NEW i \in DOMAIN pane.older PROVE pane.older[i] \in Nat /\ pane.up <= pane.older[i]
    OBVIOUS
  <2>1. pane.older[i] \in Nat /\ 1 \in DOMAIN pane.older /\ pane.older[1] \in Nat /\ pane.older # << >>
    BY <1>7, ThreadFacts, EmptySeq
  <2>2. pane.up = pane.older[1]
    BY <1>1, <2>1 DEF LoadedInOrder
  <2>3. i = 1 \/ pane.older[1] < pane.older[i]
    <3>1. i \in Nat /\ i >= 1
      BY <1>7
    <3>2. i # 1 => 1 < i
      BY <3>1
    <3> QED
      BY <1>1, <2>1, <3>2 DEF LoadedInOrder, Ascending
  <2> QED
    BY <2>1, <2>2, <2>3
<1>10. pane.up <= LiveFirst(pane.window)
  <2>1. CASE pane.older = << >>
    BY <1>1, <2>1 DEF LoadedInOrder
  <2>2. CASE pane.older # << >>
    <3>1. 1 \in DOMAIN pane.older /\ pane.up = pane.older[1] /\ pane.older[1] \in Nat
      BY <1>1, <1>9, <2>2, ThreadFacts DEF LoadedInOrder
    <3>2. pane.older[1] < LiveFirst(pane.window)
      BY <1>1, <3>1 DEF LoadedInOrder
    <3> QED
      BY <1>8, <3>1, <3>2
  <2> QED
    BY <2>1, <2>2
<1>11. \A i \in DOMAIN page : page[i] \in Nat /\ page[i] < pane.up
  BY <1>1, <1>2, <1>3 DEF n
<1> HIDE DEF older, more
<1>12. Ascending(older)
  <2> SUFFICES ASSUME NEW i \in DOMAIN older, NEW j \in DOMAIN older, i < j PROVE older[i] < older[j]
    BY DEF Ascending
  <2>1. CASE j <= Len(page)
    <3>1. i \in DOMAIN page /\ j \in DOMAIN page /\ older[i] = page[i] /\ older[j] = page[j]
      BY <1>3, <1>6, <1>7, <2>1
    <3> QED
      BY <1>3, <3>1 DEF Ascending
  <2>2. CASE i <= Len(page) /\ j > Len(page)
    <3>1. /\ i \in DOMAIN page /\ older[i] = page[i]
          /\ j - Len(page) \in DOMAIN pane.older /\ older[j] = pane.older[j - Len(page)]
      BY <1>3, <1>6, <1>7, <2>2
    <3>2. page[i] < pane.up /\ page[i] \in Nat /\ pane.up <= pane.older[j - Len(page)]
          /\ pane.older[j - Len(page)] \in Nat /\ pane.up \in Nat
      BY <1>1, <1>9, <1>11, <3>1
    <3> QED
      BY <3>1, <3>2
  <2>3. CASE i > Len(page)
    <3>1. /\ i - Len(page) \in DOMAIN pane.older /\ older[i] = pane.older[i - Len(page)]
          /\ j - Len(page) \in DOMAIN pane.older /\ older[j] = pane.older[j - Len(page)]
          /\ i - Len(page) < j - Len(page)
      BY <1>3, <1>6, <1>7, <2>3
    <3> QED
      BY <1>1, <3>1 DEF LoadedInOrder, Ascending
  <2> QED
    BY <1>3, <1>7, <2>1, <2>2, <2>3
<1>13. \A i \in DOMAIN older : older[i] < LiveFirst(pane.window)
  <2> SUFFICES ASSUME NEW i \in DOMAIN older PROVE older[i] < LiveFirst(pane.window)
    OBVIOUS
  <2>1. CASE i <= Len(page)
    <3>1. i \in DOMAIN page /\ older[i] = page[i]
      BY <1>3, <1>6, <1>7, <2>1
    <3>2. page[i] < pane.up /\ page[i] \in Nat /\ pane.up \in Nat
      BY <1>1, <1>11, <3>1
    <3> QED
      BY <1>8, <1>10, <3>1, <3>2
  <2>2. CASE i > Len(page)
    <3>1. i - Len(page) \in DOMAIN pane.older /\ older[i] = pane.older[i - Len(page)]
      BY <1>3, <1>6, <1>7, <2>2
    <3> QED
      BY <1>1, <3>1 DEF LoadedInOrder
  <2> QED
    BY <1>3, <1>7, <2>1, <2>2
<1>14. more \in {"unknown", "yes", "no"}
  BY DEF more
<1>15. pane' \in PaneRows
  BY <1>1, <1>5, <1>6, <1>14 DEF PaneRows
<1>16. /\ pane'.older = older /\ pane'.up = 0 /\ pane'.window = pane.window
       /\ pane'.query = pane.query /\ pane'.answer = pane.answer
  BY <1>1, <1>5 DEF PaneRows
<1>17. LoadedInOrder'
  BY <1>1, <1>12, <1>13, <1>16 DEF LoadedInOrder
<1> QED
  BY <1>1, <1>15, <1>17, PaneMoves DEF OlderArrives

LEMMA ThreadInvHolds == ThreadSpec => []ThreadInv
<1>1. ThreadInv /\ [ThreadNext]_thread => ThreadInv'
  <2>1. ThreadInv /\ UNCHANGED thread => ThreadInv'
    BY DEF thread, ThreadInv, ThreadTypeOK, LoadedInOrder
  <2> QED
    BY <2>1, ConversationSteps, PaneSteps, OlderArrivesInOrder DEF ThreadNext
<1> QED
  BY <1>1, ThreadStart, PTL DEF ThreadSpec

(* THEOREM NoMessageTwice.                                                  *)
(* However somebody scrolls up while messages arrive, are told of and are   *)
(* read again, and whatever pages fail, what is loaded above is drawn in    *)
(* order and before every message of the newest page (ConversationPane,     *)
(* loadOlder), for any length of a page and of the conversation.            *)
THEOREM NoMessageTwice == ThreadSpec => []ThreadIsInOrder
<1>1. ThreadInv => ThreadIsInOrder
  <2> SUFFICES ASSUME ThreadInv, NEW i \in Above
               PROVE  /\ \A j \in Above : i < j => pane.older[i] < pane.older[j]
                      /\ \A k \in DOMAIN Live : pane.older[i] < Live[k]
    BY DEF ThreadIsInOrder
  <2>1. Above \subseteq DOMAIN pane.older /\ LoadedInOrder
    BY DEF Above, ThreadInv
  <2>2. \A j \in Above : i < j => pane.older[i] < pane.older[j]
    BY <2>1 DEF LoadedInOrder, Ascending
  <2>3. pane.older[i] < LiveFirst(pane.window) /\ pane.older[i] \in Nat
    BY <2>1, ThreadFacts DEF LoadedInOrder
  <2>4. pane.window \in Nat
    BY ThreadFacts
  <2>5. LiveFirst(pane.window) \in Nat
    BY <2>4, LiveFacts
  <2>6. \A k \in DOMAIN Live : Live[k] >= LiveFirst(pane.window) /\ Live[k] \in Nat
    BY <2>4, LiveFacts DEF Live
  <2> QED
    BY <2>2, <2>3, <2>5, <2>6
<1> QED
  BY <1>1, ThreadInvHolds, PTL

-----------------------------------------------------------------------------
(* The live feed of the console.                                            *)

SocketRows == [tab : Tabs, browser : {"none", "dialing", "open", "closed"},
               server : {"none", "arrived", "allowed", "joining", "placed", "closing", "gone"},
               room : Nat, known : BOOLEAN, check : BOOLEAN, news : BOOLEAN, refused : BOOLEAN,
               hangup : {"no", "due", "done"}]
TabRows == [feed : {"connecting", "open", "reconnecting", "stopped"}, opened : BOOLEAN,
            socket : SocketIds \cup {0}, query : {"idle", "asked", "answered"}, answer : Nat,
            shown : Nat]

InRoom(x) == x.server \in {"placed", "closing"}

(* A room is installed while somebody is in it, and in no other; none is    *)
(* opened beside it.  Nothing is asked of a socket never dialled.           *)
RoomsInv ==
  /\ \A s \in SocketIds :
       /\ sockets[s].room = (IF InRoom(sockets[s]) THEN installed ELSE 0)
       /\ InRoom(sockets[s]) => installed # 0
       /\ sockets[s].browser = "none" =>
            sockets[s].server = "none" /\ sockets[s].hangup = "no" /\ ~sockets[s].check
  /\ subscribed = (IF installed = 0 THEN {} ELSE {installed})
  /\ installed # 0 => \E s \in SocketIds : InRoom(sockets[s])
  /\ opening # 0 => installed = 0

SocketsInv == SocketsTypeOK /\ RoomsInv

LEMMA SocketsFacts ==
  ASSUME SocketsInv
  PROVE  /\ sockets \in [SocketIds -> SocketRows] /\ tabs \in [Tabs -> TabRows]
         /\ installed \in Nat /\ opening \in Nat /\ made \in Nat /\ subscribed \subseteq Nat
         /\ committed \in Nat
BY SocketsAssumption DEF SocketsInv, SocketsTypeOK, SocketRows, TabRows

(* A step of one socket that stays in its room, or out of it.               *)
LEMMA SocketKept ==
  ASSUME SocketsInv, NEW s \in SocketIds, NEW row \in SocketRows,
         sockets' = [sockets EXCEPT ![s] = row], UNCHANGED room,
         row.room = sockets[s].room, InRoom(row) <=> InRoom(sockets[s]), row.browser # "none"
  PROVE  sockets' \in [SocketIds -> SocketRows] /\ RoomsInv'
<1>1. \A r \in SocketIds : sockets'[r] = IF r = s THEN row ELSE sockets[r]
  BY SocketsFacts
<1>2. \A r \in SocketIds : /\ sockets'[r].room = sockets[r].room
                           /\ InRoom(sockets'[r]) <=> InRoom(sockets[r])
                           /\ sockets'[r].browser = "none" => sockets'[r] = sockets[r]
  BY <1>1 DEF SocketsInv, RoomsInv
<1>3. \A r \in SocketIds : sockets'[r].browser = "none" =>
        sockets'[r].server = "none" /\ sockets'[r].hangup = "no" /\ ~sockets'[r].check
  BY <1>2 DEF SocketsInv, RoomsInv
<1>4. sockets' \in [SocketIds -> SocketRows]
  BY SocketsFacts
<1>5. installed' = installed /\ opening' = opening /\ subscribed' = subscribed
  BY DEF room
<1>6. \A r \in SocketIds : /\ sockets'[r].room = (IF InRoom(sockets'[r]) THEN installed ELSE 0)
                           /\ InRoom(sockets'[r]) => installed # 0
  BY <1>2 DEF SocketsInv, RoomsInv
<1>7. installed # 0 => \E r \in SocketIds : InRoom(sockets'[r])
  BY <1>2 DEF SocketsInv, RoomsInv
<1>8. subscribed = (IF installed = 0 THEN {} ELSE {installed}) /\ (opening # 0 => installed = 0)
  BY DEF SocketsInv, RoomsInv
<1>9. \A r \in SocketIds : InRoom(sockets'[r]) <=> InRoom(sockets[r])'
  BY DEF InRoom
<1> QED
  BY <1>3, <1>4, <1>5, <1>6, <1>7, <1>8, <1>9 DEF RoomsInv, InRoom

(* What is published, or asked, of those that hear it.                      *)
LEMMA SocketsKept ==
  ASSUME SocketsInv, NEW g \in [SocketIds -> SocketRows], sockets' = g, UNCHANGED room,
         \A s \in SocketIds : /\ g[s].room = sockets[s].room /\ g[s].server = sockets[s].server
                              /\ g[s].browser = sockets[s].browser
                              /\ g[s].browser = "none" => g[s] = sockets[s]
  PROVE  sockets' \in [SocketIds -> SocketRows] /\ RoomsInv'
<1>1. installed' = installed /\ opening' = opening /\ subscribed' = subscribed
  BY DEF room
<1>2. \A s \in SocketIds : InRoom(g[s]) <=> InRoom(sockets[s])
  BY DEF InRoom
<1> QED
  BY <1>1, <1>2 DEF SocketsInv, RoomsInv, InRoom

LEMMA SocketsTyped ==
  ASSUME SocketsInv, sockets' \in [SocketIds -> SocketRows], tabs' \in [Tabs -> TabRows], RoomsInv',
         {installed', opening', made'} \subseteq Nat, subscribed' \subseteq Nat, UNCHANGED world
  PROVE  SocketsInv'
BY DEF SocketsInv, SocketsTypeOK, SocketRows, TabRows, world

LEMMA RoomTyped ==
  ASSUME SocketsInv, UNCHANGED room
  PROVE  {installed', opening', made'} \subseteq Nat /\ subscribed' \subseteq Nat
BY SocketsFacts DEF room

LEMMA TabTyped ==
  ASSUME SocketsInv, NEW t \in Tabs, NEW row \in TabRows, tabs' = [tabs EXCEPT ![t] = row]
  PROVE  tabs' \in [Tabs -> TabRows]
BY SocketsFacts

LEMMA TabsOnly ==
  ASSUME SocketsInv, tabs' \in [Tabs -> TabRows], UNCHANGED <<world, sockets, room>>
  PROVE  SocketsInv'
<1>1. RoomsInv'
  BY DEF SocketsInv, RoomsInv, InRoom, room
<1>2. sockets' \in [SocketIds -> SocketRows]
  BY SocketsFacts
<1> QED
  BY <1>1, <1>2, RoomTyped, SocketsTyped

-----------------------------------------------------------------------------
LEMMA FreshSocket ==
  /\ NoSocket \in SocketRows /\ NoSocket.room = 0 /\ NoSocket.server = "none"
  /\ NoSocket.hangup = "no" /\ ~NoSocket.check
<1> DEFINE first == CHOOSE t \in Tabs : TRUE
<1>1. first \in Tabs
  BY SocketsAssumption
<1>2. NoSocket = [tab |-> first, browser |-> "none", server |-> "none", room |-> 0,
             known |-> FALSE, check |-> FALSE, news |-> FALSE, refused |-> FALSE, hangup |-> "no"]
  BY DEF NoSocket
<1> HIDE DEF first
<1> QED
  BY <1>1, <1>2 DEF SocketRows

LEMMA FeedStarts == SocketsInit => SocketsInv
<1> SUFFICES ASSUME SocketsInit PROVE SocketsInv
  OBVIOUS
<1>3. sockets \in [SocketIds -> SocketRows] /\ \A s \in SocketIds : sockets[s] = NoSocket
  BY FreshSocket DEF SocketsInit
<1>4. Loaded \in TabRows
  BY DEF Loaded, TabRows
<1>5. tabs \in [Tabs -> TabRows]
  BY <1>4 DEF SocketsInit
<1>6. MaxTurns \in Nat /\ MaxCommits \in Nat /\ 0 \in 0 .. MaxTurns /\ 0 \in 0 .. MaxCommits
  BY SocketsAssumption
<1>7. SocketsTypeOK
  <2>1. access \subseteq Tabs /\ unheard \subseteq Tabs /\ turned \in 0 .. MaxTurns
    BY <1>6 DEF SocketsInit
  <2>2. committed \in 0 .. MaxCommits /\ unsaid \in BOOLEAN
    BY <1>6 DEF SocketsInit
  <2>3. {installed, opening, made} \subseteq Nat /\ subscribed \subseteq Nat
    BY DEF SocketsInit
  <2> QED
    BY <1>3, <1>5, <2>1, <2>2, <2>3 DEF SocketsTypeOK, SocketRows, TabRows
<1>8. RoomsInv
  BY <1>3, FreshSocket DEF SocketsInit, RoomsInv, InRoom
<1> QED
  BY <1>7, <1>8 DEF SocketsInv

LEMMA BrowserSteps ==
  ASSUME SocketsInv, NEW t \in Tabs, Dial(t) \/ Reload(t) \/ AnswerQuery(t) \/ ShowAnswer(t)
  PROVE  SocketsInv'
<1>0. /\ sockets \in [SocketIds -> SocketRows] /\ tabs \in [Tabs -> TabRows] /\ tabs[t] \in TabRows
      /\ committed \in Nat /\ tabs[t].answer \in Nat
  BY SocketsFacts DEF TabRows
<1>1. CASE Dial(t)
  <2>1. PICK s \in SocketIds :
          /\ sockets[s].browser = "none"
          /\ Put(s, [NoSocket EXCEPT !.tab = t, !.browser = "dialing"])
          /\ tabs' = [tabs EXCEPT ![t].socket = s]
    BY <1>1 DEF Dial
  <2> DEFINE row == [NoSocket EXCEPT !.tab = t, !.browser = "dialing"]
             tab == [tabs[t] EXCEPT !.socket = s]
  <2>3. row \in SocketRows /\ row.room = 0 /\ row.server = "none" /\ row.browser = "dialing"
    BY FreshSocket DEF SocketRows
  <2>4. sockets[s].server = "none" /\ sockets[s].room = 0
    BY <2>1 DEF SocketsInv, RoomsInv, InRoom
  <2>5. sockets' = [sockets EXCEPT ![s] = row]
    BY <2>1 DEF Put
  <2>6. UNCHANGED <<world, room>>
    BY <1>1 DEF Dial
  <2> HIDE DEF row
  <2>7. sockets' \in [SocketIds -> SocketRows] /\ RoomsInv'
    BY <2>3, <2>4, <2>5, <2>6, SocketKept DEF InRoom
  <2>8. tab \in TabRows
    BY <1>0 DEF TabRows
  <2>9. tabs' = [tabs EXCEPT ![t] = tab]
    BY <2>1
  <2> HIDE DEF tab
  <2> QED
    BY <2>6, <2>7, <2>8, <2>9, TabTyped, RoomTyped, SocketsTyped
<1>2. CASE Reload(t)
  <2>1. Loaded \in TabRows
    BY DEF Loaded, TabRows
  <2> QED
    BY <1>2, <2>1, TabTyped, TabsOnly DEF Reload
<1>3. CASE AnswerQuery(t)
  <2> DEFINE tab == [tabs[t] EXCEPT !.query = "answered", !.answer = committed]
  <2>1. tab \in TabRows
    BY <1>0 DEF TabRows
  <2>2. tabs' = [tabs EXCEPT ![t] = tab]
    BY <1>0, <1>3 DEF AnswerQuery
  <2> HIDE DEF tab
  <2> QED
    BY <1>3, <2>1, <2>2, TabTyped, TabsOnly DEF AnswerQuery
<1>4. CASE ShowAnswer(t)
  <2> DEFINE tab == [tabs[t] EXCEPT !.query = "idle", !.answer = 0, !.shown = tabs[t].answer]
  <2>1. tab \in TabRows
    BY <1>0 DEF TabRows
  <2>2. tabs' = [tabs EXCEPT ![t] = tab]
    BY <1>0, <1>4 DEF ShowAnswer
  <2> HIDE DEF tab
  <2> QED
    BY <1>4, <2>1, <2>2, TabTyped, TabsOnly DEF ShowAnswer
<1> QED
  BY <1>1, <1>2, <1>3, <1>4

LEMMA ConnectionSteps ==
  ASSUME SocketsInv, NEW s \in SocketIds,
         SocketOpens(s) \/ HearNews(s) \/ \E refused \in BOOLEAN : SocketCloses(s, refused)
  PROVE  SocketsInv'
<1> DEFINE t == sockets[s].tab
<1>0. /\ sockets \in [SocketIds -> SocketRows] /\ sockets[s] \in SocketRows
      /\ t \in Tabs /\ tabs \in [Tabs -> TabRows] /\ tabs[t] \in TabRows
      /\ sockets[s].hangup \in {"no", "due", "done"}
  BY SocketsFacts DEF SocketRows
<1>1. UNCHANGED <<world, room>>
  BY DEF SocketOpens, HearNews, SocketCloses
<1>2. ASSUME NEW row \in SocketRows, Put(s, row), row.room = sockets[s].room,
             row.server = sockets[s].server, row.browser # "none",
             NEW tab \in TabRows, tabs' = [tabs EXCEPT ![t] = tab]
      PROVE  SocketsInv'
  <2>1. sockets' \in [SocketIds -> SocketRows] /\ RoomsInv'
    BY <1>1, <1>2, SocketKept DEF Put, InRoom
  <2>2. tabs' \in [Tabs -> TabRows]
    BY <1>0, <1>2
  <2> QED
    BY <1>1, <2>1, <2>2, RoomTyped, SocketsTyped
<1>3. CASE SocketOpens(s)
  <2> DEFINE row == [sockets[s] EXCEPT !.browser = "open"]
             tab == [tabs[t] EXCEPT !.feed = "open", !.opened = TRUE]
             again == [tabs[t] EXCEPT !.query = "asked", !.feed = "open", !.opened = TRUE]
  <2>1. row \in SocketRows /\ row.room = sockets[s].room /\ row.server = sockets[s].server
        /\ row.browser # "none"
    BY <1>0 DEF SocketRows
  <2>2. tab \in TabRows /\ again \in TabRows
    BY <1>0 DEF TabRows
  <2>3. Put(s, row)
    BY <1>3 DEF SocketOpens
  <2>4. tabs' = [tabs EXCEPT ![t] = tab] \/ tabs' = [tabs EXCEPT ![t] = again]
    BY <1>0, <1>3 DEF SocketOpens, Refetch
  <2> HIDE DEF row, tab, again
  <2> QED
    BY <1>2, <2>1, <2>2, <2>3, <2>4
<1>4. CASE HearNews(s)
  <2> DEFINE row == [sockets[s] EXCEPT !.news = FALSE]
             tab == [tabs[t] EXCEPT !.query = "asked"]
  <2>1. row \in SocketRows /\ row.room = sockets[s].room /\ row.server = sockets[s].server
        /\ row.browser = sockets[s].browser
    BY <1>0 DEF SocketRows
  <2>2. tab \in TabRows
    BY <1>0 DEF TabRows
  <2>3. Put(s, row) /\ tabs' = [tabs EXCEPT ![t] = tab] /\ sockets[s].browser = "open"
    BY <1>4 DEF HearNews, Refetch
  <2> HIDE DEF row, tab
  <2> QED
    BY <1>2, <2>1, <2>2, <2>3
<1>5. ASSUME NEW refused \in BOOLEAN, SocketCloses(s, refused) PROVE SocketsInv'
  <2> DEFINE hangup == IF sockets[s].hangup = "no" /\ sockets[s].server # "none" THEN "due" ELSE sockets[s].hangup
             heard == IF refused THEN "stopped" ELSE "reconnecting"
             row == [sockets[s] EXCEPT !.browser = "closed", !.news = FALSE, !.hangup = hangup]
             tab == [tabs[t] EXCEPT !.socket = 0, !.feed = heard]
  <2>0. hangup \in {"no", "due", "done"} /\ heard \in {"stopped", "reconnecting"}
    BY <1>0
  <2>1. Put(s, row)
    BY <1>0, <1>5 DEF SocketCloses
  <2>2. tabs' = [tabs EXCEPT ![t] = tab]
    BY <1>0, <1>5 DEF SocketCloses
  <2> HIDE DEF hangup, heard
  <2>3. row \in SocketRows /\ row.room = sockets[s].room /\ row.server = sockets[s].server
        /\ row.browser # "none"
    BY <1>0, <2>0 DEF SocketRows
  <2>4. tab \in TabRows
    BY <1>0, <2>0 DEF TabRows
  <2> HIDE DEF row, tab
  <2> QED
    BY <1>2, <2>1, <2>2, <2>3, <2>4
<1> QED
  BY <1>3, <1>4, <1>5

LEMMA ServerSteps ==
  ASSUME SocketsInv, NEW s \in SocketIds,
         \/ Arrive(s) \/ Authorise(s) \/ HandleClose(s) \/ TimerFires(s) \/ Revalidate(s)
  PROVE  SocketsInv'
<1>0. /\ sockets \in [SocketIds -> SocketRows] /\ sockets[s] \in SocketRows
      /\ sockets[s].browser = "none" => sockets[s].server = "none"
      /\ sockets[s].hangup \in {"no", "due", "done"}
      /\ sockets[s].room = (IF InRoom(sockets[s]) THEN installed ELSE 0)
  BY SocketsFacts DEF SocketRows, SocketsInv, RoomsInv
<1>1. UNCHANGED <<world, room, tabs>>
  BY DEF Arrive, Authorise, HandleClose, TimerFires, Revalidate
<1>2. ASSUME NEW row \in SocketRows, Put(s, row), row.room = sockets[s].room,
             InRoom(row) <=> InRoom(sockets[s]), row.browser # "none"
      PROVE  SocketsInv'
  <2>1. sockets' \in [SocketIds -> SocketRows] /\ RoomsInv'
    BY <1>1, <1>2, SocketKept DEF Put
  <2> QED
    BY <1>1, <2>1, RoomTyped, SocketsTyped, SocketsFacts
<1> DEFINE hung == IF sockets[s].hangup = "no" THEN "due" ELSE sockets[s].hangup
<1>3. hung \in {"no", "due", "done"}
  BY <1>0
<1>4. CASE Arrive(s)
  <2> DEFINE row == [sockets[s] EXCEPT !.server = "arrived"]
  <2>1. row \in SocketRows /\ row.room = sockets[s].room /\ row.browser = sockets[s].browser
        /\ row.server = "arrived"
    BY <1>0 DEF SocketRows
  <2>2. Put(s, row) /\ sockets[s].browser = "dialing" /\ sockets[s].server = "none"
    BY <1>4 DEF Arrive
  <2> HIDE DEF row
  <2> QED
    BY <1>2, <2>1, <2>2 DEF InRoom
<1>5. CASE Authorise(s)
  <2> DEFINE allowed == [sockets[s] EXCEPT !.server = "allowed"]
             gone == [sockets[s] EXCEPT !.server = "gone", !.refused = TRUE, !.hangup = hung]
  <2>1. allowed \in SocketRows /\ allowed.room = sockets[s].room /\ allowed.browser = sockets[s].browser
        /\ allowed.server = "allowed"
    BY <1>0 DEF SocketRows
  <2>2. sockets[s].server = "arrived" /\ sockets[s].browser # "none"
    BY <1>0, <1>5 DEF Authorise
  <2>3. Put(s, allowed) \/ Put(s, gone)
    <3>1. Refused([sockets[s] EXCEPT !.server = "gone"]) = gone
      BY <1>0 DEF Refused, SocketRows
    <3> HIDE DEF hung
    <3> QED
      BY <1>5, <3>1 DEF Authorise
  <2> HIDE DEF hung
  <2>4. gone \in SocketRows /\ gone.room = sockets[s].room /\ gone.browser = sockets[s].browser
        /\ gone.server = "gone"
    BY <1>0, <1>3 DEF SocketRows
  <2> HIDE DEF allowed, gone
  <2> QED
    BY <1>2, <2>1, <2>2, <2>3, <2>4 DEF InRoom
<1>6. CASE HandleClose(s)
  <2> DEFINE server == IF sockets[s].server = "placed" THEN "closing" ELSE sockets[s].server
             row == [sockets[s] EXCEPT !.hangup = "done", !.known = FALSE, !.check = FALSE,
                                       !.server = server]
  <2>1. server \in {"none", "arrived", "allowed", "joining", "placed", "closing", "gone"}
        /\ (server \in {"placed", "closing"} <=> InRoom(sockets[s]))
    BY <1>0 DEF SocketRows, InRoom
  <2>2. Put(s, row)
    BY <1>0, <1>6 DEF HandleClose
  <2> HIDE DEF server
  <2>3. row \in SocketRows /\ row.room = sockets[s].room /\ row.browser = sockets[s].browser
        /\ row.server = server
    BY <1>0, <2>1 DEF SocketRows
  <2>4. sockets[s].browser # "none"
    BY <1>6 DEF HandleClose, SocketsInv, RoomsInv
  <2> HIDE DEF row
  <2> QED
    BY <1>2, <2>1, <2>2, <2>3, <2>4 DEF InRoom
<1>7. CASE TimerFires(s)
  <2> DEFINE row == [sockets[s] EXCEPT !.check = TRUE]
  <2>1. row \in SocketRows /\ row.room = sockets[s].room /\ row.browser = sockets[s].browser
        /\ row.server = sockets[s].server
    BY <1>0 DEF SocketRows
  <2>2. Put(s, row) /\ sockets[s].browser # "none"
    BY <1>0, <1>7 DEF TimerFires, Placed
  <2> HIDE DEF row
  <2> QED
    BY <1>2, <2>1, <2>2 DEF InRoom
<1>8. CASE Revalidate(s)
  <2> DEFINE proved == [sockets[s] EXCEPT !.check = FALSE]
             refused == [sockets[s] EXCEPT !.check = FALSE, !.refused = TRUE, !.hangup = hung]
  <2>1. proved \in SocketRows /\ proved.room = sockets[s].room /\ proved.browser = sockets[s].browser
        /\ proved.server = sockets[s].server
    BY <1>0 DEF SocketRows
  <2>2. sockets[s].browser # "none"
    BY <1>8 DEF Revalidate, SocketsInv, RoomsInv
  <2>3. Put(s, proved) \/ Put(s, refused)
    <3>1. Refused(proved) = refused
      BY <1>0 DEF Refused, SocketRows
    <3> HIDE DEF hung
    <3> QED
      BY <1>8, <3>1 DEF Revalidate
  <2> HIDE DEF hung
  <2>4. refused \in SocketRows /\ refused.room = sockets[s].room /\ refused.browser = sockets[s].browser
        /\ refused.server = sockets[s].server
    BY <1>0, <1>3 DEF SocketRows
  <2> HIDE DEF proved, refused
  <2> QED
    BY <1>2, <2>1, <2>2, <2>3, <2>4 DEF InRoom
<1> QED
  BY <1>4, <1>5, <1>6, <1>7, <1>8

(* Somebody joins: the room there is, or one that is about to be.           *)
LEMMA JoinKeeps ==
  ASSUME SocketsInv, NEW s \in SocketIds, Join(s)
  PROVE  SocketsInv'
<1>0. /\ sockets \in [SocketIds -> SocketRows] /\ sockets[s] \in SocketRows
      /\ sockets[s].server = "allowed" /\ sockets[s].room = 0 /\ sockets[s].browser # "none"
      /\ installed \in Nat /\ opening \in Nat /\ made \in Nat /\ subscribed \subseteq Nat
      /\ tabs \in [Tabs -> TabRows]
  BY SocketsFacts DEF SocketsInv, RoomsInv, Join, InRoom
<1>1. UNCHANGED <<world, tabs>>
  BY DEF Join
<1> DEFINE placed == [sockets[s] EXCEPT !.known = TRUE, !.server = "placed", !.room = installed]
           joining == [sockets[s] EXCEPT !.known = TRUE, !.server = "joining"]
<1>2. placed \in SocketRows /\ placed.server = "placed" /\ placed.room = installed
      /\ placed.browser = sockets[s].browser
  BY <1>0 DEF SocketRows
<1>3. joining \in SocketRows /\ joining.server = "joining" /\ joining.room = 0
      /\ joining.browser = sockets[s].browser
  BY <1>0 DEF SocketRows
<1>4. \/ Put(s, placed) /\ installed # 0 /\ UNCHANGED room
      \/ Put(s, joining) /\ UNCHANGED room
      \/ /\ Put(s, joining) /\ installed = 0 /\ made' = made + 1 /\ opening' = made + 1
         /\ UNCHANGED <<installed, subscribed>>
  BY <1>0 DEF Join, SocketRows
<1> HIDE DEF placed, joining
<1>5. CASE Put(s, placed) /\ installed # 0 /\ UNCHANGED room
  <2>1. \A r \in SocketIds : sockets'[r] = IF r = s THEN placed ELSE sockets[r]
    BY <1>0, <1>5 DEF Put
  <2>2. RoomsInv'
    BY <1>0, <1>2, <1>5, <2>1 DEF SocketsInv, RoomsInv, InRoom, room
  <2>3. sockets' \in [SocketIds -> SocketRows]
    BY <1>0, <1>2, <1>5 DEF Put
  <2> QED
    BY <1>0, <1>1, <1>5, <2>2, <2>3, RoomTyped, SocketsTyped
<1>6. CASE Put(s, joining) /\ UNCHANGED room
  <2>1. sockets' \in [SocketIds -> SocketRows] /\ RoomsInv'
    BY <1>0, <1>3, <1>6, SocketKept DEF Put, InRoom
  <2> QED
    BY <1>0, <1>1, <1>6, <2>1, RoomTyped, SocketsTyped
<1>7. CASE /\ Put(s, joining) /\ installed = 0 /\ made' = made + 1 /\ opening' = made + 1
           /\ UNCHANGED <<installed, subscribed>>
  <2>1. \A r \in SocketIds : sockets'[r] = IF r = s THEN joining ELSE sockets[r]
    BY <1>0, <1>7 DEF Put
  <2>2. RoomsInv'
    BY <1>0, <1>3, <1>7, <2>1 DEF SocketsInv, RoomsInv, InRoom
  <2>3. sockets' \in [SocketIds -> SocketRows]
    BY <1>0, <1>3, <1>7 DEF Put
  <2>4. {installed', opening', made'} \subseteq Nat /\ subscribed' \subseteq Nat
    BY <1>0, <1>7
  <2> QED
    BY <1>0, <1>1, <2>2, <2>3, <2>4, SocketsTyped
<1> QED
  BY <1>4, <1>5, <1>6, <1>7

(* Everybody who still waits is placed; a room nobody waits for is closed.  *)
LEMMA OpenRoomKeeps ==
  ASSUME SocketsInv, OpenRoom
  PROVE  SocketsInv'
<1> DEFINE staying == {s \in Joining : sockets[s].known}
           g == [s \in SocketIds |->
                   IF s \in staying THEN [sockets[s] EXCEPT !.server = "placed", !.room = opening]
                   ELSE IF s \in Joining THEN [sockets[s] EXCEPT !.server = "gone"] ELSE sockets[s]]
<1>0. /\ sockets \in [SocketIds -> SocketRows] /\ opening # 0 /\ installed = 0 /\ subscribed = {}
      /\ opening \in Nat /\ made \in Nat /\ opening' = 0 /\ UNCHANGED <<world, made, tabs>>
      /\ tabs \in [Tabs -> TabRows]
  BY SocketsFacts DEF SocketsInv, RoomsInv, OpenRoom
<1>1. \A s \in SocketIds : /\ sockets[s] \in SocketRows /\ sockets[s].room = 0 /\ ~InRoom(sockets[s])
                           /\ sockets[s].browser = "none" => sockets[s].server = "none"
                                /\ sockets[s].hangup = "no" /\ ~sockets[s].check
  BY <1>0 DEF SocketsInv, RoomsInv
<1>2. /\ sockets' = g /\ installed' = (IF staying = {} THEN 0 ELSE opening)
      /\ subscribed' = (IF staying = {} THEN subscribed ELSE subscribed \cup {opening})
  BY DEF OpenRoom
<1>3. staying \subseteq Joining /\ \A s \in Joining : s \in SocketIds /\ sockets[s].server = "joining"
  BY DEF Joining
<1> HIDE DEF staying
<1>4. ASSUME NEW s \in SocketIds
      PROVE  /\ g[s] \in SocketRows /\ g[s].browser = sockets[s].browser
             /\ g[s].hangup = sockets[s].hangup /\ g[s].check = sockets[s].check
             /\ s \in staying => g[s].server = "placed" /\ g[s].room = opening
             /\ s \notin staying => g[s].room = 0 /\ (g[s].server = "gone" \/ g[s].server = sockets[s].server)
             /\ s \notin Joining => g[s].server = sockets[s].server
  <2>1. CASE s \in staying
    BY <1>0, <1>1, <1>3, <2>1 DEF SocketRows
  <2>2. CASE s \in Joining \ staying
    BY <1>0, <1>1, <1>3, <2>2 DEF SocketRows
  <2>3. CASE s \notin Joining
    BY <1>0, <1>1, <1>3, <2>3
  <2> QED
    BY <1>3, <2>1, <2>2, <2>3
<1>5. g \in [SocketIds -> SocketRows]
  BY <1>4
<1> HIDE DEF g
<1>6. \A s \in SocketIds : InRoom(g[s]) <=> s \in staying
  BY <1>1, <1>4 DEF InRoom
<1>7. \A s \in SocketIds : g[s].browser = "none" =>
        g[s].server = "none" /\ g[s].hangup = "no" /\ ~g[s].check
  BY <1>1, <1>3, <1>4
<1>8. RoomsInv'
  <2>1. \A s \in SocketIds : g[s].room = (IF InRoom(g[s]) THEN installed' ELSE 0)
                             /\ (InRoom(g[s]) => installed' # 0)
    BY <1>0, <1>2, <1>4, <1>6
  <2>2. installed' # 0 => \E s \in SocketIds : InRoom(g[s])
    BY <1>2, <1>3, <1>6
  <2>3. subscribed' = (IF installed' = 0 THEN {} ELSE {installed'})
    BY <1>0, <1>2
  <2> QED
    BY <1>0, <1>2, <1>7, <2>1, <2>2, <2>3 DEF RoomsInv, InRoom
<1>9. {installed', opening', made'} \subseteq Nat /\ subscribed' \subseteq Nat
  BY <1>0, <1>2
<1> QED
  BY <1>0, <1>2, <1>5, <1>8, <1>9, SocketsTyped

(* The last one out closes the room.                                        *)
LEMMA LeaveRoomKeeps ==
  ASSUME SocketsInv, NEW s \in SocketIds, LeaveRoom(s)
  PROVE  SocketsInv'
<1> DEFINE row == [sockets[s] EXCEPT !.server = "gone", !.room = 0]
           others == {r \in SocketIds \ {s} : sockets[r].room = sockets[s].room}
<1>0. /\ sockets \in [SocketIds -> SocketRows] /\ sockets[s] \in SocketRows
      /\ sockets[s].server = "closing" /\ sockets[s].room = installed /\ installed # 0
      /\ sockets[s].browser # "none" /\ subscribed = {installed} /\ opening = 0
      /\ installed \in Nat /\ made \in Nat /\ tabs \in [Tabs -> TabRows]
  BY SocketsFacts DEF SocketsInv, RoomsInv, LeaveRoom, InRoom
<1>1. row \in SocketRows /\ row.server = "gone" /\ row.room = 0 /\ row.browser = sockets[s].browser
  BY <1>0 DEF SocketRows
<1>2. /\ Put(s, row) /\ UNCHANGED <<world, opening, made, tabs>>
      /\ IF others = {} THEN installed' = 0 /\ subscribed' = subscribed \ {installed}
         ELSE UNCHANGED <<installed, subscribed>>
  BY <1>0 DEF LeaveRoom
<1> HIDE DEF row
<1>3. sockets' \in [SocketIds -> SocketRows] /\ \A r \in SocketIds : sockets'[r] = IF r = s THEN row ELSE sockets[r]
  BY <1>0, <1>1, <1>2 DEF Put
<1>4. \A r \in SocketIds \ {s} : sockets[r].room = installed <=> InRoom(sockets[r])
  BY <1>0 DEF SocketsInv, RoomsInv
<1>5. RoomsInv'
  <2>1. CASE others = {}
    <3>1. \A r \in SocketIds \ {s} : ~InRoom(sockets[r])
      BY <1>0, <1>4, <2>1
    <3> QED
      BY <1>0, <1>1, <1>2, <1>3, <2>1, <3>1 DEF SocketsInv, RoomsInv, InRoom
  <2>2. CASE others # {}
    <3>1. PICK r \in SocketIds \ {s} : InRoom(sockets[r])
      BY <1>0, <1>4, <2>2
    <3>2. InRoom(sockets'[r])
      BY <1>3, <3>1
    <3> QED
      BY <1>0, <1>1, <1>2, <1>3, <2>2, <3>2 DEF SocketsInv, RoomsInv, InRoom
  <2> QED
    BY <2>1, <2>2
<1>6. {installed', opening', made'} \subseteq Nat /\ subscribed' \subseteq Nat
  BY <1>0, <1>2
<1> QED
  BY <1>0, <1>2, <1>3, <1>5, <1>6, SocketsTyped

(* What happens, is told, and is not told.                                  *)
LEMMA WorldSteps ==
  ASSUME SocketsInv,
         \/ Commit \/ Publish
         \/ \E t \in Tabs : AccessChanges(t) \/ Announce(t) \/ LoseAnnouncement(t)
  PROVE  SocketsInv'
<1>0. /\ sockets \in [SocketIds -> SocketRows] /\ tabs \in [Tabs -> TabRows]
      /\ \A s \in SocketIds : sockets[s] \in SocketRows
      /\ access \subseteq Tabs /\ unheard \subseteq Tabs /\ turned \in 0 .. MaxTurns
      /\ committed \in 0 .. MaxCommits /\ unsaid \in BOOLEAN
      /\ MaxCommits \in Nat /\ MaxTurns \in Nat
  BY SocketsFacts, SocketsAssumption DEF SocketsInv, SocketsTypeOK
<1>1. UNCHANGED <<room, tabs>>
  BY DEF Commit, Publish, AccessChanges, Announce, LoseAnnouncement
<1>2. sockets' \in [SocketIds -> SocketRows] /\ RoomsInv'
  <2>1. ASSUME UNCHANGED sockets
        PROVE  sockets' \in [SocketIds -> SocketRows] /\ RoomsInv'
    BY <1>0, <1>1, <2>1 DEF SocketsInv, RoomsInv, InRoom, room
  <2>2. ASSUME Publish
        PROVE  sockets' \in [SocketIds -> SocketRows] /\ RoomsInv'
    <3> DEFINE g == [s \in SocketIds |-> IF Hears(s) THEN [sockets[s] EXCEPT !.news = TRUE] ELSE sockets[s]]
    <3>1. \A s \in SocketIds : Hears(s) => sockets[s].browser # "none"
      BY DEF Hears, Placed, SocketsInv, RoomsInv
    <3>2. \A s \in SocketIds : /\ g[s] \in SocketRows
                               /\ g[s].room = sockets[s].room /\ g[s].server = sockets[s].server
                               /\ g[s].browser = sockets[s].browser
                               /\ g[s].browser = "none" => g[s] = sockets[s]
      <4> SUFFICES ASSUME NEW s \in SocketIds
                   PROVE  /\ g[s] \in SocketRows
                          /\ g[s].room = sockets[s].room /\ g[s].server = sockets[s].server
                          /\ g[s].browser = sockets[s].browser
                          /\ g[s].browser = "none" => g[s] = sockets[s]
        OBVIOUS
      <4>1. CASE Hears(s)
        <5>1. g[s] = [sockets[s] EXCEPT !.news = TRUE]
          BY <4>1
        <5> QED
          BY <1>0, <3>1, <4>1, <5>1 DEF SocketRows
      <4>2. CASE ~Hears(s)
        BY <1>0, <4>2
      <4> QED
        BY <4>1, <4>2
    <3>3. sockets' = g
      BY <2>2 DEF Publish
    <3>4. g \in [SocketIds -> SocketRows]
      BY <3>2
    <3> HIDE DEF g
    <3> QED
      BY <1>1, <3>2, <3>3, <3>4, SocketsKept
  <2>3. ASSUME NEW t \in Tabs, Announce(t)
        PROVE  sockets' \in [SocketIds -> SocketRows] /\ RoomsInv'
    <3> DEFINE Asked(s) == sockets[s].tab = t /\ sockets[s].known /\ Hears(s)
               g == [s \in SocketIds |-> IF Asked(s) THEN [sockets[s] EXCEPT !.check = TRUE] ELSE sockets[s]]
    <3>1. \A s \in SocketIds : Asked(s) => sockets[s].browser # "none"
      BY DEF Hears, Placed, SocketsInv, RoomsInv
    <3>2. \A s \in SocketIds : /\ g[s] \in SocketRows
                               /\ g[s].room = sockets[s].room /\ g[s].server = sockets[s].server
                               /\ g[s].browser = sockets[s].browser
                               /\ g[s].browser = "none" => g[s] = sockets[s]
      <4> SUFFICES ASSUME NEW s \in SocketIds
                   PROVE  /\ g[s] \in SocketRows
                          /\ g[s].room = sockets[s].room /\ g[s].server = sockets[s].server
                          /\ g[s].browser = sockets[s].browser
                          /\ g[s].browser = "none" => g[s] = sockets[s]
        OBVIOUS
      <4>0. s \in SocketIds
        OBVIOUS
      <4> HIDE DEF Asked
      <4>1. CASE Asked(s)
        <5>1. g[s] = [sockets[s] EXCEPT !.check = TRUE]
          BY <4>1
        <5> QED
          BY <1>0, <3>1, <4>1, <5>1 DEF SocketRows
      <4>2. CASE ~Asked(s)
        BY <1>0, <4>2
      <4> QED
        BY <4>1, <4>2
    <3>3. sockets' = g
      BY <2>3 DEF Announce
    <3>4. g \in [SocketIds -> SocketRows]
      BY <3>2
    <3> HIDE DEF g
    <3> QED
      BY <1>1, <3>2, <3>3, <3>4, SocketsKept
  <2> QED
    BY <2>1, <2>2, <2>3 DEF Commit, AccessChanges, LoseAnnouncement
<1>3. /\ access' \subseteq Tabs /\ unheard' \subseteq Tabs /\ turned' \in 0 .. MaxTurns
      /\ committed' \in 0 .. MaxCommits /\ unsaid' \in BOOLEAN
  <2>1. CASE Commit \/ Publish
    <3>1. UNCHANGED <<access, turned, unheard>>
      BY <2>1 DEF Commit, Publish
    <3>2. unsaid' \in BOOLEAN
      BY <2>1 DEF Commit, Publish
    <3>3. committed' \in 0 .. MaxCommits
      BY <1>0, <2>1 DEF Commit, Publish
    <3> QED
      BY <1>0, <3>1, <3>2, <3>3
  <2>2. ASSUME NEW t \in Tabs, AccessChanges(t)
        PROVE  /\ access' \subseteq Tabs /\ unheard' \subseteq Tabs /\ turned' \in 0 .. MaxTurns
               /\ committed' \in 0 .. MaxCommits /\ unsaid' \in BOOLEAN
    <3>1. access' \subseteq Tabs /\ unheard' \subseteq Tabs
      BY <1>0, <2>2 DEF AccessChanges
    <3> QED
      BY <1>0, <2>2, <3>1 DEF AccessChanges
  <2>3. ASSUME NEW t \in Tabs, Announce(t) \/ LoseAnnouncement(t)
        PROVE  /\ access' \subseteq Tabs /\ unheard' \subseteq Tabs /\ turned' \in 0 .. MaxTurns
               /\ committed' \in 0 .. MaxCommits /\ unsaid' \in BOOLEAN
    BY <1>0, <2>3 DEF Announce, LoseAnnouncement
  <2> QED
    BY <2>1, <2>2, <2>3
<1>4. {installed', opening', made'} \subseteq Nat /\ subscribed' \subseteq Nat
  BY <1>1, RoomTyped
<1>5. tabs' \in [Tabs -> TabRows]
  BY <1>0, <1>1
<1>6. SocketsTypeOK'
  BY <1>2, <1>3, <1>4, <1>5 DEF SocketsTypeOK, SocketRows, TabRows
<1> QED
  BY <1>2, <1>6 DEF SocketsInv

LEMMA SocketsInvHolds == SocketsSpec => []SocketsInv
<1>1. SocketsInv /\ [SocketsNext]_feed => SocketsInv'
  <2> SUFFICES ASSUME SocketsInv, [SocketsNext]_feed PROVE SocketsInv'
    OBVIOUS
  <2>1. CASE UNCHANGED feed
    BY <2>1, SocketsFacts, TabsOnly DEF feed, world, room
  <2> QED
    BY <2>1, BrowserSteps, ConnectionSteps, ServerSteps, JoinKeeps, OpenRoomKeeps, LeaveRoomKeeps, WorldSteps
       DEF SocketsNext, SocketStep, TabStep
<1> QED
  BY <1>1, FeedStarts, PTL DEF SocketsSpec

(* THEOREM OneRoomAtATime.                                                  *)
(* Two sockets that join at once share one subscription, nobody is placed in*)
(* a room that hears nothing, and the last one out closes it (ws.ts join,   *)
(* leave), for any number of sockets and however joining, closing and       *)
(* Redis's confirmations interleave.                                        *)
THEOREM OneRoomAtATime == SocketsSpec => []OneRoomOfListeners
<1>1. SocketsInv => OneRoomOfListeners
  BY DEF SocketsInv, RoomsInv, InRoom, Placed, OneRoomOfListeners
<1> QED
  BY <1>1, SocketsInvHolds, PTL

-----------------------------------------------------------------------------
(* The entries and the jobs that index them.                                *)

JobRows == [at : {"none", "queued", "started", "read", "read off", "cleared", "embedded",
                  "locked", "indexed", "done", "dead"},
            tries : 0 .. MaxTries, id : Nat, text : Nat, enabled : BOOLEAN, sees : SUBSET Nat]

KnowledgeInv ==
  /\ KnowledgeTypeOK
  /\ \A e, f \in entries : e.id = f.id => e = f
  /\ \A e \in entries : e.id <= rows

(* What one step may do to the text retrieval finds (OldTextStaysOut).      *)
OldTextStaysOutOnce ==
  \A e \in entries, f \in entries' :
    e.id = f.id /\ f.chunks \notin {e.chunks, Nothing} => f.chunks = f.text /\ f.enabled

LEMMA NewJobs == Unqueued \in JobRows /\ Queued \in JobRows
<1>1. MaxTries \in Nat /\ 0 \in 0 .. MaxTries
  BY KnowledgeAssumption
<1>2. Unqueued \in JobRows
  BY <1>1 DEF JobRows, Unqueued
<1> QED
  BY <1>2 DEF Queued, JobRows

LEMMA KnowledgeFacts ==
  ASSUME KnowledgeInv
  PROVE  /\ entries \subseteq EntryRows /\ saves \in Nat /\ rows \in Nat
         /\ ingest \in [IngestJobs -> JobRows] /\ editing \in [Editors -> [id : Nat, revision : Nat]]
         /\ \A e \in entries : e \in EntryRows /\ e.id \in Nat /\ e.id <= rows
         /\ Unqueued \in JobRows /\ Queued \in JobRows
BY NewJobs DEF KnowledgeInv, KnowledgeTypeOK, JobRows, EntryRows

(* Nothing is done to an entry but by a row of its own.                     *)
LEMMA EntriesKept ==
  ASSUME KnowledgeInv, UNCHANGED <<entries, rows>>
  PROVE  /\ \A e, f \in entries' : e.id = f.id => e = f
         /\ \A e \in entries' : e.id <= rows'
         /\ entries' \subseteq EntryRows
         /\ OldTextStaysOutOnce
BY DEF KnowledgeInv, KnowledgeTypeOK, OldTextStaysOutOnce

LEMMA EntriesRewritten ==
  ASSUME KnowledgeInv, NEW g \in [entries -> EntryRows], \A e \in entries : g[e].id = e.id,
         entries' = {g[e] : e \in entries}, rows' = rows,
         \A e \in entries : g[e].chunks \in {e.chunks, Nothing} \/ (g[e].chunks = g[e].text /\ g[e].enabled)
  PROVE  /\ \A e, f \in entries' : e.id = f.id => e = f
         /\ \A e \in entries' : e.id <= rows'
         /\ entries' \subseteq EntryRows
         /\ OldTextStaysOutOnce
<1>1. \A f \in entries' : \E e \in entries : f = g[e]
  OBVIOUS
<1>2. \A e, f \in entries : e.id = f.id => e = f
  BY DEF KnowledgeInv
<1>3. \A e, f \in entries' : e.id = f.id => e = f
  BY <1>1, <1>2
<1>4. \A e \in entries' : e.id <= rows'
  BY <1>1 DEF KnowledgeInv
<1>5. entries' \subseteq EntryRows
  BY <1>1
<1>6. OldTextStaysOutOnce
  <2> SUFFICES ASSUME NEW e \in entries, NEW f \in entries', e.id = f.id, f.chunks \notin {e.chunks, Nothing}
               PROVE  f.chunks = f.text /\ f.enabled
    BY DEF OldTextStaysOutOnce
  <2>1. PICK d \in entries : f = g[d]
    BY <1>1
  <2>2. d = e
    BY <1>2, <2>1
  <2> QED
    BY <2>1, <2>2
<1> QED
  BY <1>3, <1>4, <1>5, <1>6

(* A job goes on, and the rest of what is kept has its types.               *)
LEMMA StepKeepsTypes ==
  ASSUME KnowledgeInv, NEW j \in IngestJobs, NEW row \in JobRows,
         ingest' = [ingest EXCEPT ![j] = row],
         kind' = kind, status' \in {"pending", "processing", "ready", "failed"}, saves' = saves,
         rows' \in Nat, editing' = editing,
         entries' \subseteq EntryRows, \A e, f \in entries' : e.id = f.id => e = f,
         \A e \in entries' : e.id <= rows'
  PROVE  KnowledgeInv'
<1>1. ingest' \in [IngestJobs -> JobRows]
  BY KnowledgeFacts
<1> QED
  BY <1>1, KnowledgeFacts DEF KnowledgeInv, KnowledgeTypeOK, JobRows

LEMMA StatusShown ==
  ASSUME KnowledgeInv, NEW s \in {"pending", "processing", "ready", "failed"}, Show(s) \/ status' = status
  PROVE  status' \in {"pending", "processing", "ready", "failed"}
BY DEF KnowledgeInv, KnowledgeTypeOK, Show

LEMMA JobLeaves ==
  ASSUME KnowledgeInv, NEW j \in IngestJobs, NEW at \in {"indexed", "done"}, Leave(j, at)
  PROVE  \E row \in JobRows : ingest' = [ingest EXCEPT ![j] = row]
<1> DEFINE row == [Unqueued EXCEPT !.at = at, !.tries = ingest[j].tries]
<1>1. ingest[j].tries \in 0 .. MaxTries
  BY KnowledgeFacts DEF JobRows
<1>2. row \in JobRows
  BY <1>1, KnowledgeFacts DEF JobRows, Unqueued
<1> QED
  BY <1>2 DEF Leave

LEMMA JobGetsARow ==
  ASSUME KnowledgeInv, NEW j \in IngestJobs,
         \/ StartIngest(j) \/ ReadEntry(j) \/ Embed(j) \/ LockSource(j) \/ FinishIngest(j)
         \/ FailIngest(j) \/ Unreadable(j) \/ Reindex(j)
  PROVE  \E row \in JobRows : ingest' = [ingest EXCEPT ![j] = row]
<1>3. /\ ingest \in [IngestJobs -> JobRows] /\ ingest[j] \in JobRows /\ ingest[j].tries \in 0 .. MaxTries
      /\ Unqueued \in JobRows /\ Queued \in JobRows
  BY KnowledgeFacts DEF JobRows
<1>4. ASSUME NEW at \in {"started", "embedded"}, ingest' = [ingest EXCEPT ![j].at = at]
      PROVE  \E row \in JobRows : ingest' = [ingest EXCEPT ![j] = row]
  <2> DEFINE row == [ingest[j] EXCEPT !.at = at]
  <2>1. row \in JobRows
    BY <1>3 DEF JobRows
  <2> QED
    BY <1>4, <2>1
<1>5. CASE StartIngest(j)
  BY <1>4, <1>5, JobLeaves DEF StartIngest
<1>6. CASE ReadEntry(j)
  <2>1. CASE entries = {}
    BY <1>6, <2>1, JobLeaves DEF ReadEntry
  <2>2. CASE entries # {}
    <3>1. PICK e \in entries :
            ingest' = [ingest EXCEPT ![j].at = IF e.enabled THEN "read" ELSE "read off",
                                     ![j].id = e.id, ![j].text = e.text,
                                     ![j].enabled = e.enabled]
      BY <1>6, <2>2 DEF ReadEntry
    <3> DEFINE row == [ingest[j] EXCEPT !.at = IF e.enabled THEN "read" ELSE "read off",
                                        !.id = e.id, !.text = e.text, !.enabled = e.enabled]
    <3>2. e.id \in Nat /\ e.text \in Nat /\ e.enabled \in BOOLEAN
      BY KnowledgeFacts DEF EntryRows
    <3>3. row \in JobRows
      BY <1>3, <3>2 DEF JobRows
    <3>4. ingest' = [ingest EXCEPT ![j] = row]
      BY <1>3, <3>1
    <3> QED
      BY <3>3, <3>4
  <2> QED
    BY <2>1, <2>2
<1>7. CASE Embed(j)
  BY <1>4, <1>7 DEF Embed
<1>8. CASE LockSource(j)
  <2> DEFINE row == [ingest[j] EXCEPT !.at = "locked", !.sees = {e.id : e \in entries}]
  <2>1. {e.id : e \in entries} \in SUBSET Nat
    BY KnowledgeFacts
  <2>2. row \in JobRows
    BY <1>3, <2>1 DEF JobRows
  <2>3. ingest' = [ingest EXCEPT ![j] = row]
    BY <1>3, <1>8 DEF LockSource
  <2> QED
    BY <2>2, <2>3
<1>9. CASE FinishIngest(j)
  <2> DEFINE row == [Unqueued EXCEPT !.at = "done"]
  <2>1. row \in JobRows
    BY <1>3 DEF JobRows
  <2> QED
    BY <1>9, <2>1 DEF FinishIngest
<1>10. CASE FailIngest(j)
  <2> DEFINE row == IF ingest[j].tries + 1 < MaxTries THEN [Queued EXCEPT !.tries = ingest[j].tries + 1]
                    ELSE [Unqueued EXCEPT !.at = "dead"]
  <2>1. row \in JobRows
    <3>1. CASE ingest[j].tries + 1 < MaxTries
      <4>1. ingest[j].tries + 1 \in 0 .. MaxTries
        BY <1>3, <3>1, KnowledgeAssumption
      <4> QED
        BY <1>3, <3>1, <4>1 DEF JobRows
    <3>2. CASE ~(ingest[j].tries + 1 < MaxTries)
      BY <1>3, <3>2 DEF JobRows
    <3> QED
      BY <3>1, <3>2
  <2> HIDE DEF row
  <2>2. ingest' = [ingest EXCEPT ![j] = row]
    BY <1>10 DEF FailIngest, row
  <2> QED
    BY <2>1, <2>2
<1>11. CASE Unreadable(j)
  <2> DEFINE row == [Unqueued EXCEPT !.at = "dead"]
  <2>1. row \in JobRows
    BY <1>3 DEF JobRows
  <2> QED
    BY <1>11, <2>1 DEF Unreadable
<1>12. CASE Reindex(j)
  BY <1>3, <1>12 DEF Reindex
<1> QED
  BY <1>5, <1>6, <1>7, <1>8, <1>9, <1>10, <1>11, <1>12

(* The steps of a job that leave the entries as they are.                   *)
LEMMA JobsOnlyMove ==
  ASSUME KnowledgeInv, NEW j \in IngestJobs,
         \/ StartIngest(j) \/ ReadEntry(j) \/ Embed(j) \/ LockSource(j) \/ FinishIngest(j)
         \/ FailIngest(j) \/ Unreadable(j) \/ Reindex(j)
  PROVE  KnowledgeInv' /\ OldTextStaysOutOnce
<1>1. /\ UNCHANGED <<kind, entries, saves, rows, editing>>
  BY DEF StartIngest, ReadEntry, Embed, LockSource, FinishIngest, FailIngest, Unreadable, Reindex
<1>2. status' \in {"pending", "processing", "ready", "failed"}
  BY StatusShown DEF StartIngest, ReadEntry, Embed, LockSource, FinishIngest, FailIngest, Unreadable, Reindex
<1>13. PICK row \in JobRows : ingest' = [ingest EXCEPT ![j] = row]
  BY JobGetsARow
<1>14. /\ \A e, f \in entries' : e.id = f.id => e = f
       /\ \A e \in entries' : e.id <= rows'
       /\ entries' \subseteq EntryRows
       /\ OldTextStaysOutOnce
  BY <1>1, EntriesKept
<1> QED
  BY <1>1, <1>2, <1>13, <1>14, StepKeepsTypes, KnowledgeFacts

(* The steps that change the entry a job has read.                          *)
LEMMA JobsRewrite ==
  ASSUME KnowledgeInv, NEW j \in IngestJobs, ClearChunks(j) \/ MarkCleared(j) \/ SwapChunks(j)
  PROVE  KnowledgeInv' /\ OldTextStaysOutOnce
<1>1. UNCHANGED <<kind, status, saves, rows, editing>>
  BY DEF ClearChunks, MarkCleared, SwapChunks
<1>2. status' \in {"pending", "processing", "ready", "failed"}
  BY <1>1 DEF KnowledgeInv, KnowledgeTypeOK
<1>3. /\ ingest \in [IngestJobs -> JobRows] /\ ingest[j] \in JobRows /\ ingest[j].text \in Nat
      /\ \A e \in entries : e \in EntryRows
  BY KnowledgeFacts DEF JobRows
<1>4. PICK row \in JobRows : ingest' = [ingest EXCEPT ![j] = row]
  <2>1. CASE ClearChunks(j)
    <3> DEFINE new == [ingest[j] EXCEPT !.at = "cleared"]
    <3>1. new \in JobRows
      BY <1>3 DEF JobRows
    <3> QED
      BY <2>1, <3>1 DEF ClearChunks
  <2>2. CASE MarkCleared(j) \/ SwapChunks(j)
    BY <2>2, JobLeaves DEF MarkCleared, SwapChunks
  <2> QED
    BY <2>1, <2>2
<1>5. /\ \A e, f \in entries' : e.id = f.id => e = f
      /\ \A e \in entries' : e.id <= rows'
      /\ entries' \subseteq EntryRows
      /\ OldTextStaysOutOnce
  <2>1. CASE ClearChunks(j)
    <3> DEFINE g == [e \in entries |-> IF e.id = ingest[j].id THEN [e EXCEPT !.chunks = Nothing] ELSE e]
    <3>1. g \in [entries -> EntryRows]
      BY <1>3 DEF EntryRows, Nothing
    <3>2. \A e \in entries : g[e].id = e.id /\ g[e].chunks \in {e.chunks, Nothing}
      BY <1>3 DEF EntryRows
    <3>3. entries' = {g[e] : e \in entries}
      BY <2>1 DEF ClearChunks
    <3> HIDE DEF g
    <3> QED
      BY <1>1, <3>1, <3>2, <3>3, EntriesRewritten
  <2>2. CASE MarkCleared(j)
    <3> DEFINE g == [e \in entries |-> IF SameAsRead(j, e) THEN Mark(e) ELSE e]
    <3>1. g \in [entries -> EntryRows]
      BY <1>3 DEF EntryRows, Mark
    <3>2. \A e \in entries : g[e].id = e.id /\ g[e].chunks \in {e.chunks, Nothing}
      BY <1>3 DEF EntryRows, Mark
    <3>3. entries' = {g[e] : e \in entries}
      BY <2>2 DEF MarkCleared
    <3> HIDE DEF g
    <3> QED
      BY <1>1, <3>1, <3>2, <3>3, EntriesRewritten
  <2>3. CASE SwapChunks(j)
    <3> DEFINE g == [e \in entries |-> IF SameAsRead(j, e) /\ e.enabled
                                       THEN Mark([e EXCEPT !.chunks = ingest[j].text]) ELSE e]
    <3>1. g \in [entries -> EntryRows]
      BY <1>3 DEF EntryRows, Mark
    <3>2. \A e \in entries : g[e].id = e.id
      BY <1>3 DEF EntryRows, Mark
    <3>3. \A e \in entries : g[e].chunks \in {e.chunks, Nothing} \/ (g[e].chunks = g[e].text /\ g[e].enabled)
      BY <1>3 DEF EntryRows, Mark, SameAsRead
    <3>4. entries' = {g[e] : e \in entries}
      BY <2>3 DEF SwapChunks
    <3> HIDE DEF g
    <3> QED
      BY <1>1, <3>1, <3>2, <3>3, <3>4, EntriesRewritten
  <2> QED
    BY <2>1, <2>2, <2>3
<1> QED
  BY <1>1, <1>2, <1>4, <1>5, StepKeepsTypes, KnowledgeFacts

(* A file's entry is made anew, with an id no entry has had.                *)
LEMMA FileIsReplaced ==
  ASSUME KnowledgeInv, NEW j \in IngestJobs, ReplaceEntry(j)
  PROVE  KnowledgeInv' /\ OldTextStaysOutOnce
<1> DEFINE row == NewEntry(rows + 1, 0, saves)
<1>1. rows \in Nat /\ saves \in Nat /\ \A e \in entries : e \in EntryRows /\ e.id \in Nat /\ e.id <= rows
  BY KnowledgeFacts
<1>2. row \in EntryRows /\ row.id = rows + 1 /\ row.chunks = 0 /\ row.text = 0 /\ row.enabled
  BY <1>1 DEF EntryRows, NewEntry
<1>3. rows' = rows + 1 /\ entries' \subseteq entries \cup {row} /\ UNCHANGED <<kind, saves, editing>>
  <2>1. rows' = rows + 1 /\ NewEntry(rows', 0, saves) = row
    BY DEF ReplaceEntry
  <2> QED
    BY <2>1 DEF ReplaceEntry
<1> HIDE DEF row
<1>4. \A e \in entries' : e = row \/ (e \in entries /\ e.id # row.id /\ e.id <= rows')
  BY <1>1, <1>2, <1>3
<1>5. \A e, f \in entries' : e.id = f.id => e = f
  BY <1>4 DEF KnowledgeInv
<1>6. \A e \in entries' : e.id <= rows'
  BY <1>1, <1>2, <1>3, <1>4
<1>7. entries' \subseteq EntryRows /\ rows' \in Nat
  BY <1>1, <1>2, <1>3
<1>8. OldTextStaysOutOnce
  BY <1>2, <1>4 DEF OldTextStaysOutOnce, KnowledgeInv
<1>9. status' \in {"pending", "processing", "ready", "failed"}
  BY StatusShown DEF ReplaceEntry
<1>10. PICK left \in JobRows : ingest' = [ingest EXCEPT ![j] = left]
  BY JobLeaves DEF ReplaceEntry
<1> QED
  BY <1>3, <1>5, <1>6, <1>7, <1>8, <1>9, <1>10, StepKeepsTypes

(* An agent's save changes the entry it was loaded from.                    *)
LEMMA EditorSteps ==
  ASSUME KnowledgeInv, NEW u \in Editors,
         OpenEditor(u) \/ \E change \in Changes : SaveEntry(u, change)
  PROVE  KnowledgeInv' /\ OldTextStaysOutOnce
<1>1. /\ ingest \in [IngestJobs -> JobRows] /\ saves \in Nat /\ Queued \in JobRows
      /\ editing \in [Editors -> [id : Nat, revision : Nat]]
      /\ \A e \in entries : e \in EntryRows /\ e.revision \in Nat /\ e.id \in Nat
  BY KnowledgeFacts DEF EntryRows
<1>2. UNCHANGED <<kind, status, rows>>
  BY DEF OpenEditor, SaveEntry
<1>3. editing' \in [Editors -> [id : Nat, revision : Nat]]
  <2>1. CASE OpenEditor(u)
    BY <1>1, <2>1 DEF OpenEditor
  <2>2. CASE \E change \in Changes : SaveEntry(u, change)
    <3>1. NoEditor \in [id : Nat, revision : Nat]
      BY DEF NoEditor
    <3> QED
      BY <1>1, <2>2, <3>1 DEF SaveEntry
  <2> QED
    BY <2>1, <2>2
<1>4. ASSUME UNCHANGED <<entries, saves, ingest>>
      PROVE  KnowledgeInv' /\ OldTextStaysOutOnce
  BY <1>2, <1>3, <1>4, EntriesKept DEF KnowledgeInv, KnowledgeTypeOK
<1>5. ASSUME NEW change \in Changes, SaveEntry(u, change), ~UNCHANGED <<entries, saves, ingest>>
      PROVE  KnowledgeInv' /\ OldTextStaysOutOnce
  <2>1. PICK e \in entries, j \in IngestJobs :
          /\ saves' = saves + 1
          /\ Rewrite(e, [e EXCEPT !.revision = saves',
                           !.text = IF change = "text" THEN saves' ELSE @,
                           !.enabled = (change = "enable") \/ (@ /\ change # "disable")])
          /\ ingest' = [ingest EXCEPT ![j] = Queued]
    BY <1>5 DEF SaveEntry
  <2> DEFINE enabled == (change = "enable") \/ (e.enabled /\ change # "disable")
             text == IF change = "text" THEN saves + 1 ELSE e.text
             row == [e EXCEPT !.revision = saves + 1, !.text = text, !.enabled = enabled]
  <2>2. e \in EntryRows /\ e.text \in Nat /\ e.enabled \in BOOLEAN /\ saves + 1 \in Nat
    BY <1>1 DEF EntryRows
  <2>3. enabled \in BOOLEAN /\ text \in Nat
    BY <2>2
  <2>4. entries' = (entries \ {e}) \cup {row}
    BY <2>1 DEF Rewrite
  <2> HIDE DEF enabled, text
  <2>5. row \in EntryRows /\ row.id = e.id /\ row.chunks = e.chunks
    BY <2>2, <2>3 DEF EntryRows
  <2> DEFINE g == [d \in entries |-> IF d = e THEN row ELSE d]
  <2> HIDE DEF row
  <2>6. g \in [entries -> EntryRows]
    BY <1>1, <2>5
  <2>7. \A d \in entries : g[d].id = d.id /\ g[d].chunks \in {d.chunks, Nothing}
    BY <2>5
  <2>8. entries' = {g[d] : d \in entries}
    BY <2>4
  <2> HIDE DEF g
  <2>9. /\ \A d, f \in entries' : d.id = f.id => d = f
        /\ \A d \in entries' : d.id <= rows'
        /\ entries' \subseteq EntryRows
        /\ OldTextStaysOutOnce
    BY <1>2, <2>6, <2>7, <2>8, EntriesRewritten
  <2>10. ingest' \in [IngestJobs -> JobRows] /\ saves' \in Nat
    BY <1>1, <2>1, <2>2
  <2> QED
    BY <1>2, <1>3, <2>9, <2>10 DEF KnowledgeInv, KnowledgeTypeOK, JobRows
<1> QED
  BY <1>4, <1>5 DEF OpenEditor

LEMMA KnowledgeStarts == KnowledgeInit => KnowledgeInv
<1> SUFFICES ASSUME KnowledgeInit PROVE KnowledgeInv
  OBVIOUS
<1>1. Unqueued \in JobRows /\ Queued \in JobRows
  BY NewJobs
<1>2. ingest \in [IngestJobs -> JobRows]
  BY <1>1 DEF KnowledgeInit
<1>3. editing \in [Editors -> [id : Nat, revision : Nat]]
  BY DEF KnowledgeInit, NoEditor
<1> DEFINE row == NewEntry(1, Nothing, -1)
<1>4. row \in EntryRows /\ row.id = 1
  BY DEF KnowledgeInit, NewEntry, EntryRows, Nothing
<1>5. entries \subseteq EntryRows /\ rows \in Nat /\ saves = 0
      /\ \A e \in entries : e.id = 1 /\ rows = 1 /\ entries = {e}
  <2>1. saves = 0 /\ (kind = "qa" => rows = 1 /\ entries = {row}) /\ (kind # "qa" => rows = 0 /\ entries = {})
    BY DEF KnowledgeInit
  <2> HIDE DEF row
  <2> QED
    BY <1>4, <2>1
<1> HIDE DEF row
<1>6. kind \in Kinds /\ status = "pending"
  BY DEF KnowledgeInit
<1>7. KnowledgeTypeOK
  <2>1. saves \in Nat
    BY <1>5
  <2>2. kind \in Kinds \cup {"gone"} /\ status \in {"pending", "processing", "ready", "failed"}
    BY <1>6
  <2> QED
    BY <1>2, <1>3, <1>5, <2>1, <2>2 DEF KnowledgeTypeOK, JobRows
<1>8. \A e, f \in entries : e.id = f.id => e = f
  BY <1>5
<1>9. \A e \in entries : e.id <= rows
  BY <1>5
<1> QED
  BY <1>7, <1>8, <1>9 DEF KnowledgeInv

LEMMA KnowledgeSteps ==
  ASSUME KnowledgeInv, [KnowledgeNext]_knowledge
  PROVE  KnowledgeInv' /\ OldTextStaysOutOnce
<1>1. CASE DeleteSource
  <2>1. entries' = {} /\ kind' = "gone" /\ UNCHANGED <<status, saves, rows, ingest, editing>>
    BY <1>1 DEF DeleteSource
  <2> QED
    BY <2>1 DEF KnowledgeInv, KnowledgeTypeOK, OldTextStaysOutOnce
<1>2. CASE UNCHANGED knowledge
  BY <1>2, EntriesKept DEF knowledge, KnowledgeInv, KnowledgeTypeOK
<1> QED
  BY <1>1, <1>2, JobsOnlyMove, JobsRewrite, FileIsReplaced, EditorSteps DEF KnowledgeNext, IngestStep

LEMMA KnowledgeInvHolds == KnowledgeSpec => []KnowledgeInv
BY KnowledgeStarts, KnowledgeSteps, PTL DEF KnowledgeSpec

(* THEOREM NoOldAnswers.                                                    *)
(* Whatever jobs run side by side, fail and are tried again while agents    *)
(* save, what a step puts into the chunks of an entry is the text the entry *)
(* says then, and it is enabled (indexEntry), for any number of jobs.       *)
THEOREM NoOldAnswers == KnowledgeSpec => OldTextStaysOut
<1>1. KnowledgeInv /\ [KnowledgeNext]_knowledge => [OldTextStaysOutOnce]_knowledge
  BY KnowledgeSteps
<1> QED
  BY <1>1, KnowledgeInvHolds, PTL DEF KnowledgeSpec, OldTextStaysOut, OldTextStaysOutOnce

-----------------------------------------------------------------------------
(* The screens together.                                                    *)

(* What happens in one part changes nothing of another, so that each of     *)
(* them behaves as it does by itself.                                       *)
THEOREM ScreensAreTheirOwn ==
  Spec => QueueSpec /\ ThreadSpec /\ SocketsSpec /\ KnowledgeSpec
<1>1. Init => QueueInit /\ ThreadInit /\ SocketsInit /\ KnowledgeInit
  BY DEF Init
<1>2. [Next]_parts => /\ [QueueNext]_queue /\ [ThreadNext]_thread
                      /\ [SocketsNext]_feed /\ [KnowledgeNext]_knowledge
  BY DEF Next, parts
<1>3. Spec => Init /\ [][Next]_parts
  BY PTL DEF Spec
<1> QED
  BY <1>1, <1>2, <1>3, PTL DEF QueueSpec, ThreadSpec, SocketsSpec, KnowledgeSpec

(* THEOREM ConsoleTypeCorrect.                                              *)
(* Every part keeps its types.                                              *)
THEOREM ConsoleTypeCorrect == Spec => []ConsoleTypeOK
<1>1. /\ QueueInv => QueueTypeOK
      /\ ThreadInv => ThreadTypeOK
      /\ SocketsInv => SocketsTypeOK
      /\ KnowledgeInv => KnowledgeTypeOK
  BY DEF QueueInv, ThreadInv, SocketsInv, KnowledgeInv
<1>2. QueueTypeOK /\ ThreadTypeOK /\ SocketsTypeOK /\ KnowledgeTypeOK => ConsoleTypeOK
  BY DEF ConsoleTypeOK
<1> QED
  BY <1>1, <1>2, ScreensAreTheirOwn, QueueInvHolds, ThreadInvHolds, SocketsInvHolds, KnowledgeInvHolds, PTL
=============================================================================
