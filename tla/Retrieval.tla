----------------------------- MODULE Retrieval ------------------------------
(***************************************************************************)
(* Hybrid retrieval: two searches at once over the chunks of the knowledge *)
(* base, each with a floor, fused by reciprocal rank, reordered by a       *)
(* reranker that may fail or answer anything, and cut to a limit.  Entries *)
(* may be written anew or switched off meanwhile, each search reading what *)
(* is there when it runs.  A score is a level: 0 is below the floor of its *)
(* search.  Ranks are exact; there are at most three chunks, so a sum of   *)
(* contributions weight / (60 + rank) is a whole number of 1 / Scale.      *)
(* Embedding spaces, channels and external engines are left out.           *)
(***************************************************************************)
EXTENDS Naturals, Sequences, FiniteSets, SequencesExt, Listing

CONSTANTS
  Limit,   \* chunks a retrieval returns at most
  Levels,  \* scores a search may give, 0 being noise
  MaxEdits \* bound: edits of entries

ASSUME RetrievalAssumption ==
  Limit \in Nat \ {0} /\ MaxEdits \in Nat /\ Levels \subseteq Nat /\ 0 \in Levels

\* Chunks by their ids, in the order of ties; each is the text of an entry.
Chunks == 1 .. 3
EntryOf(k) == IF k \in {1, 3} THEN "a" ELSE "b"
Scale == 61 * 62 * 63

VARIABLES
  chunks,         \* the rows: chunks there are
  on,             \* entries that are enabled
  scores,         \* what each search gives each chunk
  dense, keyword, \* what each search found, or NotYet
  promoted,       \* the reranker's answer, or NotYet
  result,         \* what was returned, or NotYet
  edits           \* edits so far

retrieving == <<chunks, on, scores, dense, keyword, promoted, result, edits>>

\* No list of chunks: there is no chunk 0.
NotYet == <<0>>

\* Slip: what the reranker left out is lost.
RerankedOnly(items, survivors) == items

\* What a reranker leaves out keeps its place behind what it promoted.
Behind(items, survivors) ==
  items \o Kept(survivors, {i \in DOMAIN survivors : survivors[i] \notin ToSet(items)})

RetrievalInit ==
  /\ chunks = {1, 2} /\ on = {"a", "b"}
  /\ scores \in [Chunks -> [dense : Levels, keyword : Levels]]
  /\ dense = NotYet /\ keyword = NotYet /\ promoted = NotYet /\ result = NotYet
  /\ edits = 0

-----------------------------------------------------------------------------
\* Rows a search may find: of entries that are on.
Findable == {k \in chunks : EntryOf(k) \in on}

\* Kept over the floor, by score and then by id.
ScoreOrder(half) ==
  {p \in Chunks \X Chunks : \/ scores[p[1]][half] > scores[p[2]][half]
                            \/ scores[p[1]][half] = scores[p[2]][half] /\ p[1] < p[2]}
Ranked(found, half) == InOrder({k \in found : scores[k][half] > 0}, ScoreOrder(half))

\* Without an embedding provider that answers, meaning finds nothing.
SearchDense ==
  /\ dense = NotYet
  /\ dense' \in {Ranked(Findable, "dense"), << >>}
  /\ UNCHANGED <<chunks, on, scores, keyword, promoted, result, edits>>

SearchKeyword ==
  /\ keyword = NotYet
  /\ keyword' = Ranked(Findable, "keyword")
  /\ UNCHANGED <<chunks, on, scores, dense, promoted, result, edits>>

\* Reciprocal rank fusion: 1 for a place in dense, 0.8 for one in keyword.
Contribution(list, k, weight) ==
  IF k \in ToSet(list)
  THEN weight * (Scale \div (60 + CHOOSE i \in DOMAIN list : list[i] = k)) ELSE 0
Fused(k) == Contribution(dense, k, 5) + Contribution(keyword, k, 4)
FusedOrder ==
  {p \in Chunks \X Chunks : \/ Fused(p[1]) > Fused(p[2])
                            \/ Fused(p[1]) = Fused(p[2]) /\ p[1] < p[2]}
Survivors == InOrder(ToSet(dense) \cup ToSet(keyword), FusedOrder)

Searched == dense # NotYet /\ keyword # NotYet

\* The reranker: not configured, out of reach, or an answer that names candidates by their
\* index, in any order, some left out, some perhaps twice.
Rerank ==
  /\ Searched /\ promoted = NotYet
  /\ promoted' \in {<< >>} \cup UNION {[1 .. n -> ToSet(Survivors)] : n \in 1 .. Len(Survivors)}
  /\ UNCHANGED <<chunks, on, scores, dense, keyword, result, edits>>

Return ==
  /\ promoted # NotYet /\ result = NotYet
  /\ LET ordered == IF promoted = << >> THEN Survivors ELSE Behind(promoted, Survivors)
     IN result' = SubSeq(ordered, 1, IF Len(ordered) < Limit THEN Len(ordered) ELSE Limit)
  /\ UNCHANGED <<chunks, on, scores, dense, keyword, promoted, edits>>

\* An entry is written anew, its chunk replaced in one transaction.
WriteAnew ==
  /\ edits < MaxEdits /\ edits' = edits + 1
  /\ 1 \in chunks
  /\ chunks' = (chunks \ {1}) \cup {3}
  /\ UNCHANGED <<on, scores, dense, keyword, promoted, result>>

SwitchEntry(e) ==
  /\ edits < MaxEdits /\ edits' = edits + 1
  /\ on' = IF e \in on THEN on \ {e} ELSE on \cup {e}
  /\ UNCHANGED <<chunks, scores, dense, keyword, promoted, result>>

RetrievalNext ==
  \/ SearchDense \/ SearchKeyword \/ Rerank \/ Return
  \/ WriteAnew \/ \E e \in {"a", "b"} : SwitchEntry(e)

RetrievalSpec == RetrievalInit /\ [][RetrievalNext]_retrieving

-----------------------------------------------------------------------------
(* Types.                                                                   *)
RetrievalTypeOK ==
  /\ chunks \subseteq Chunks /\ on \subseteq {"a", "b"}
  /\ \A list \in {dense, keyword, promoted, result} \ {NotYet} : ToSet(list) \subseteq Chunks

(* Reranking reorders what was found and never returns less of it than the  *)
(* searches alone would have, whatever the reranker answers                 *)
(* (createPostgresRetriever); and nothing below both floors is returned.    *)
RerankingLosesNothing ==
  result # NotYet =>
    /\ Len(result) >= (IF Len(Survivors) < Limit THEN Len(Survivors) ELSE Limit)
    /\ \A i \in DOMAIN result :
         scores[result[i]].dense > 0 \/ scores[result[i]].keyword > 0

(* A chunk is returned once.  A reranker that names a candidate twice has   *)
(* it returned twice.                                                       *)
ChunksAreDistinct == result # NotYet => IsInjective(result)

(* What is returned of an entry is one text of it: the searches run at two  *)
(* moments, and an entry written anew between them is found as both.        *)
OneTextOfAnEntry ==
  result # NotYet => ~({1, 3} \subseteq ToSet(result))
=============================================================================
