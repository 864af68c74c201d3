-------------------------------- MODULE Tags --------------------------------
(***************************************************************************)
(* The tags of conversations: the AI's turn and people add them, one row   *)
(* locked at a time (addConversationTags), an agent takes one off in one   *)
(* statement, an admin renames or deletes one everywhere in a statement    *)
(* that locks the conversations it changes one by one.  A console shows    *)
(* the tags of one conversation in a strip that runs ahead of the answers  *)
(* (ConversationTags) over a cache that answers and events both write.     *)
(***************************************************************************)
EXTENDS Naturals, Sequences, FiniteSets, SequencesExt, Listing

CONSTANTS
  Tagged,   \* conversations
  Strip,    \* the conversation whose strip the console shows
  TagWords, \* tags, normalised
  Mask,     \* what redaction leaves of a word
  NoWord,
  MaxTags,  \* MAX_TAGS_PER_CONVERSATION
  MaxAsks   \* bound: requests

ASSUME TagsAssumption ==
  /\ Strip \in Tagged /\ Mask \in [TagWords -> TagWords] /\ NoWord \notin TagWords
  /\ \A w \in TagWords : Mask[Mask[w]] = Mask[w]
  /\ MaxTags \in Nat \ {0} /\ MaxAsks \in Nat

VARIABLES
  tags,    \* conversations.tags
  granted, \* what each conversation was given and nobody took off
  locked,  \* the request that holds a conversation's row, or 0
  asks,    \* the requests, in the order they were made
  strip,   \* the strip: what it runs ahead with, while answers are owed, and the cache under it
  fetch,   \* the cache's own read
  news     \* whether an event about the conversation is on its way

tagging == <<tags, granted, locked, asks, strip, fetch, news>>

Without(s, w) == Kept(s, {k \in DOMAIN s : s[k] # w})
FirstOfEach(s) == {k \in DOMAIN s : \A j \in DOMAIN s : j < k => s[j] # s[k]}
Current == IF strip.ahead THEN strip.shown ELSE strip.cached
Ask(kind, by, conv, words, to) ==
  [kind |-> kind, by |-> by, conv |-> conv, words |-> words, to |-> to,
   at |-> "sent", read |-> << >>, todo |-> {}, ok |-> FALSE, answer |-> << >>]
Asked(a) == Len(asks) < MaxAsks /\ asks' = Append(asks, a)
(* A slip: rows are read without waiting for whoever changes them. *)
RowIsFreeAnyway(c) == TRUE

RowIsFree(c) == locked[c] = 0

TagsInit ==
  /\ tags \in [Tagged -> {<< >>} \cup {<<Mask[w]>> : w \in TagWords}]
  /\ granted = [c \in Tagged |-> ToSet(tags[c])]
  /\ locked = [c \in Tagged |-> 0]
  /\ asks = << >>
  /\ strip = [ahead |-> FALSE, shown |-> << >>, pending |-> 0, cached |-> tags[Strip]]
  /\ fetch = [at |-> "idle", tags |-> << >>]
  /\ news = FALSE

-----------------------------------------------------------------------------
(* Who asks.                                                                *)

Ahead(next) ==
  strip' = [strip EXCEPT !.ahead = TRUE, !.shown = next, !.pending = @ + 1]

\* A word typed into the strip that it does not show yet.
AddHere(w) ==
  /\ w \notin ToSet(Current)
  /\ Asked(Ask("add", "strip", Strip, <<w>>, NoWord))
  /\ Ahead(Append(Current, w))
  /\ UNCHANGED <<tags, granted, locked, fetch, news>>

RemoveHere(w) ==
  /\ w \in ToSet(Current)
  /\ Asked(Ask("remove", "strip", Strip, <<w>>, NoWord))
  /\ Ahead(Without(Current, w))
  /\ UNCHANGED <<tags, granted, locked, fetch, news>>

\* A colleague at another console.
AskColleague(c, w) ==
  /\ \E kind \in {"add", "remove"} : Asked(Ask(kind, "colleague", c, <<w>>, NoWord))
  /\ UNCHANGED <<tags, granted, locked, strip, fetch, news>>

\* The AI's turn, with all its tags in one request.
AskAi(c, v, w) ==
  /\ v # w /\ Asked(Ask("add", "ai", c, <<v, w>>, NoWord))
  /\ UNCHANGED <<tags, granted, locked, strip, fetch, news>>

\* An admin renames a tag, or deletes it.
AskSweep(v, to) ==
  /\ v # to /\ Asked(Ask("sweep", "admin", Strip, <<v>>, to))
  /\ UNCHANGED <<tags, granted, locked, strip, fetch, news>>

-----------------------------------------------------------------------------
(* What the database does.                                                  *)

AskIs(i, kind, at) == asks[i].kind = kind /\ asks[i].at = at
Replace(i, a) == asks' = [asks EXCEPT ![i] = a]
AnswerTo(i, ok, answer) ==
  Replace(i, [asks[i] EXCEPT !.at = IF asks[i].by = "strip" THEN "answered" ELSE "over",
                             !.ok = ok, !.answer = answer])
TellTags(c) == news' = (news \/ c = Strip)

\* SELECT ... FOR UPDATE.
LockTags(i) ==
  /\ AskIs(i, "add", "sent") /\ RowIsFree(asks[i].conv)
  /\ locked' = [locked EXCEPT ![asks[i].conv] = i]
  /\ Replace(i, [asks[i] EXCEPT !.at = "locked", !.read = tags[asks[i].conv]])
  /\ UNCHANGED <<tags, granted, strip, fetch, news>>

\* What is new of the words asked for, masked, each once.
Added(a) ==
  LET clean == [k \in DOMAIN a.words |-> Mask[a.words[k]]]
  IN Kept(clean, {k \in FirstOfEach(clean) : clean[k] \notin ToSet(a.read)})
Room(a) == IF Len(a.read) >= MaxTags THEN 0 ELSE MaxTags - Len(a.read)
Fitting(a) == SubSeq(Added(a), 1, IF Len(Added(a)) > Room(a) THEN Room(a) ELSE Len(Added(a)))

\* A person's request is refused whole when it does not fit; the AI's takes what does.
StoreTags(i) ==
  LET ask == asks[i]
      full == ask.by # "ai" /\ Len(Added(ask)) > Room(ask)
      next == IF full THEN ask.read ELSE ask.read \o Fitting(ask)
  IN /\ AskIs(i, "add", "locked")
     /\ tags' = IF next = ask.read THEN tags ELSE [tags EXCEPT ![ask.conv] = next]
     /\ granted' = IF full THEN granted ELSE [granted EXCEPT ![ask.conv] = @ \cup ToSet(Fitting(ask))]
     /\ locked' = [locked EXCEPT ![ask.conv] = IF @ = i THEN 0 ELSE @]
     /\ AnswerTo(i, ~full, next)
     /\ IF full THEN UNCHANGED news ELSE TellTags(ask.conv)
     /\ UNCHANGED <<strip, fetch>>

\* One statement; it waits for the row.
RemoveTag(i) ==
  LET c == asks[i].conv
      w == Head(asks[i].words)
  IN /\ AskIs(i, "remove", "sent") /\ RowIsFree(c)
     /\ tags' = [tags EXCEPT ![c] = Without(@, w)]
     /\ granted' = [granted EXCEPT ![c] = @ \ {w}]
     /\ AnswerTo(i, TRUE, Without(tags[c], w))
     /\ TellTags(c)
     /\ UNCHANGED <<locked, strip, fetch>>

\* Renaming and deleting find the conversations that carry the tag ...
BeginSweep(i) ==
  /\ AskIs(i, "sweep", "sent")
  /\ Replace(i, [asks[i] EXCEPT !.at = "sweeping",
                                !.todo = {c \in Tagged : Head(asks[i].words) \in ToSet(tags[c])}])
  /\ UNCHANGED <<tags, granted, locked, strip, fetch, news>>

\* ... lock each, look again at one they had to wait for ...
SweepRow(i, c) ==
  /\ AskIs(i, "sweep", "sweeping") /\ c \in asks[i].todo /\ RowIsFree(c)
  /\ Replace(i, [asks[i] EXCEPT !.todo = @ \ {c}])
  /\ locked' = IF Head(asks[i].words) \in ToSet(tags[c])
               THEN [locked EXCEPT ![c] = i] ELSE locked
  /\ UNCHANGED <<tags, granted, strip, fetch, news>>

\* The new name takes the first place that either had.
Renamed(s, v, w) ==
  IF w = NoWord THEN Without(s, v)
  ELSE LET named == [k \in DOMAIN s |-> IF s[k] = v THEN w ELSE s[k]]
       IN Kept(named, FirstOfEach(named))

\* ... and change them all as one.
EndSweep(i) ==
  LET v == Head(asks[i].words)
      mine == {c \in Tagged : locked[c] = i}
  IN /\ AskIs(i, "sweep", "sweeping") /\ asks[i].todo = {}
     /\ tags' = [c \in Tagged |-> IF c \in mine THEN Renamed(tags[c], v, asks[i].to) ELSE tags[c]]
     /\ granted' = [c \in Tagged |-> IF c \in mine
                                  THEN (granted[c] \ {v}) \cup ({asks[i].to} \ {NoWord}) ELSE granted[c]]
     /\ locked' = [c \in Tagged |-> IF c \in mine THEN 0 ELSE locked[c]]
     /\ Replace(i, [asks[i] EXCEPT !.at = "over"])
     /\ IF mine = {} THEN UNCHANGED news ELSE TellTags(Strip)
     /\ UNCHANGED <<strip, fetch>>

\* Two of them wait for each other's rows: the database ends one.
SweepIsVictim(i) ==
  /\ AskIs(i, "sweep", "sweeping")
  /\ \E j \in DOMAIN asks \ {i} :
       /\ \A c \in asks[i].todo : locked[c] = j
       /\ AskIs(j, "sweep", "sweeping") /\ \A c \in asks[j].todo : locked[c] = i
       /\ asks[i].todo # {} /\ asks[j].todo # {}
  /\ locked' = [c \in Tagged |-> IF locked[c] = i THEN 0 ELSE locked[c]]
  /\ Replace(i, [asks[i] EXCEPT !.at = "over"])
  /\ UNCHANGED <<tags, granted, strip, fetch, news>>

-----------------------------------------------------------------------------
(* The strip and the cache under it.                                        *)

Settled(cached) ==
  [strip EXCEPT !.pending = @ - 1, !.ahead = strip.pending > 1, !.cached = cached]

HearTags(i) ==
  /\ asks[i].by = "strip" /\ asks[i].at = "answered"
  /\ strip' = Settled(IF asks[i].ok THEN asks[i].answer ELSE strip.cached)
  /\ Replace(i, [asks[i] EXCEPT !.at = "over"])
  /\ UNCHANGED <<tags, granted, locked, fetch, news>>

\* A request that did not arrive, or whose answer did not.
LoseTags(i) ==
  /\ asks[i].by = "strip" /\ asks[i].at \in {"sent", "answered"}
  /\ strip' = Settled(strip.cached)
  /\ Replace(i, [asks[i] EXCEPT !.at = "over"])
  /\ UNCHANGED <<tags, granted, locked, fetch, news>>

\* An event has the cache read anew, whatever read it was waiting for.
HearTagNews ==
  /\ news
  /\ news' = FALSE
  /\ fetch' = [at |-> "asked", tags |-> << >>]
  /\ UNCHANGED <<tags, granted, locked, asks, strip>>

FetchReads ==
  /\ fetch.at = "asked"
  /\ fetch' = [at |-> "read", tags |-> tags[Strip]]
  /\ UNCHANGED <<tags, granted, locked, asks, strip, news>>

FetchLands ==
  /\ fetch.at = "read"
  /\ strip' = [strip EXCEPT !.cached = fetch.tags]
  /\ fetch' = [at |-> "idle", tags |-> << >>]
  /\ UNCHANGED <<tags, granted, locked, asks, news>>

-----------------------------------------------------------------------------
TagsNext ==
  \/ \E w \in TagWords : AddHere(w) \/ RemoveHere(w)
  \/ \E c \in Tagged, w \in TagWords : AskColleague(c, w) \/ \E v \in TagWords : AskAi(c, v, w)
  \/ \E v \in TagWords : AskSweep(v, NoWord) \/ \E w \in TagWords : AskSweep(v, Mask[w])
  \/ \E i \in DOMAIN asks :
       \/ LockTags(i) \/ StoreTags(i) \/ RemoveTag(i)
       \/ BeginSweep(i) \/ EndSweep(i) \/ SweepIsVictim(i)
       \/ \E c \in Tagged : SweepRow(i, c)
       \/ HearTags(i) \/ LoseTags(i)
  \/ HearTagNews \/ FetchReads \/ FetchLands

TagsSpec == TagsInit /\ [][TagsNext]_tagging

-----------------------------------------------------------------------------
(* What is promised.                                                        *)

\* The type invariant of the tags, the requests and the strip.
TagsTypeOK ==
  /\ tags \in [Tagged -> Seq(TagWords)] /\ granted \in [Tagged -> SUBSET TagWords]
  /\ locked \in [Tagged -> 0 .. MaxAsks]
  /\ \A i \in DOMAIN asks :
       /\ asks[i].at \in {"sent", "locked", "sweeping", "answered", "over"}
       /\ asks[i].kind \in {"add", "remove", "sweep"} /\ asks[i].todo \subseteq Tagged
  /\ strip.pending \in Nat /\ strip.ahead \in BOOLEAN
  /\ strip.shown \in Seq(TagWords) /\ strip.cached \in Seq(TagWords)
  /\ fetch.at \in {"idle", "asked", "read"} /\ fetch.tags \in Seq(TagWords) /\ news \in BOOLEAN

\* A tag that the AI or a person was told a conversation has stays there until somebody takes it
\* off, renames or deletes it, whoever else changes tags at that moment ("a read-modify-write
\* lost one of them", conversation-tags.ts), no tag is there twice and no more than fit.
TagsAreKept ==
  \A c \in Tagged :
    /\ ToSet(tags[c]) = granted[c]
    /\ IsInjective(tags[c]) /\ Len(tags[c]) <= MaxTags

\* Once nothing is on its way the strip shows the tags "as stored" (Tags.tsx).  Two answers that
\* arrive in the other order leave the older of them in the cache.
StripShowsWhatIsStored ==
  (/\ strip.pending = 0 /\ fetch.at = "idle" /\ ~news
   /\ \A i \in DOMAIN asks : asks[i].at = "over") => Current = tags[Strip]
=============================================================================
