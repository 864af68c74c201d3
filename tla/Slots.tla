------------------------------- MODULE Slots -------------------------------
(***************************************************************************)
(* Which model answers: an admin's providers, the task slot that names a   *)
(* provider and a model as primary and as fallback with its params, the    *)
(* cards that admins edit the slot with, and the turn that loads it.  A    *)
(* card shows the slot as it was last fetched and a save sends the slot    *)
(* whole; the API reads the slot's params to merge them and writes in a    *)
(* second statement.  Secrets, names and the wording of errors are left    *)
(* out; a check of a model takes one step.                                 *)
(***************************************************************************)
EXTENDS Naturals, FiniteSets

CONSTANTS
  Cards,             \* admins' pages with the card of task slots open
  Providers,         \* providers that may be set up
  Models,            \* models by name
  Served,            \* the models each of the providers serves
  NoOne,             \* a provider or a model that is not set
  MaxSaves,          \* bound: saves of slots
  MaxProviderChanges \* bound: changes of providers

ASSUME SlotsAssumption ==
  /\ Served \in [Providers -> SUBSET Models]
  /\ NoOne \notin Providers \cup Models
  /\ MaxSaves \in Nat /\ MaxProviderChanges \in Nat

Targets == {"primary", "fallback"}
Target == [provider : Providers \cup {NoOne}, model : Models \cup {NoOne}]
Unset == [t \in Targets |-> [provider |-> NoOne, model |-> NoOne]]

\* The params the embed slot holds: one set once and kept, one with a box to tick.
Params == [temperature : {"unset", "tuned"}, sendDimensions : {"unset", "yes", "no"}]
NoParams == [temperature |-> "unset", sendDimensions |-> "unset"]

VARIABLES
  lines,   \* the providers' rows
  slot,    \* the slot's row
  cards,   \* what each card shows and holds
  puts,    \* saves under way or not yet answered
  changed, \* changes of providers so far
  loading  \* what a turn has loaded

choosing == <<lines, slot, cards, puts, changed, loading>>

NoVerdict == [provider |-> NoOne, model |-> NoOne, ok |-> FALSE]

\* Slip: the params of the save replace those of the slot.
Replaced(old, new) == new

\* Params are merged into those of the slot, not put in their place.
Merged(old, new) ==
  [n \in DOMAIN old |-> IF new[n] # "unset" THEN new[n] ELSE old[n]]

Enabled == {p \in Providers : lines[p] = "on"}
Known == {p \in Providers : lines[p] # "absent"}

\* The card before its slots have been fetched, as the page opens on it.
Blank == [loaded |-> FALSE, targets |-> Unset, held |-> [t \in Targets |-> NoOne],
          latest |-> 0, line |-> "idle", answer |-> "none",
          verdict |-> [t \in Targets |-> NoVerdict]]

\* The card on a page that had its slots when the card was drawn: a field holds the model
\* it was drawn with as the one last committed.
Drawn == [Blank EXCEPT !.loaded = TRUE, !.targets = slot.targets,
                       !.held = [t \in Targets |-> slot.targets[t].model]]

\* Part of what the bounds allow may be behind.
SlotsInit ==
  \E p \in Providers, m \in Models :
    /\ m \in Served[p]
    /\ lines = [q \in Providers |-> "on"]
    /\ slot = [targets |-> [Unset EXCEPT !["primary"] = [provider |-> p, model |-> m]],
               params |-> [NoParams EXCEPT !.temperature = "tuned"]]
    /\ cards \in [Cards -> {Blank, Drawn, [Drawn EXCEPT !.latest = MaxSaves - 1]}]
    /\ puts = {} /\ changed \in {0, MaxProviderChanges}
    /\ loading = [providers |-> {"unread"}, targets |-> Unset, read |-> FALSE, uses |-> {}]

-----------------------------------------------------------------------------
(* The cards.                                                               *)

NextPut(c) == cards[c].latest + 1

\* The query of slots lands again: at first, after a save, when the window is looked at.
Refetch(c) ==
  /\ cards' = [cards EXCEPT ![c].loaded = TRUE, ![c].targets = slot.targets]
  /\ UNCHANGED <<lines, slot, puts, changed, loading>>

\* patchSlot: the edit, and every field it did not touch as this card shows it.
Save(c, targets, params, picked, held) ==
  /\ cards[c].latest < MaxSaves
  /\ puts' = puts \cup
       {[card |-> c, seq |-> NextPut(c), targets |-> targets, params |-> params,
         picked |-> picked, read |-> NoParams, at |-> "sent"]}
  /\ cards' = [cards EXCEPT ![c].latest = NextPut(c), ![c].line = "saving",
                            ![c].answer = "none", ![c].held = held]
  /\ UNCHANGED <<lines, slot, changed, loading>>

PickProvider(c, t) ==
  \E p \in Known \cup {NoOne} :
    /\ p # cards[c].targets[t].provider
    /\ Save(c, [cards[c].targets EXCEPT ![t].provider = p], NoParams, {t}, cards[c].held)

\* ModelField: open once a provider is chosen; what it holds as committed is not sent again.
PickModel(c, t) ==
  \E m \in Models \cup {NoOne} :
    /\ cards[c].targets[t].provider # NoOne
    /\ m # cards[c].targets[t].model /\ m # cards[c].held[t]
    /\ Save(c, [cards[c].targets EXCEPT ![t].model = m], NoParams, {t},
            [cards[c].held EXCEPT ![t] = m])

TickDimensions(c) ==
  \E v \in {"yes", "no"} :
    Save(c, cards[c].targets, [NoParams EXCEPT !.sendDimensions = v], {}, cards[c].held)

\* The test beside a model: the pair the line shows, answered, and the answer stays.
Verify(c, t) ==
  LET pair == cards[c].targets[t] IN
  /\ pair.provider # NoOne /\ pair.model # NoOne
  /\ cards' = [cards EXCEPT ![c].verdict[t] =
       IF pair.provider \in Known
       THEN [provider |-> pair.provider, model |-> pair.model,
             ok |-> pair.model \in Served[pair.provider]]
       ELSE NoVerdict]
  /\ UNCHANGED <<lines, slot, puts, changed, loading>>

-----------------------------------------------------------------------------
(* PUT /task-slots/:task.                                                   *)

SetPut(s, at) == puts' = (puts \ {s}) \cup {[s EXCEPT !.at = at]}

ReadParams(s) ==
  /\ s.at = "sent"
  /\ puts' = (puts \ {s}) \cup {[s EXCEPT !.at = "merging", !.read = slot.params]}
  /\ UNCHANGED <<lines, slot, cards, changed, loading>>

\* The write: a provider that is gone fails it, by the foreign key.
WriteSlot(s) ==
  /\ s.at = "merging"
  /\ IF \A t \in Targets : s.targets[t].provider \in Known \cup {NoOne}
     THEN /\ slot' = [targets |-> s.targets, params |-> Merged(s.read, s.params)]
          /\ SetPut(s, "stored")
     ELSE /\ SetPut(s, "failed")
          /\ UNCHANGED slot
  /\ UNCHANGED <<lines, cards, changed, loading>>

\* The request or its answer is lost.
LoseSave(s) ==
  /\ s.at # "failed"
  /\ SetPut(s, "failed")
  /\ UNCHANGED <<lines, slot, cards, changed, loading>>

\* The card's onSuccess calls the shared handler without the save it was told of, so any
\* save that is answered says "saved"; and the slots are fetched again.
HearSaved(s) ==
  /\ s.at = "stored"
  /\ puts' = puts \ {s}
  /\ cards' = [cards EXCEPT ![s.card].line = "saved",
       ![s.card].answer = IF s.seq = cards[s.card].latest THEN "saved" ELSE @,
       ![s.card].loaded = TRUE, ![s.card].targets = slot.targets]
  /\ UNCHANGED <<lines, slot, changed, loading>>

\* useSaveState's onError: only the newest save's.
HearFailed(s) ==
  /\ s.at = "failed"
  /\ puts' = puts \ {s}
  /\ cards' = IF s.seq # cards[s.card].latest THEN cards
              ELSE [cards EXCEPT ![s.card].line = "failed", ![s.card].answer = "failed"]
  /\ UNCHANGED <<lines, slot, changed, loading>>

-----------------------------------------------------------------------------
(* Providers.                                                               *)

ProviderChange == changed < MaxProviderChanges /\ changed' = changed + 1

AddProvider(p) ==
  /\ ProviderChange
  /\ lines[p] = "absent"
  /\ lines' = [lines EXCEPT ![p] = "on"]
  /\ UNCHANGED <<slot, cards, puts, loading>>

\* PATCH /providers/:id, which the API offers and the console does not.
SwitchProvider(p) ==
  /\ ProviderChange
  /\ lines[p] # "absent"
  /\ lines' = [lines EXCEPT ![p] = IF @ = "on" THEN "off" ELSE "on"]
  /\ UNCHANGED <<slot, cards, puts, loading>>

\* The slots that pointed at it point at none, and keep the model.
DropProvider(p) ==
  /\ ProviderChange
  /\ lines[p] # "absent"
  /\ lines' = [lines EXCEPT ![p] = "absent"]
  /\ slot' = [slot EXCEPT !.targets = [t \in Targets |->
       IF @[t].provider = p THEN [@[t] EXCEPT !.provider = NoOne] ELSE @[t]]]
  /\ UNCHANGED <<cards, puts, loading>>

-----------------------------------------------------------------------------
(* A turn loads its configuration: two queries at once, in either order.    *)

ReadProviders ==
  /\ loading.providers = {"unread"}
  /\ loading' = [loading EXCEPT !.providers = Enabled]
  /\ UNCHANGED <<lines, slot, cards, puts, changed>>

ReadSlot ==
  /\ ~loading.read
  /\ loading' = [loading EXCEPT !.read = TRUE, !.targets = slot.targets]
  /\ UNCHANGED <<lines, slot, cards, puts, changed>>

\* usableSlot: a target with an enabled provider and a model; with none the turn hands off.
UseSlot ==
  /\ loading.read /\ loading.providers # {"unread"}
  /\ loading' = [loading EXCEPT !.uses = {t \in Targets :
       loading.targets[t].provider \in loading.providers /\ loading.targets[t].model # NoOne}]
  /\ UNCHANGED <<lines, slot, cards, puts, changed>>

SlotsNext ==
  \/ \E c \in Cards : Refetch(c) \/ TickDimensions(c)
  \/ \E c \in Cards, t \in Targets : PickProvider(c, t) \/ PickModel(c, t) \/ Verify(c, t)
  \/ \E s \in puts :
       \/ ReadParams(s) \/ WriteSlot(s) \/ LoseSave(s) \/ HearSaved(s) \/ HearFailed(s)
  \/ \E p \in Providers : AddProvider(p) \/ SwitchProvider(p) \/ DropProvider(p)
  \/ ReadProviders \/ ReadSlot \/ UseSlot

SlotsSpec == SlotsInit /\ [][SlotsNext]_choosing

-----------------------------------------------------------------------------
(* Types.                                                                   *)
SlotsTypeOK ==
  /\ lines \in [Providers -> {"absent", "on", "off"}]
  /\ slot.targets \in [Targets -> Target] /\ slot.params \in Params
  /\ \A c \in Cards :
       /\ cards[c].targets \in [Targets -> Target]
       /\ cards[c].held \in [Targets -> Models \cup {NoOne}]
       /\ cards[c].line \in {"idle", "saving", "saved", "failed"}
  /\ \A s \in puts :
       /\ s.at \in {"sent", "merging", "stored", "failed"}
       /\ s.targets \in [Targets -> Target] /\ s.read \in Params
  /\ loading.uses \subseteq Targets

(* A tuning value that no save names survives them all, however they        *)
(* overlap, and the loss of the providers the slot named: params are merged *)
(* into those read, and read again by every save (PUT /task-slots/:task).   *)
TunedIsKept == slot.params.temperature = "tuned"

(* A save changes only the targets it was picked for.  The card stores the  *)
(* slot whole, so a save from a card that shows an older one changes more   *)
(* (TaskSlotsCard, patchSlot).                                              *)
SavesChangeWhatWasPicked ==
  [][\A t \in Targets : slot'.targets[t] # slot.targets[t] /\ lines' = lines =>
       \E s \in puts : s \notin puts' /\ s.at = "merging" /\ t \in s.picked]_choosing

(* When no save of a card is under way and it shows the slot as it is, each *)
(* field holds as committed what it shows; otherwise choosing what it holds *)
(* does nothing (ModelField, commit).                                       *)
CommittedIsShown ==
  \A c \in Cards, t \in Targets :
    cards[c].loaded /\ cards[c].targets = slot.targets /\ (\A s \in puts : s.card # c)
      => cards[c].held[t] = cards[c].targets[t].model

(* The line says "saved" only of the newest save (useSaveState: "Only the   *)
(* newest request's outcome is shown").                                     *)
NewestOutcomeIsShown ==
  \A c \in Cards : cards[c].line = "saved" => cards[c].answer = "saved"

(* The verdict under a line is about the pair the line shows.               *)
VerdictIsAboutTheLine ==
  \A c \in Cards, t \in Targets :
    LET v == cards[c].verdict[t] IN
    v.ok => /\ v.provider = cards[c].targets[t].provider
            /\ v.model = cards[c].targets[t].model

(* The models a turn may call are served by the providers they are asked of. *)
TurnsUseServedModels ==
  \A t \in loading.uses : loading.targets[t].model \in Served[loading.targets[t].provider]
=============================================================================
