---------------------------- MODULE OutboxProofs ----------------------------
(***************************************************************************)
(* What Outbox promises for any number of rows, relays, failures and        *)
(* crashes.                                                                 *)
(***************************************************************************)
EXTENDS Outbox, SequenceTheorems, TLAPS

RowState == [op : {"add", "remove"}, job : Jobs, state : {"pending", "relayed", "cancelled"}]
PassState == [held : SUBSET (1..Len(rows)), tried : SUBSET (1..Len(rows)),
              marked : SUBSET (1..Len(rows))]

(* A pass marks only rows it holds, which is why its commit relays none of  *)
(* another pass's rows.                                                     *)
Held ==
  /\ TypeOK
  /\ RowsAreHeldOnce
  /\ \A r \in Relays : relay[r].marked \subseteq relay[r].held

LEMMA RowsAreTyped ==
  ASSUME TypeOK
  PROVE  /\ rows \in Seq(RowState) /\ Len(rows) \in Nat /\ DOMAIN rows = 1..Len(rows)
         /\ \A k \in 1..Len(rows) : rows[k] \in RowState
         /\ relay \in [Relays -> PassState]
<1>1. rows \in Seq(RowState)
  BY DEF TypeOK, RowState
<1>2. relay \in [Relays -> PassState]
  BY DEF TypeOK, PassState
<1>3. /\ Len(rows) \in Nat /\ DOMAIN rows = 1..Len(rows)
      /\ \A k \in 1..Len(rows) : rows[k] \in RowState
  BY <1>1, LenProperties, ElementOfSeq
<1> QED
  BY <1>1, <1>2, <1>3

(* A table changed row by row, and by a row more. *)
LEMMA ChangedRows ==
  ASSUME NEW table \in Seq(RowState), NEW n \in Nat, NEW f,
         n = Len(table), f \in [1..n -> RowState]
  PROVE  f \in Seq(RowState) /\ Len(f) = n /\ DOMAIN f = 1..n
<1>1. f \in Seq(RowState)
  BY SeqDef
<1>2. DOMAIN f = 1..Len(f) /\ Len(f) \in Nat
  BY <1>1, LenProperties
<1> QED
  BY <1>1, <1>2

LEMMA AppendedRows ==
  ASSUME NEW table \in Seq(RowState), NEW row \in RowState
  PROVE  LET more == Append(table, row)
         IN  /\ more \in Seq(RowState)
             /\ Len(more) = Len(table) + 1
             /\ \A k \in 1..Len(table) : more[k] = table[k]
             /\ more[Len(table) + 1] = row
BY AppendProperties

LEMMA NewRow ==
  ASSUME NEW op \in {"add", "remove"}, NEW j \in Jobs
  PROVE  Row(op, j) \in RowState
BY DEF Row, RowState

(* The table grows, and what is held in it stays as it was. *)
LEMMA GrownTable ==
  ASSUME Held, UNCHANGED <<relay, queueVars, faults>>, rows' \in Seq(RowState),
         Len(rows') = Len(rows) + 1,
         \A k \in 1..Len(rows) : (\E r \in Relays : k \in relay[r].held) =>
                                   rows'[k].state = rows[k].state
  PROVE  Held'
<1>1. /\ relay \in [Relays -> PassState] /\ Len(rows) \in Nat
      /\ 1..Len(rows) \subseteq 1..Len(rows')
  BY RowsAreTyped DEF Held
<1>2. relay' \in [Relays -> [held : SUBSET (1..Len(rows')), tried : SUBSET (1..Len(rows')),
                            marked : SUBSET (1..Len(rows'))]]
  BY <1>1 DEF PassState
<1>3. TypeOK'
  BY <1>2 DEF Held, TypeOK, RowState, queueVars
<1>4. RowsAreHeldOnce'
  BY <1>1 DEF Held, RowsAreHeldOnce, PassState
<1> QED
  BY <1>3, <1>4 DEF Held

LEMMA EnqueueHeld ==
  ASSUME Held, NEW j \in Jobs, Enqueue(j)
  PROVE  Held'
<1>1. Row("add", j) \in RowState
  BY NewRow
<1>2. rows \in Seq(RowState)
  BY RowsAreTyped DEF Held
<1>3. /\ rows' \in Seq(RowState) /\ Len(rows') = Len(rows) + 1
      /\ \A k \in 1..Len(rows) : rows'[k] = rows[k]
  BY <1>1, <1>2, AppendedRows DEF Enqueue
<1> QED
  BY <1>3, GrownTable DEF Enqueue

LEMMA CancelHeld ==
  ASSUME OutboxAssumption, Held, NEW j \in Timers, Cancel(j)
  PROVE  Held'
<1> DEFINE table == [k \in DOMAIN rows |->
                       IF PendingAdd(j, k) THEN [rows[k] EXCEPT !.state = "cancelled"] ELSE rows[k]]
<1>1. /\ rows \in Seq(RowState) /\ Len(rows) \in Nat /\ DOMAIN rows = 1..Len(rows)
      /\ \A k \in 1..Len(rows) : rows[k] \in RowState
  BY RowsAreTyped DEF Held
<1>2. table \in [1..Len(rows) -> RowState]
  BY <1>1 DEF RowState
<1>3. table \in Seq(RowState) /\ Len(table) = Len(rows)
  BY <1>1, <1>2, ChangedRows
<1>4. Row("remove", j) \in RowState
  BY NewRow DEF OutboxAssumption
<1>5. /\ rows' \in Seq(RowState) /\ Len(rows') = Len(rows) + 1
      /\ \A k \in 1..Len(rows) : rows'[k] = table[k]
  <2> HIDE DEF table
  <2>1. rows' = Append(table, Row("remove", j))
    BY DEF Cancel, table
  <2> QED
    BY <1>3, <1>4, <2>1, AppendedRows
<1>6. \A k \in 1..Len(rows) : (\E r \in Relays : k \in relay[r].held) =>
                                rows'[k].state = rows[k].state
  BY <1>1, <1>5 DEF Cancel, Locked
<1> QED
  BY <1>5, <1>6, GrownTable DEF Cancel

LEMMA ClaimHeld ==
  ASSUME Held, NEW r \in Relays, Claim(r)
  PROVE  Held'
<1> DEFINE claimed == {k \in Claimable : Cardinality({m \in Claimable : m < k}) < Batch}
<1>1. /\ DOMAIN rows = 1..Len(rows) /\ relay \in [Relays -> PassState]
  BY RowsAreTyped DEF Held
<1>2. /\ claimed \subseteq 1..Len(rows)
      /\ \A k \in claimed : rows[k].state = "pending" /\ ~Locked(k)
  BY <1>1 DEF Claimable
<1>3. relay' = [relay EXCEPT ![r].held = claimed] /\ UNCHANGED <<rows, queueVars, faults>>
  BY DEF Claim
<1> HIDE DEF claimed
<1>4. relay' \in [Relays -> PassState]
  BY <1>1, <1>2, <1>3 DEF PassState
<1>5. TypeOK'
  BY <1>3, <1>4 DEF Held, TypeOK, PassState, queueVars
<1>6. RowsAreHeldOnce'
  BY <1>1, <1>2, <1>3 DEF Held, RowsAreHeldOnce, PassState, Locked
<1>7. relay[r].marked = {}
  BY DEF Claim, NoPass
<1>8. \A s \in Relays : relay'[s].marked \subseteq relay'[s].held
  BY <1>1, <1>3, <1>7 DEF Held, PassState
<1> QED
  BY <1>5, <1>6, <1>8 DEF Held

(* A row handed over, or tried in vain. *)
LEMMA TriedHeld ==
  ASSUME Held, NEW r \in Relays, NEW k \in DOMAIN rows, IsNext(r, k), UNCHANGED rows,
         \/ relay' = [relay EXCEPT ![r].tried = @ \cup {k}, ![r].marked = @ \cup {k}]
         \/ relay' = [relay EXCEPT ![r].tried = @ \cup {k}],
         queue' \in [Jobs -> {"absent", "waiting", "active", "retrying", "held"}],
         born' \in [Jobs -> Nat], maker' \in [Jobs -> Nat],
         faults' \in [errors : Nat, swallowed : Nat, crashes : Nat]
  PROVE  Held'
<1>1. /\ DOMAIN rows = 1..Len(rows) /\ relay \in [Relays -> PassState]
      /\ k \in relay[r].held
  BY RowsAreTyped DEF Held, IsNext
<1> DEFINE marks == [relay[r] EXCEPT !.tried = @ \cup {k}, !.marked = @ \cup {k}]
           tries == [relay[r] EXCEPT !.tried = @ \cup {k}]
<1>2. PICK pass \in PassState :
        /\ relay' = [relay EXCEPT ![r] = pass]
        /\ pass.held = relay[r].held
        /\ pass.marked \subseteq relay[r].marked \cup {k}
  <2>1. relay[r] \in PassState /\ relay[r].tried \cup {k} \in SUBSET (1..Len(rows))
                             /\ relay[r].marked \cup {k} \in SUBSET (1..Len(rows))
    BY <1>1 DEF PassState
  <2>2. /\ marks \in PassState /\ marks.held = relay[r].held
        /\ marks.marked = relay[r].marked \cup {k}
    BY <2>1 DEF PassState
  <2>3. tries \in PassState /\ tries.held = relay[r].held /\ tries.marked = relay[r].marked
    BY <2>1 DEF PassState
  <2>4. relay' = [relay EXCEPT ![r] = marks] \/ relay' = [relay EXCEPT ![r] = tries]
    OBVIOUS
  <2> HIDE DEF marks, tries
  <2> QED
    BY <2>2, <2>3, <2>4
<1>3. relay' \in [Relays -> PassState]
  BY <1>1, <1>2
<1>4. TypeOK'
  BY <1>3 DEF Held, TypeOK, PassState
<1>5. \A s \in Relays : /\ relay'[s].held = relay[s].held
                        /\ relay'[s].marked \subseteq relay[s].held
  BY <1>1, <1>2 DEF Held
<1>6. RowsAreHeldOnce'
  BY <1>5 DEF Held, RowsAreHeldOnce
<1> QED
  BY <1>4, <1>5, <1>6 DEF Held

LEMMA QueueTypes ==
  ASSUME Held, NEW k \in DOMAIN rows,
         UNCHANGED queueVars \/ AddJob(k) \/ RemoveJob(k)
  PROVE  /\ queue' \in [Jobs -> {"absent", "waiting", "active", "retrying", "held"}]
         /\ born' \in [Jobs -> Nat] /\ maker' \in [Jobs -> Nat]
<1>1. rows[k].job \in Jobs /\ k \in Nat
  BY RowsAreTyped DEF Held, RowState
<1>2. /\ queue \in [Jobs -> {"absent", "waiting", "active", "retrying", "held"}]
      /\ born \in [Jobs -> Nat] /\ maker \in [Jobs -> Nat]
      /\ born[rows[k].job] + 1 \in Nat
  BY <1>1 DEF Held, TypeOK
<1>3. CASE UNCHANGED queueVars
  BY <1>2, <1>3 DEF queueVars
<1>4. CASE AddJob(k) /\ ~UNCHANGED queueVars
  BY <1>1, <1>2, <1>4 DEF AddJob
<1>5. CASE RemoveJob(k) /\ ~UNCHANGED queueVars
  BY <1>1, <1>2, <1>5 DEF RemoveJob
<1> QED
  BY <1>3, <1>4, <1>5

LEMMA FaultsAreCounted ==
  ASSUME Held
  PROVE  /\ faults \in [errors : Nat, swallowed : Nat, crashes : Nat]
         /\ [faults EXCEPT !.errors = @ + 1] \in [errors : Nat, swallowed : Nat, crashes : Nat]
         /\ [faults EXCEPT !.swallowed = @ + 1] \in [errors : Nat, swallowed : Nat, crashes : Nat]
         /\ [faults EXCEPT !.crashes = @ + 1] \in [errors : Nat, swallowed : Nat, crashes : Nat]
<1>1. faults \in [errors : Nat, swallowed : Nat, crashes : Nat]
  BY DEF Held, TypeOK
<1>2. faults.errors + 1 \in Nat /\ faults.swallowed + 1 \in Nat /\ faults.crashes + 1 \in Nat
  BY <1>1
<1> QED
  BY <1>1, <1>2

LEMMA HandHeld ==
  ASSUME Held, NEW r \in Relays, Hand(r) \/ SwallowRemove(r) \/ RowFails(r)
  PROVE  Held'
<1>1. PICK k \in DOMAIN rows :
        /\ IsNext(r, k) /\ UNCHANGED rows
        /\ \/ relay' = [relay EXCEPT ![r].tried = @ \cup {k}, ![r].marked = @ \cup {k}]
           \/ relay' = [relay EXCEPT ![r].tried = @ \cup {k}]
        /\ UNCHANGED queueVars \/ AddJob(k) \/ RemoveJob(k)
  BY DEF Hand, HandAdd, HandRemove, SwallowRemove, RowFails, Arrived
<1>2. faults' \in [errors : Nat, swallowed : Nat, crashes : Nat]
  <2>1. \/ UNCHANGED faults
        \/ faults' = [faults EXCEPT !.swallowed = @ + 1]
        \/ faults' = [faults EXCEPT !.errors = @ + 1]
    BY DEF Hand, HandAdd, HandRemove, SwallowRemove, RowFails
  <2> QED
    BY <2>1, FaultsAreCounted
<1> QED
  BY <1>1, <1>2, QueueTypes, TriedHeld

(* The end of a pass: its rows are let go. *)
LEMMA LetGo ==
  ASSUME Held, NEW r \in Relays, relay' = [relay EXCEPT ![r] = NoPass],
         rows' \in Seq(RowState), Len(rows') = Len(rows),
         \A k \in 1..Len(rows) : k \notin relay[r].held => rows'[k] = rows[k],
         UNCHANGED queueVars, faults' \in [errors : Nat, swallowed : Nat, crashes : Nat]
  PROVE  Held'
<1>1. DOMAIN rows = 1..Len(rows) /\ relay \in [Relays -> PassState]
  BY RowsAreTyped DEF Held
<1>2. relay' \in [Relays -> PassState]
  BY <1>1 DEF PassState, NoPass
<1>3. TypeOK'
  BY <1>2 DEF Held, TypeOK, PassState, RowState, queueVars
<1>4. \A s \in Relays : relay'[s] = IF s = r THEN NoPass ELSE relay[s]
  BY <1>1
<1>5. \A s \in Relays : \A k \in relay[s].held : k \in 1..Len(rows)
  BY <1>1 DEF PassState
<1> QED
  BY <1>3, <1>4, <1>5 DEF Held, RowsAreHeldOnce, NoPass

LEMMA CommitPassHeld ==
  ASSUME Held, NEW r \in Relays, CommitPass(r)
  PROVE  Held'
<1>1. /\ rows \in Seq(RowState) /\ Len(rows) \in Nat /\ DOMAIN rows = 1..Len(rows)
      /\ \A k \in 1..Len(rows) : rows[k] \in RowState
  BY RowsAreTyped DEF Held
<1>2. rows' \in [1..Len(rows) -> RowState]
  BY <1>1 DEF CommitPass, RowState
<1>3. rows' \in Seq(RowState) /\ Len(rows') = Len(rows)
  BY <1>1, <1>2, ChangedRows
<1>4. \A k \in 1..Len(rows) : k \notin relay[r].held => rows'[k] = rows[k]
  BY <1>1 DEF CommitPass, Held
<1> QED
  BY <1>3, <1>4, LetGo DEF CommitPass, Held, TypeOK

LEMMA CrashHeld ==
  ASSUME Held, NEW r \in Relays, Crash(r)
  PROVE  Held'
<1>1. faults' \in [errors : Nat, swallowed : Nat, crashes : Nat]
  BY FaultsAreCounted DEF Crash
<1> QED
  BY <1>1, RowsAreTyped, LetGo DEF Crash, Held

LEMMA HeldStep ==
  ASSUME OutboxAssumption, Held, [Next]_vars
  PROVE  Held'
<1>1. CASE \E j \in Jobs : Enqueue(j)
  BY <1>1, EnqueueHeld
<1>2. CASE \E j \in Timers : Cancel(j)
  BY <1>2, CancelHeld
<1>3. CASE \E r \in Relays : Pass(r) \/ SwallowRemove(r) \/ RowFails(r) \/ Crash(r)
  BY <1>3, ClaimHeld, HandHeld, CommitPassHeld, CrashHeld DEF Pass
<1>4. CASE \E j \in Jobs : StartJob(j) \/ FinishJob(j) \/ RetryJob(j)
  BY <1>4 DEF StartJob, FinishJob, RetryJob, QueueStep, Held, TypeOK, RowsAreHeldOnce
<1>5. CASE UNCHANGED vars
  BY <1>5 DEF vars, queueVars, Held, TypeOK, RowsAreHeldOnce
<1> QED
  BY <1>1, <1>2, <1>3, <1>4, <1>5 DEF Next

LEMMA HeldInit ==
  ASSUME Init
  PROVE  Held
<1>1. rows \in Seq([op : {"add", "remove"}, job : Jobs, state : {"pending", "relayed", "cancelled"}])
  BY EmptySeq DEF Init
<1> QED
  BY <1>1 DEF Init, Held, TypeOK, RowsAreHeldOnce, NoPass

(* The invariant behind them. *)
THEOREM AlwaysHeld ==
  ASSUME OutboxAssumption
  PROVE  Spec => []Held
<1>1. Init => Held
  BY HeldInit
<1>2. Held /\ [Next]_vars => Held'
  BY HeldStep
<1> QED
  BY <1>1, <1>2, PTL DEF Spec

(* Every variable of the outbox keeps its type. *)
THEOREM TypeCorrect ==
  ASSUME OutboxAssumption
  PROVE  Spec => []TypeOK
<1>1. Held => TypeOK
  BY DEF Held
<1> QED
  BY <1>1, AlwaysHeld, PTL

(* However many replicas relay, a row is held by one pass, and nobody       *)
(* cancels it under that pass's feet.                                       *)
THEOREM HeldOnce ==
  ASSUME OutboxAssumption
  PROVE  Spec => []RowsAreHeldOnce
<1>1. Held => RowsAreHeldOnce
  BY DEF Held
<1> QED
  BY <1>1, AlwaysHeld, PTL

-----------------------------------------------------------------------------
(* The outbox does what Promises allows. *)

(* A kept job is never taken back, so the queue holds its id from its birth *)
(* on, and that is what makes it be born once.                              *)
Births ==
  /\ \A k \in DOMAIN rows : rows[k].op = "remove" => rows[k].job \in Timers
  /\ \A j \in Kept : born[j] = IF queue[j] = "absent" THEN 0 ELSE 1

Asked == {j \in Kept : \E k \in DOMAIN rows : rows[k].job = j}
Created == [j \in Kept |-> born[j]]

Simulated ==
  \/ \E j \in Kept : Asked' = Asked \cup {j} /\ Created' = Created
  \/ \E j \in Kept : /\ j \in Asked /\ Created[j] = 0
                      /\ Created' = [Created EXCEPT ![j] = 1] /\ Asked' = Asked
  \/ Asked' = Asked /\ Created' = Created

LEMMA SimulatedIsAllowed ==
  ASSUME Simulated
  PROVE  [Abstract!Next]_(Abstract!vars)
BY DEF Simulated, Asked, Created, Abstract!Next, Abstract!Ask, Abstract!Create, Abstract!vars

LEMMA EnqueueSimulated ==
  ASSUME Held, Births, NEW j \in Jobs, Enqueue(j)
  PROVE  Births' /\ Simulated
<1>1. /\ rows \in Seq(RowState) /\ Len(rows) \in Nat /\ DOMAIN rows = 1..Len(rows)
  BY RowsAreTyped DEF Held
<1>2. /\ rows' \in Seq(RowState) /\ Len(rows') = Len(rows) + 1
      /\ \A k \in 1..Len(rows) : rows'[k] = rows[k]
      /\ rows'[Len(rows) + 1] = Row("add", j)
  BY <1>1, NewRow, AppendedRows DEF Enqueue
<1>3. DOMAIN rows' = 1..(Len(rows) + 1)
  BY <1>2, LenProperties
<1>4. Row("add", j).job = j /\ Row("add", j).op = "add"
  BY DEF Row
<1>5. Births'
  BY <1>1, <1>2, <1>3, <1>4 DEF Births, Enqueue, queueVars
<1>6. Created' = Created
  BY DEF Created, Enqueue, queueVars
<1>7. Asked' = IF j \in Kept THEN Asked \cup {j} ELSE Asked
  BY <1>1, <1>2, <1>3, <1>4 DEF Asked
<1> QED
  BY <1>5, <1>6, <1>7 DEF Simulated

LEMMA CancelSimulated ==
  ASSUME OutboxAssumption, Held, Births, NEW j \in Timers, Cancel(j)
  PROVE  Births' /\ Simulated
<1> DEFINE table == [k \in DOMAIN rows |->
                       IF PendingAdd(j, k) THEN [rows[k] EXCEPT !.state = "cancelled"] ELSE rows[k]]
<1>1. /\ rows \in Seq(RowState) /\ Len(rows) \in Nat /\ DOMAIN rows = 1..Len(rows)
      /\ \A k \in 1..Len(rows) : rows[k] \in RowState
  BY RowsAreTyped DEF Held
<1>2. table \in [1..Len(rows) -> RowState]
  BY <1>1 DEF RowState
<1>3. table \in Seq(RowState) /\ Len(table) = Len(rows)
  BY <1>1, <1>2, ChangedRows
<1>4. \A k \in 1..Len(rows) : table[k].job = rows[k].job /\ table[k].op = rows[k].op
  BY <1>1 DEF RowState
<1>5. /\ Row("remove", j) \in RowState
      /\ Row("remove", j).job = j /\ j \notin Kept
  BY NewRow DEF OutboxAssumption, Row, Kept
<1>6. /\ rows' \in Seq(RowState) /\ Len(rows') = Len(rows) + 1
      /\ \A k \in 1..Len(rows) : rows'[k] = table[k]
      /\ rows'[Len(rows) + 1] = Row("remove", j)
  <2> HIDE DEF table
  <2>1. rows' = Append(table, Row("remove", j))
    BY DEF Cancel, table
  <2> QED
    BY <1>3, <1>5, <2>1, AppendedRows
<1> HIDE DEF table
<1>7. DOMAIN rows' = 1..(Len(rows) + 1)
  BY <1>6, LenProperties
<1>8. Births'
  BY <1>1, <1>4, <1>5, <1>6, <1>7 DEF Births, Cancel, queueVars
<1>9. Created' = Created
  BY DEF Created, Cancel, queueVars
<1>10. Asked' = Asked
  BY <1>1, <1>4, <1>5, <1>6, <1>7 DEF Asked
<1> QED
  BY <1>8, <1>9, <1>10 DEF Simulated

(* A step that leaves the table's jobs alone, and the births of kept jobs. *)
LEMMA QuietSimulated ==
  ASSUME Births, DOMAIN rows' = DOMAIN rows,
         \A k \in DOMAIN rows : rows'[k].job = rows[k].job /\ rows'[k].op = rows[k].op,
         UNCHANGED born,
         \A j \in Kept : queue'[j] = "absent" <=> queue[j] = "absent"
  PROVE  Births' /\ Simulated
<1>1. Births'
  BY DEF Births
<1>2. Created' = Created /\ Asked' = Asked
  BY DEF Created, Asked
<1> QED
  BY <1>1, <1>2 DEF Simulated

LEMMA AddSimulated ==
  ASSUME Held, Births, NEW k \in DOMAIN rows, UNCHANGED rows, AddJob(k)
  PROVE  Births' /\ Simulated
<1> DEFINE j == rows[k].job
<1>1. j \in Jobs
  BY RowsAreTyped DEF Held, RowState
<1>2. queue \in [Jobs -> {"absent", "waiting", "active", "retrying", "held"}]
      /\ born \in [Jobs -> Nat] /\ Kept \subseteq Jobs
  BY DEF Held, TypeOK, Kept
<1>3. CASE UNCHANGED queueVars
  BY <1>3, QuietSimulated DEF queueVars
<1>4. CASE /\ queue[j] = "absent"
           /\ queue' = [queue EXCEPT ![j] = "waiting"]
           /\ born' = [born EXCEPT ![j] = @ + 1]
  <2>1. Births'
    BY <1>1, <1>2, <1>4 DEF Births
  <2>2. Asked' = Asked
    BY DEF Asked
  <2>3. CASE j \in Kept
    <3>1. j \in Asked /\ Created[j] = 0
      BY <1>4, <2>3 DEF Asked, Created, Births
    <3>2. Created' = [Created EXCEPT ![j] = 1]
      BY <1>1, <1>2, <1>4, <2>3, <3>1 DEF Created
    <3> QED
      BY <2>1, <2>2, <2>3, <3>1, <3>2 DEF Simulated
  <2>4. CASE j \notin Kept
    <3>1. Created' = Created
      BY <1>1, <1>2, <1>4, <2>4 DEF Created
    <3> QED
      BY <2>1, <2>2, <3>1 DEF Simulated
  <2> QED
    BY <2>3, <2>4
<1> QED
  BY <1>3, <1>4 DEF AddJob

LEMMA RemoveSimulated ==
  ASSUME Held, Births, NEW k \in DOMAIN rows, UNCHANGED rows, rows[k].op = "remove", RemoveJob(k)
  PROVE  Births' /\ Simulated
<1>1. rows[k].job \notin Kept
  BY DEF Births, Kept
<1>2. \A j \in Kept : queue'[j] = queue[j]
  BY <1>1 DEF RemoveJob, queueVars, Held, TypeOK, Kept
<1>3. UNCHANGED born
  BY DEF RemoveJob, queueVars
<1> QED
  BY <1>2, <1>3, QuietSimulated

LEMMA PassSimulated ==
  ASSUME Held, Births, NEW r \in Relays,
         Pass(r) \/ SwallowRemove(r) \/ RowFails(r) \/ Crash(r)
  PROVE  Births' /\ Simulated
<1>1. CASE HandAdd(r) \/ HandRemove(r)
  BY <1>1, AddSimulated, RemoveSimulated DEF HandAdd, HandRemove
<1>2. CASE Claim(r) \/ SwallowRemove(r) \/ Crash(r)
  BY <1>2, QuietSimulated DEF Claim, SwallowRemove, Crash, queueVars
<1>3. CASE CommitPass(r)
  <2>1. /\ DOMAIN rows' = DOMAIN rows /\ UNCHANGED <<queue, born>>
        /\ \A k \in DOMAIN rows : rows[k] \in RowState
    BY <1>3, RowsAreTyped DEF CommitPass, queueVars, Held
  <2>2. \A k \in DOMAIN rows : rows'[k].job = rows[k].job /\ rows'[k].op = rows[k].op
    BY <1>3, <2>1 DEF CommitPass, RowState
  <2> QED
    BY <2>1, <2>2, QuietSimulated
<1>4. CASE RowFails(r)
  <2>1. PICK k \in DOMAIN rows : UNCHANGED rows /\ (UNCHANGED queueVars \/ AddJob(k))
    BY <1>4 DEF RowFails
  <2>2. CASE UNCHANGED queueVars
    BY <2>1, <2>2, QuietSimulated DEF queueVars
  <2> QED
    BY <2>1, <2>2, AddSimulated
<1> QED
  BY <1>1, <1>2, <1>3, <1>4 DEF Pass, Hand

LEMMA QueueSimulated ==
  ASSUME OutboxAssumption, Held, Births, NEW j \in Jobs, StartJob(j) \/ FinishJob(j) \/ RetryJob(j)
  PROVE  Births' /\ Simulated
<1>1. \A i \in Kept : queue'[i] = "absent" <=> queue[i] = "absent"
  <2>1. PICK to \in {"absent", "active", "held", "retrying"} :
          /\ queue' = [queue EXCEPT ![j] = to]
          /\ queue[j] # "absent"
          /\ to = "absent" => j \in Transient
    BY DEF StartJob, FinishJob, RetryJob, QueueStep
  <2> QED
    BY <2>1 DEF Held, TypeOK, Kept
<1> QED
  BY <1>1, QuietSimulated DEF StartJob, FinishJob, RetryJob, QueueStep

(* The outbox implements Promises, but for its fairness: a kept job comes   *)
(* into being only if asked for, and once, through any number of failures,  *)
(* crashes and relays.                                                      *)
THEOREM PromisesAreAllowed ==
  ASSUME OutboxAssumption
  PROVE  Spec => Abstract!Init /\ [][Abstract!Next]_(Abstract!vars)
<1>1. Init => Births /\ Abstract!Init
  BY DEF Init, Births, Kept, Abstract!Init
<1>2. Held /\ Births /\ [Next]_vars => Births' /\ Simulated
  <2> SUFFICES ASSUME Held, Births, [Next]_vars
               PROVE  Births' /\ Simulated
    OBVIOUS
  <2>1. CASE UNCHANGED vars
    BY <2>1, QuietSimulated DEF vars
  <2> QED
    BY <2>1, EnqueueSimulated, CancelSimulated, PassSimulated, QueueSimulated DEF Next
<1>3. Held /\ Births /\ [Next]_vars => [Abstract!Next]_(Abstract!vars)
  BY <1>2, SimulatedIsAllowed
<1> QED
  BY <1>1, <1>2, <1>3, AlwaysHeld, PTL DEF Spec

-----------------------------------------------------------------------------
(* What was taken back stays taken back. *)

Marked(k) == \E r \in Relays : k \in relay[r].marked
Cancels(k, j) == rows[k].op = "remove" /\ rows[k].job = j
LastWord(k, j) == \A m \in 1..Len(rows) : rows[m].job = j => m <= k

(* A cancellation settles every request before it, so that once it is the   *)
(* last word nothing makes the timer again: from the moment a pass has      *)
(* handed it over, the timer does not wait.                                 *)
TakenBack(j) ==
  \A k \in 1..Len(rows) : Cancels(k, j) =>
    /\ rows[k].state # "cancelled"
    /\ \A m \in 1..k : ~PendingAdd(j, m)
    /\ LastWord(k, j) /\ (rows[k].state = "relayed" \/ Marked(k)) => queue[j] # "waiting"

Withdrawn == faults.swallowed = 0 => \A j \in Timers : TakenBack(j)

(* A step that settles rows that are held, forgets marks, or moves the      *)
(* queue otherwise than by making the timer.                                *)
LEMMA QuietWithdrawn ==
  ASSUME Held, Withdrawn, faults'.swallowed = 0 => faults.swallowed = 0,
         Len(rows') = Len(rows),
         \A k \in 1..Len(rows) :
           /\ rows'[k].op = rows[k].op /\ rows'[k].job = rows[k].job
           /\ \/ rows'[k].state = rows[k].state
              \/ rows'[k].state = "relayed" /\ Marked(k)
           /\ Marked(k)' => Marked(k),
         \A j \in Timers : queue'[j] = "waiting" => queue[j] = "waiting"
  PROVE  Withdrawn'
<1> SUFFICES ASSUME faults'.swallowed = 0, NEW j \in Timers, NEW k \in 1..Len(rows'), Cancels(k, j)'
             PROVE  /\ rows'[k].state # "cancelled"
                    /\ \A m \in 1..k : ~PendingAdd(j, m)'
                    /\ LastWord(k, j)' /\ (rows'[k].state = "relayed" \/ Marked(k)') => queue'[j] # "waiting"
  BY DEF Withdrawn, TakenBack
<1>1. TakenBack(j) /\ Len(rows) \in Nat
  BY RowsAreTyped DEF Withdrawn, Held
<1>2. k \in 1..Len(rows) /\ Cancels(k, j)
  BY DEF Cancels
<1>3. /\ rows[k].state # "cancelled"
      /\ \A m \in 1..k : ~PendingAdd(j, m)
      /\ LastWord(k, j) /\ (rows[k].state = "relayed" \/ Marked(k)) => queue[j] # "waiting"
  BY <1>1, <1>2 DEF TakenBack
<1>4. \A m \in 1..k : PendingAdd(j, m)' => PendingAdd(j, m)
  BY <1>1, <1>2 DEF PendingAdd
<1>5. LastWord(k, j)' => LastWord(k, j)
  BY DEF LastWord
<1> QED
  BY <1>2, <1>3, <1>4, <1>5

LEMMA EnqueueWithdrawn ==
  ASSUME Held, Withdrawn, NEW i \in Jobs, Enqueue(i)
  PROVE  Withdrawn'
<1> SUFFICES ASSUME faults'.swallowed = 0, NEW j \in Timers, NEW k \in 1..Len(rows'), Cancels(k, j)'
             PROVE  /\ rows'[k].state # "cancelled"
                    /\ \A m \in 1..k : ~PendingAdd(j, m)'
                    /\ LastWord(k, j)' /\ (rows'[k].state = "relayed" \/ Marked(k)') => queue'[j] # "waiting"
  BY DEF Withdrawn, TakenBack
<1>1. rows \in Seq(RowState) /\ Len(rows) \in Nat /\ TakenBack(j)
  BY RowsAreTyped DEF Held, Withdrawn, Enqueue
<1>2. /\ Len(rows') = Len(rows) + 1
      /\ \A m \in 1..Len(rows) : rows'[m] = rows[m]
      /\ rows'[Len(rows) + 1] = Row("add", i)
  BY <1>1, NewRow, AppendedRows DEF Enqueue
<1>3. k \in 1..Len(rows) /\ Cancels(k, j)
  BY <1>1, <1>2 DEF Cancels, Row
<1>4. \A m \in 1..k : PendingAdd(j, m)' => PendingAdd(j, m)
  BY <1>1, <1>2, <1>3 DEF PendingAdd
<1>5. LastWord(k, j)' => LastWord(k, j)
  BY <1>1, <1>2, <1>3 DEF LastWord
<1>6. Marked(k)' => Marked(k)
  BY DEF Marked, Enqueue
<1>7. UNCHANGED queue
  BY DEF Enqueue, queueVars
<1> QED
  BY <1>1, <1>2, <1>3, <1>4, <1>5, <1>6, <1>7 DEF TakenBack

LEMMA CancelWithdrawn ==
  ASSUME OutboxAssumption, Held, Withdrawn, NEW i \in Timers, Cancel(i)
  PROVE  Withdrawn'
<1> DEFINE table == [k \in DOMAIN rows |->
                       IF PendingAdd(i, k) THEN [rows[k] EXCEPT !.state = "cancelled"] ELSE rows[k]]
<1> SUFFICES ASSUME faults'.swallowed = 0, NEW j \in Timers, NEW k \in 1..Len(rows'), Cancels(k, j)'
             PROVE  /\ rows'[k].state # "cancelled"
                    /\ \A m \in 1..k : ~PendingAdd(j, m)'
                    /\ LastWord(k, j)' /\ (rows'[k].state = "relayed" \/ Marked(k)') => queue'[j] # "waiting"
  BY DEF Withdrawn, TakenBack
<1>1. /\ rows \in Seq(RowState) /\ Len(rows) \in Nat /\ DOMAIN rows = 1..Len(rows)
      /\ \A m \in 1..Len(rows) : rows[m] \in RowState
  BY RowsAreTyped DEF Held
<1>2. table \in [1..Len(rows) -> RowState]
  BY <1>1 DEF RowState
<1>3. table \in Seq(RowState) /\ Len(table) = Len(rows)
  BY <1>1, <1>2, ChangedRows
<1>4. Row("remove", i) \in RowState
  BY NewRow DEF OutboxAssumption
<1>5. /\ Len(rows') = Len(rows) + 1
      /\ \A m \in 1..Len(rows) : rows'[m] = table[m]
      /\ rows'[Len(rows) + 1] = Row("remove", i)
  <2> HIDE DEF table
  <2>1. rows' = Append(table, Row("remove", i))
    BY DEF Cancel, table
  <2> QED
    BY <1>3, <1>4, <2>1, AppendedRows
<1>6. \A m \in 1..Len(rows) :
        /\ table[m].job = rows[m].job /\ table[m].op = rows[m].op
        /\ table[m].state = IF PendingAdd(i, m) THEN "cancelled" ELSE rows[m].state
  BY <1>1 DEF RowState
<1> HIDE DEF table
<1>7. TakenBack(j) /\ UNCHANGED <<relay, queue>>
  BY DEF Withdrawn, Cancel, queueVars
<1>8. \A m \in 1..Len(rows) : PendingAdd(j, m)' => PendingAdd(j, m) /\ i # j
  BY <1>5, <1>6 DEF PendingAdd
<1>9. CASE k \in 1..Len(rows)
  <2>1. Cancels(k, j) /\ rows'[k].state = rows[k].state
    BY <1>5, <1>6, <1>9 DEF Cancels, PendingAdd
  <2>2. \A m \in 1..k : PendingAdd(j, m)' => PendingAdd(j, m)
    BY <1>1, <1>8, <1>9
  <2>3. LastWord(k, j)' => LastWord(k, j)
    BY <1>1, <1>5, <1>6 DEF LastWord
  <2>4. Marked(k)' => Marked(k)
    BY <1>7 DEF Marked
  <2> QED
    BY <1>7, <1>9, <2>1, <2>2, <2>3, <2>4 DEF TakenBack
<1>10. CASE k = Len(rows) + 1
  <2>1. i = j /\ rows'[k].state = "pending" /\ rows'[k].op = "remove"
    BY <1>5, <1>10 DEF Cancels, Row
  <2>2. \A m \in 1..k : ~PendingAdd(j, m)'
    BY <1>1, <1>8, <1>10, <2>1 DEF PendingAdd
  <2>3. ~Marked(k)'
    <3>1. relay \in [Relays -> PassState]
      BY RowsAreTyped DEF Held
    <3> QED
      BY <1>1, <1>7, <1>10, <3>1 DEF Marked, PassState
  <2> QED
    BY <2>1, <2>2, <2>3
<1> QED
  BY <1>1, <1>5, <1>9, <1>10

(* What a pass holds is pending: no timer is made that was taken back       *)
(* afterwards, and handing a cancellation over takes the timer away.        *)
LEMMA HandWithdrawn ==
  ASSUME OutboxAssumption, Held, Withdrawn, NEW r \in Relays, NEW k \in DOMAIN rows, IsNext(r, k),
         rows' = rows, faults'.swallowed = 0 => faults.swallowed = 0,
         \/ /\ rows[k].op = "add" /\ AddJob(k)
            /\ Arrived(r, k) \/ relay' = [relay EXCEPT ![r].tried = @ \cup {k}]
         \/ rows[k].op = "remove" /\ RemoveJob(k) /\ Arrived(r, k)
         \/ UNCHANGED queueVars /\ relay' = [relay EXCEPT ![r].tried = @ \cup {k}]
  PROVE  Withdrawn'
<1> SUFFICES ASSUME faults'.swallowed = 0, NEW j \in Timers, NEW n \in 1..Len(rows), Cancels(n, j),
                    LastWord(n, j), rows[n].state = "relayed" \/ Marked(n)'
             PROVE  queue'[j] # "waiting"
  BY DEF Withdrawn, TakenBack, Cancels, LastWord, PendingAdd
<1>1. /\ TakenBack(j) /\ j \in Jobs /\ Len(rows) \in Nat /\ k \in 1..Len(rows)
      /\ rows[k].state = "pending" /\ rows[k] \in RowState
      /\ relay \in [Relays -> PassState]
  BY RowsAreTyped DEF Held, RowsAreHeldOnce, IsNext, Withdrawn, OutboxAssumption
<1>2. rows[k].op = "add" => rows[k].job # j
  <2> SUFFICES ASSUME rows[k].op = "add", rows[k].job = j PROVE FALSE
    OBVIOUS
  <2>1. k \in 1..n
    BY <1>1 DEF LastWord
  <2>2. PendingAdd(j, k)
    BY <1>1 DEF PendingAdd
  <2> QED
    BY <1>1, <2>1, <2>2 DEF TakenBack
<1>3. queue \in [Jobs -> {"absent", "waiting", "active", "retrying", "held"}]
  BY DEF Held, TypeOK
<1>4. \/ rows[k].job = j /\ rows[k].op = "remove" /\ RemoveJob(k)
      \/ queue'[j] = queue[j]
      \/ queue'[j] = "absent"
  BY <1>1, <1>2, <1>3 DEF AddJob, RemoveJob, queueVars
<1>5. Marked(n)' => Marked(n) \/ (n = k /\ rows[k].op = "remove" /\ RemoveJob(k))
  BY <1>1 DEF Marked, Arrived, PassState, Cancels
<1>6. CASE rows[k].job = j /\ rows[k].op = "remove" /\ RemoveJob(k)
  BY <1>1, <1>3, <1>6 DEF RemoveJob, queueVars
<1>7. CASE queue'[j] = queue[j] /\ (rows[n].state = "relayed" \/ Marked(n))
  BY <1>1, <1>7 DEF TakenBack
<1> QED
  BY <1>4, <1>5, <1>6, <1>7 DEF Cancels

LEMMA PassWithdrawn ==
  ASSUME OutboxAssumption, Held, Withdrawn, NEW r \in Relays,
         Pass(r) \/ SwallowRemove(r) \/ RowFails(r) \/ Crash(r)
  PROVE  Withdrawn'
<1>1. /\ DOMAIN rows = 1..Len(rows) /\ Len(rows) \in Nat /\ relay \in [Relays -> PassState]
      /\ \A k \in 1..Len(rows) : rows[k] \in RowState
      /\ faults \in [errors : Nat, swallowed : Nat, crashes : Nat]
  BY RowsAreTyped, FaultsAreCounted DEF Held
<1>2. CASE Claim(r)
  <2>1. relay[r].marked = {} /\ UNCHANGED <<rows, queue, faults>>
    BY <1>2 DEF Claim, NoPass, queueVars
  <2>2. \A k : Marked(k)' => Marked(k)
    BY <1>1, <1>2, <2>1 DEF Claim, Marked, PassState
  <2> QED
    BY <2>1, <2>2, QuietWithdrawn
<1>3. CASE HandAdd(r) \/ HandRemove(r)
  BY <1>3, HandWithdrawn DEF HandAdd, HandRemove
<1>4. CASE SwallowRemove(r)
  <2>1. faults'.swallowed # 0
    BY <1>1, <1>4 DEF SwallowRemove
  <2> QED
    BY <2>1 DEF Withdrawn
<1>5. CASE RowFails(r)
  <2>1. faults'.swallowed = faults.swallowed
    BY <1>1, <1>5 DEF RowFails
  <2> QED
    BY <1>5, <2>1, HandWithdrawn DEF RowFails
<1>6. CASE CommitPass(r)
  <2>1. /\ Len(rows') = Len(rows) /\ UNCHANGED <<queue, faults>>
        /\ \A k \in 1..Len(rows) : k \in relay[r].marked => rows'[k] = [rows[k] EXCEPT !.state = "relayed"]
        /\ \A k \in 1..Len(rows) : k \notin relay[r].marked => rows'[k] = rows[k]
    <3>1. rows' \in [1..Len(rows) -> RowState]
      BY <1>1, <1>6 DEF CommitPass, RowState
    <3>2. Len(rows') = Len(rows)
      BY <1>1, <3>1, ChangedRows DEF Held, TypeOK, RowState
    <3> QED
      BY <1>1, <1>6, <3>2 DEF CommitPass, queueVars
  <2>2. \A k \in 1..Len(rows) :
           /\ rows'[k].op = rows[k].op /\ rows'[k].job = rows[k].job
           /\ \/ rows'[k].state = rows[k].state
              \/ rows'[k].state = "relayed" /\ Marked(k)
    <3> SUFFICES ASSUME NEW k \in 1..Len(rows)
                 PROVE  /\ rows'[k].op = rows[k].op /\ rows'[k].job = rows[k].job
                        /\ \/ rows'[k].state = rows[k].state
                           \/ rows'[k].state = "relayed" /\ Marked(k)
      OBVIOUS
    <3>1. CASE k \in relay[r].marked
      <4>1. rows[k] \in RowState /\ rows'[k] = [rows[k] EXCEPT !.state = "relayed"]
        BY <1>1, <2>1, <3>1
      <4>2. /\ rows'[k].op = rows[k].op /\ rows'[k].job = rows[k].job
            /\ rows'[k].state = "relayed"
        BY <4>1 DEF RowState
      <4>3. Marked(k)
        BY <3>1 DEF Marked
      <4> QED
        BY <4>2, <4>3
    <3>2. CASE k \notin relay[r].marked
      BY <2>1, <3>2
    <3> QED
      BY <3>1, <3>2
  <2>3. \A k : Marked(k)' => Marked(k)
    BY <1>1, <1>6 DEF CommitPass, Marked, NoPass, PassState
  <2> QED
    BY <2>1, <2>2, <2>3, QuietWithdrawn
<1>7. CASE Crash(r)
  <2>1. faults'.swallowed = faults.swallowed /\ UNCHANGED <<rows, queue>>
    BY <1>1, <1>7 DEF Crash, queueVars
  <2>2. \A k : Marked(k)' => Marked(k)
    BY <1>1, <1>7 DEF Crash, Marked, NoPass, PassState
  <2> QED
    BY <2>1, <2>2, QuietWithdrawn
<1> QED
  BY <1>2, <1>3, <1>4, <1>5, <1>6, <1>7 DEF Pass, Hand

LEMMA WithdrawnStep ==
  ASSUME OutboxAssumption, Held, Withdrawn, [Next]_vars
  PROVE  Withdrawn'
<1>1. CASE \E j \in Jobs : StartJob(j) \/ FinishJob(j) \/ RetryJob(j)
  <2>1. PICK j \in Jobs, to \in {"absent", "active", "held", "retrying"} :
          queue' = [queue EXCEPT ![j] = to] /\ UNCHANGED <<rows, relay, faults>>
    BY <1>1 DEF StartJob, FinishJob, RetryJob, QueueStep
  <2>2. \A i \in Timers : queue'[i] = "waiting" => queue[i] = "waiting"
    BY <2>1 DEF Held, TypeOK, OutboxAssumption
  <2>3. \A k : Marked(k)' => Marked(k)
    BY <2>1 DEF Marked
  <2> QED
    BY <2>1, <2>2, <2>3, QuietWithdrawn
<1>2. CASE UNCHANGED vars
  <2>1. \A k : Marked(k)' => Marked(k)
    BY <1>2 DEF vars, Marked
  <2> QED
    BY <1>2, <2>1, QuietWithdrawn DEF vars, queueVars
<1> QED
  BY <1>1, <1>2, EnqueueWithdrawn, CancelWithdrawn, PassWithdrawn DEF Next

(* A timer that was taken back is not left to start, on whichever side of   *)
(* the relays the cancellation met it, however many passes fail or die with *)
(* it, and whatever else was asked of the timer before.  What is needed is  *)
(* that Redis does not fail the removal itself.                             *)
THEOREM NeverStarts ==
  ASSUME OutboxAssumption
  PROVE  Spec => []CancelledNeverStarts
<1>1. Init => Withdrawn
  BY DEF Init, Withdrawn, TakenBack
<1>2. Held /\ Withdrawn /\ [Next]_vars => Withdrawn'
  BY WithdrawnStep
<1>3. Held /\ Withdrawn => CancelledNeverStarts
  <2> SUFFICES ASSUME Held, Withdrawn, faults.swallowed = 0, NEW j \in Timers,
                      Settled(j), NEW k \in LastOf(j, "remove")
               PROVE  queue[j] # "waiting"
    BY DEF CancelledNeverStarts
  <2>1. DOMAIN rows = 1..Len(rows) /\ \A m \in 1..Len(rows) : rows[m] \in RowState
    BY RowsAreTyped DEF Held
  <2>2. k \in 1..Len(rows) /\ Cancels(k, j) /\ LastWord(k, j) /\ rows[k].state # "pending"
    BY <2>1 DEF LastOf, RowsOf, Cancels, LastWord, Settled
  <2>3. rows[k].state = "relayed"
    BY <2>1, <2>2 DEF Withdrawn, TakenBack, RowState
  <2> QED
    BY <2>2, <2>3 DEF Withdrawn, TakenBack
<1> QED
  BY <1>1, <1>2, <1>3, AlwaysHeld, PTL DEF Spec
=============================================================================
