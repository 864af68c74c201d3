--------------------------- MODULE DeliveryProofs ---------------------------
(***************************************************************************)
(* What Delivery promises about its message for any number of parts,        *)
(* attempts, stalls and resends, with stalled runs going on or not, and     *)
(* whether or not agents are quicker than the worker's hook.                *)
(***************************************************************************)
EXTENDS Delivery, TLAPS

(* The customer has the first n parts. *)
Received(n) == \A p \in 1..Parts : p <= n => taken[p] >= 1

(* What a run has passed, the customer has received; and a run is about to  *)
(* send, has just sent, or has nothing left, as its place says.             *)
RunIsSound(n) ==
  /\ Received(n.next - 1)
  /\ n.at = "send"   => n.next <= Parts
  /\ n.at = "record" => n.next <= Parts /\ taken[n.next] >= 1
  /\ n.at = "mark"   => n.next = Parts + 1

(* SentIsReceived is not inductive: MarkSent and RecordUnit trust what the  *)
(* run remembers, and Push trusts LINE's memory of the keys.                *)
Sound ==
  /\ TypeOK
  /\ SentIsReceived
  /\ \A p \in keyed : taken[p] >= 1
  /\ \A j \in Jobs, r \in Runs : RunIsSound(run[j][r])

-----------------------------------------------------------------------------
(* The steps, by what they do to the platform and to the runs. *)

LEMMA CountersAreNatural ==
  ASSUME DeliveryAssumption
  PROVE  /\ Parts \in Nat /\ Parts >= 1
         /\ MaxAttempts + MaxStalls \in Nat /\ MaxAttempts + MaxStalls >= 1
         /\ MaxResends \in Nat
         /\ 0 \in Jobs
BY DEF DeliveryAssumption, Jobs

LEMMA IdleIsSound ==
  ASSUME DeliveryAssumption
  PROVE  RunIsSound(Idle) /\ RunIsSound(Over)
BY DEF DeliveryAssumption, RunIsSound, Received, Idle, Over

LEMMA SoundInit ==
  ASSUME DeliveryAssumption, Init
  PROVE  Sound
<1>1. TypeOK
  BY CountersAreNatural DEF Init, TypeOK, Idle, Jobs, Runs, DeliveryAssumption
<1>2. SentIsReceived
  BY CountersAreNatural DEF Init, SentIsReceived
<1> QED
  BY <1>1, <1>2, IdleIsSound DEF Sound, Init

JobState == [state : {"none", "asked", "refused", "waiting", "active", "completed", "failed",
                      "settled"},
             runs : 0..(MaxAttempts + MaxStalls), failed : Nat, stalled : Nat]
JobTypes == [Jobs -> JobState]
RunState == [at : {"idle", "over"} \cup Going, next : 1..(Parts + 1),
             final : BOOLEAN, token : BOOLEAN]

(* A step that sends nothing and changes one run, soundly. *)
LEMMA QuietStep ==
  ASSUME Sound, UNCHANGED platformVars, NEW j \in Jobs, NEW r, NEW n \in RunState,
         run' = [run EXCEPT ![j][r] = n], RunIsSound(n)
  PROVE  /\ run' \in [Jobs -> [Runs -> RunState]]
         /\ \A i \in Jobs, s \in Runs : RunIsSound(run[i][s])'
<1>1. \A m : RunIsSound(m)' <=> RunIsSound(m)
  BY DEF RunIsSound, Received, platformVars
<1>2. run \in [Jobs -> [Runs -> RunState]]
  BY DEF Sound, TypeOK, RunState
<1>3. \A i \in Jobs, s \in Runs : run'[i][s] = run[i][s] \/ run'[i][s] = n
  BY <1>2
<1> QED
  BY <1>1, <1>2, <1>3 DEF Sound

(* Moving a run, field by field. *)
LEMMA RunFields ==
  ASSUME NEW n \in RunState
  PROVE  /\ \A at \in {"idle", "over"} \cup Going : [n EXCEPT !.at = at] \in RunState
         /\ \A at \in {"idle", "over"} \cup Going, next \in 1..(Parts + 1) :
              [n EXCEPT !.at = at, !.next = next] \in RunState
         /\ \A at \in {"idle", "over"} \cup Going, b \in BOOLEAN :
              /\ [n EXCEPT !.at = at, !.final = b] \in RunState
              /\ [n EXCEPT !.token = b, !.at = at] \in RunState
         /\ [n EXCEPT !.token = FALSE] \in RunState
BY DEF RunState

LEMMA OverIsState ==
  ASSUME DeliveryAssumption
  PROVE  Over \in RunState /\ Idle \in RunState
<1>1. 1 \in 1..(Parts + 1)
  BY CountersAreNatural
<1>2. Idle \in RunState
  BY <1>1 DEF Idle, RunState
<1> QED
  BY <1>2, RunFields DEF Over

(* The end of a run. *)
LEMMA OverStep ==
  ASSUME DeliveryAssumption, Sound, UNCHANGED platformVars, NEW j \in Jobs, NEW r,
         run' = [run EXCEPT ![j][r] = Over]
  PROVE  /\ run' \in [Jobs -> [Runs -> RunState]]
         /\ \A i \in Jobs, s \in Runs : RunIsSound(run[i][s])'
BY QuietStep, OverIsState, IdleIsSound

LEMMA FinishTypes ==
  ASSUME TypeOK, NEW j \in Jobs, NEW r \in Runs, NEW from, Finish(j, r, from)
  PROVE  job' \in JobTypes /\ run' = [run EXCEPT ![j][r] = Over] /\ run[j][r].at = from
<1>1. job \in JobTypes
  BY DEF TypeOK, JobTypes, JobState
<1>2. job' = job \/ job' = [job EXCEPT ![j].state = "completed"]
  BY DEF Finish
<1> QED
  BY <1>1, <1>2 DEF Finish, JobTypes, JobState

LEMMA FailTypes ==
  ASSUME TypeOK, NEW j \in Jobs, NEW r \in Runs, NEW from, Fail(j, r, from)
  PROVE  job' \in JobTypes /\ run' = [run EXCEPT ![j][r] = Over] /\ run[j][r].at = from
<1>1. job \in JobTypes
  BY DEF TypeOK, JobTypes, JobState
<1>2. job[j].failed + 1 \in Nat
  BY <1>1 DEF JobTypes, JobState
<1>3. CASE job' = job
  BY <1>1, <1>3 DEF Fail
<1>4. CASE \E to \in {"waiting", "failed"} :
             job' = [job EXCEPT ![j].state = to, ![j].failed = job[j].failed + 1]
  BY <1>1, <1>2, <1>4 DEF Fail, JobTypes, JobState
<1> QED
  BY <1>3, <1>4 DEF Fail

-----------------------------------------------------------------------------
(* The queue's steps. *)

LEMMA StartRunSound ==
  ASSUME DeliveryAssumption, Sound, NEW j \in Jobs, StartRun(j)
  PROVE  Sound'
<1> DEFINE n == [Idle EXCEPT !.at = "load", !.final = job[j].failed + 1 >= MaxAttempts]
<1>1. n \in RunState /\ RunIsSound(n)
  <2>1. Idle.next = 1 /\ n.next = Idle.next /\ n.at = "load"
    BY DEF Idle
  <2>2. n \in RunState
    <3>1. (job[j].failed + 1 >= MaxAttempts) \in BOOLEAN /\ "load" \in Going
      BY DEF Going, Outside
    <3> QED
      BY <3>1, OverIsState, RunFields
  <2> QED
    BY <2>1, <2>2, CountersAreNatural DEF RunIsSound, Received
<1>2. /\ run' \in [Jobs -> [Runs -> RunState]]
      /\ \A i \in Jobs, s \in Runs : RunIsSound(run[i][s])'
  <2> HIDE DEF n
  <2>1. run' = [run EXCEPT ![j][job[j].runs + 1] = n]
    BY DEF StartRun, n
  <2> QED
    BY <1>1, <2>1, QuietStep DEF StartRun
<1>3. job' \in JobTypes
  <2>1. job \in JobTypes
    BY DEF Sound, TypeOK, JobTypes, JobState
  <2>2. job[j].runs + 1 \in 0..(MaxAttempts + MaxStalls)
    BY <2>1 DEF StartRun, JobTypes, JobState, Runs
  <2> QED
    BY <2>1, <2>2 DEF StartRun, JobTypes, JobState
<1> QED
  BY <1>2, <1>3 DEF StartRun, Sound, TypeOK, SentIsReceived, JobTypes, JobState, RunState, rowVars,
                    platformVars

LEMMA ThrowSound ==
  ASSUME DeliveryAssumption, Sound, NEW j \in Jobs, NEW r \in Runs, Throw(j, r)
  PROVE  Sound'
<1>1. job' \in JobTypes /\ run' = [run EXCEPT ![j][r] = Over]
  BY FailTypes DEF Throw, Sound
<1>2. /\ run' \in [Jobs -> [Runs -> RunState]]
      /\ \A i \in Jobs, s \in Runs : RunIsSound(run[i][s])'
  BY <1>1, OverStep DEF Throw
<1> QED
  BY <1>1, <1>2 DEF Throw, Sound, TypeOK, SentIsReceived, JobTypes, JobState, RunState, rowVars,
                    platformVars

LEMMA StallSound ==
  ASSUME DeliveryAssumption, Sound, NEW j \in Jobs, Stall(j)
  PROVE  Sound'
<1> DEFINE dead == [run EXCEPT ![j][job[j].runs] = Over]
<1>1. run' = run \/ run' = dead
  BY DEF Stall, StallOut
<1>2. job' \in JobTypes
  <2>1. job \in JobTypes
    BY DEF Sound, TypeOK, JobTypes, JobState
  <2>2. job[j].stalled + 1 \in Nat
    BY <2>1 DEF JobTypes, JobState
  <2>3. CASE job' = [job EXCEPT ![j].state = "failed"]
    BY <2>1, <2>3 DEF JobTypes, JobState
  <2>4. CASE job' = [job EXCEPT ![j].state = "waiting", ![j].stalled = job[j].stalled + 1]
    BY <2>1, <2>2, <2>4 DEF JobTypes, JobState
  <2> QED
    BY <2>3, <2>4 DEF Stall, StallOut
<1>3. /\ run' \in [Jobs -> [Runs -> RunState]]
      /\ \A i \in Jobs, s \in Runs : RunIsSound(run[i][s])'
  <2>1. CASE run' = run
    BY <2>1 DEF Stall, Sound, TypeOK, RunState, RunIsSound, Received, platformVars
  <2>2. CASE run' = dead
    BY <2>2, OverStep DEF Stall
  <2> QED
    BY <1>1, <2>1, <2>2
<1> QED
  BY <1>2, <1>3 DEF Stall, Sound, TypeOK, SentIsReceived, JobTypes, JobState, RunState, rowVars,
                    platformVars

(* The steps that touch neither a run nor the platform. *)
LEMMA AroundSound ==
  ASSUME DeliveryAssumption, Sound, Receipt \/ OwnershipChanges
           \/ \E j \in Jobs : MarkDeliveryFailed(j) \/ AskToResend(j) \/ Resend(j)
  PROVE  Sound'
<1>1. /\ UNCHANGED <<sentParts, token, run, platformVars>>
      /\ status' = status \/ status' \in {"delivered", "read", "failed", "queued"}
      /\ aiOwns' \in BOOLEAN
  BY DEF Receipt, OwnershipChanges, MarkDeliveryFailed, AskToResend, Resend, Resends, rowVars,
         Sound, TypeOK
<1>2. job' \in JobTypes
  <2>1. job \in JobTypes
    BY DEF Sound, TypeOK, JobTypes, JobState
  <2>2. job' = job \/ \E j \in Jobs, to \in {"settled", "asked", "waiting", "refused"} :
                       job' = [job EXCEPT ![j].state = to]
    BY DEF Receipt, OwnershipChanges, MarkDeliveryFailed, AskToResend, Resend, Resends
  <2> QED
    BY <2>1, <2>2 DEF JobTypes, JobState
<1>3. \A i \in Jobs, s \in Runs : RunIsSound(run[i][s])'
  BY <1>1 DEF Sound, RunIsSound, Received, platformVars
<1> QED
  BY <1>1, <1>2, <1>3 DEF Sound, TypeOK, SentIsReceived, JobTypes, JobState, platformVars

-----------------------------------------------------------------------------
(* The steps of a run. *)

(* A run that ends: what it leaves in the row is all that matters. *)
LEMMA EndSound ==
  ASSUME DeliveryAssumption, Sound, NEW j \in Jobs, NEW r \in Runs,
         run' = [run EXCEPT ![j][r] = Over], job' \in JobTypes,
         UNCHANGED <<sentParts, aiOwns, token, platformVars>>,
         status' \in {"sent", "failed", "queued", "canceled", "uncertain"},
         status' = "sent" => run[j][r].at = "mark"
  PROVE  Sound'
<1>1. /\ run' \in [Jobs -> [Runs -> RunState]]
      /\ \A i \in Jobs, s \in Runs : RunIsSound(run[i][s])'
  BY OverStep
<1>2. status' = "sent" => \A p \in 1..Parts : taken[p] >= 1
  <2> SUFFICES ASSUME status' = "sent" PROVE \A p \in 1..Parts : taken[p] >= 1
    OBVIOUS
  <2>1. run[j][r].at = "mark" /\ RunIsSound(run[j][r])
    BY DEF Sound
  <2> QED
    BY <2>1, CountersAreNatural DEF RunIsSound, Received
<1> QED
  BY <1>1, <1>2 DEF Sound, TypeOK, SentIsReceived, JobTypes, JobState, RunState, platformVars

LEMMA LastStepSound ==
  ASSUME DeliveryAssumption, Sound, NEW j \in Jobs, NEW r \in Runs,
         Withhold(j, r) \/ MarkSent(j, r) \/ RecordFailure(j, r) \/ RecordUncertain(j, r)
  PROVE  Sound'
<1>1. \E from : Finish(j, r, from) \/ Fail(j, r, from)
  BY DEF Withhold, MarkSent, RecordFailure, RecordUncertain
<1>2. run' = [run EXCEPT ![j][r] = Over] /\ job' \in JobTypes
  BY <1>1, FinishTypes, FailTypes DEF Sound
<1>3. /\ UNCHANGED <<sentParts, aiOwns, token, platformVars>>
      /\ status' \in {"sent", "failed", "queued", "canceled", "uncertain"}
      /\ status' = "sent" => run[j][r].at = "mark"
  BY DEF Withhold, MarkSent, RecordFailure, RecordUncertain, Finish
<1> QED
  BY <1>2, <1>3, EndSound

(* A run that moves, without a word to the platform or to the row. *)
LEMMA MoveSound ==
  ASSUME DeliveryAssumption, Sound, NEW j \in Jobs, NEW r \in Runs, NEW n \in RunState,
         run' = [run EXCEPT ![j][r] = n], RunIsSound(n), token' \in BOOLEAN,
         UNCHANGED <<job, rowVars, aiOwns, platformVars>>
  PROVE  Sound'
<1>1. /\ run' \in [Jobs -> [Runs -> RunState]]
      /\ \A i \in Jobs, s \in Runs : RunIsSound(run[i][s])'
  BY QuietStep
<1> QED
  BY <1>1 DEF Sound, TypeOK, SentIsReceived, RunState, rowVars, platformVars

LEMMA RunIsTyped ==
  ASSUME Sound, NEW j \in Jobs, NEW r \in Runs
  PROVE  run[j][r] \in RunState /\ RunIsSound(run[j][r])
BY DEF Sound, TypeOK, RunState

LEMMA LoadSound ==
  ASSUME DeliveryAssumption, Sound, NEW j \in Jobs, NEW r \in Runs, Load(j, r)
  PROVE  Sound'
<1>1. CASE Finish(j, r, "load")
  <2>1. run' = [run EXCEPT ![j][r] = Over] /\ job' \in JobTypes
    BY <1>1, FinishTypes DEF Sound
  <2>2. /\ run' \in [Jobs -> [Runs -> RunState]]
        /\ \A i \in Jobs, s \in Runs : RunIsSound(run[i][s])'
    BY <2>1, OverStep DEF Load
  <2> QED
    BY <2>1, <2>2 DEF Load, Sound, TypeOK, SentIsReceived, JobTypes, JobState, RunState,
                      rowVars, platformVars
<1>2. CASE /\ run' = [run EXCEPT ![j][r].at = "gate", ![j][r].next = sentParts + 1]
           /\ UNCHANGED job
  <2> DEFINE n == [run[j][r] EXCEPT !.at = "gate", !.next = sentParts + 1]
  <2>1. run' = [run EXCEPT ![j][r] = n]
    BY <1>2
  <2>2. sentParts \in 0..Parts /\ sentParts + 1 \in 1..(Parts + 1) /\ "gate" \in Going
    BY CountersAreNatural DEF Sound, TypeOK, Going, Outside
  <2>3. n \in RunState
    BY <2>2, RunIsTyped, RunFields
  <2>4. n.next = sentParts + 1 /\ n.at = "gate"
    BY RunIsTyped DEF RunState
  <2>5. RunIsSound(n)
    BY <2>2, <2>4, CountersAreNatural DEF RunIsSound, Received, Sound, SentIsReceived
  <2>6. UNCHANGED <<job, rowVars, aiOwns, platformVars>> /\ token' \in BOOLEAN
    BY <1>2 DEF Load, Sound, TypeOK
  <2> QED
    BY <2>1, <2>3, <2>5, <2>6, MoveSound
<1> QED
  BY <1>1, <1>2 DEF Load

LEMMA GotoSound ==
  ASSUME DeliveryAssumption, Sound, NEW j \in Jobs, NEW r \in Runs,
         Gate(j, r) \/ WriteFails(j, r)
  PROVE  Sound'
<1>1. PICK to \in {"token", "withhold", "failing"} : \E from : Goto(j, r, from, to)
  BY DEF Gate, WriteFails
<1> DEFINE n == [run[j][r] EXCEPT !.at = to]
<1>2. run' = [run EXCEPT ![j][r] = n] /\ UNCHANGED job
  BY <1>1 DEF Goto
<1>3. to \in Going /\ to \notin {"send", "record", "mark"}
  BY DEF Going, Outside
<1>4. n \in RunState /\ n.at = to /\ n.next = run[j][r].next
  BY <1>3, RunIsTyped, RunFields DEF RunState
<1>5. RunIsSound(n)
  BY <1>3, <1>4, RunIsTyped DEF RunIsSound
<1> QED
  BY <1>2, <1>4, <1>5, MoveSound DEF Gate, WriteFails, Sound, TypeOK

LEMMA ClaimTokenSound ==
  ASSUME DeliveryAssumption, Sound, NEW j \in Jobs, NEW r \in Runs, ClaimToken(j, r)
  PROVE  Sound'
<1> DEFINE to == IF run[j][r].next > Parts THEN "mark" ELSE "send"
<1>1. PICK claims \in BOOLEAN :
        /\ token' = (token /\ ~claims)
        /\ run' = [run EXCEPT ![j][r].token = claims, ![j][r].at = to]
  BY DEF ClaimToken
<1> DEFINE n == [run[j][r] EXCEPT !.token = claims, !.at = to]
<1>2. run' = [run EXCEPT ![j][r] = n]
  BY <1>1
<1>3. to \in Going /\ to # "record"
  BY DEF Going, InTry
<1>4. n \in RunState
  BY <1>3, RunIsTyped, RunFields
<1>5. n.at = to /\ n.next = run[j][r].next /\ n.next \in 1..(Parts + 1)
  BY RunIsTyped DEF RunState
<1>6. RunIsSound(n)
  BY <1>5, RunIsTyped, CountersAreNatural DEF RunIsSound
<1> QED
  BY <1>1, <1>2, <1>4, <1>6, MoveSound DEF ClaimToken

LEMMA RecordUnitSound ==
  ASSUME DeliveryAssumption, Sound, NEW j \in Jobs, NEW r \in Runs, RecordUnit(j, r)
  PROVE  Sound'
<1> DEFINE p == run[j][r].next
           to == IF p = Parts THEN "mark" ELSE "send"
           n == [run[j][r] EXCEPT !.at = to, !.next = p + 1]
<1>1. run' = [run EXCEPT ![j][r] = n] /\ sentParts' = p
  BY DEF RecordUnit
<1>2. p \in 1..Parts /\ Received(p)
  BY RunIsTyped, CountersAreNatural DEF RunIsSound, Received, RecordUnit, RunState
<1>3. to \in Going /\ to # "record" /\ p + 1 \in 1..(Parts + 1)
  BY <1>2, CountersAreNatural DEF Going, InTry
<1>4. n \in RunState
  BY <1>3, RunIsTyped, RunFields
<1>5. n.at = to /\ n.next = p + 1
  BY RunIsTyped DEF RunState
<1>6. RunIsSound(n)
  <2>1. n.next - 1 = p
    BY <1>2, <1>5
  <2> QED
    BY <1>2, <1>5, <2>1, CountersAreNatural DEF RunIsSound
<1>7. /\ run' \in [Jobs -> [Runs -> RunState]]
      /\ \A i \in Jobs, s \in Runs : RunIsSound(run[i][s])'
  BY <1>1, <1>4, <1>6, QuietStep DEF RecordUnit
<1>8. sentParts' \in 0..Parts /\ \A q \in 1..sentParts' : taken[q] >= 1
  BY <1>1, <1>2, CountersAreNatural DEF Received
<1> QED
  BY <1>7, <1>8 DEF RecordUnit, Sound, TypeOK, SentIsReceived, RunState, platformVars

(* The customer never loses what was received, and LINE knows a key only    *)
(* from a part it has taken.                                                *)
LEMMA TakeGrows ==
  ASSUME DeliveryAssumption, Sound, NEW p \in 1..Parts, NEW key \in BOOLEAN, Take(p, key)
  PROVE  /\ taken' \in [1..Parts -> Nat] /\ keyed' \subseteq 1..Parts
         /\ \A q \in 1..Parts : taken'[q] >= taken[q]
         /\ \A q \in keyed' : taken'[q] >= 1
         /\ taken'[p] >= 1
<1>1. taken \in [1..Parts -> Nat] /\ keyed \subseteq 1..Parts /\ \A q \in keyed : taken[q] >= 1
  BY DEF Sound, TypeOK
<1>2. CASE key /\ p \in keyed
  BY <1>1, <1>2 DEF Take
<1>3. CASE ~(key /\ p \in keyed)
  BY <1>1, <1>3 DEF Take
<1> QED
  BY <1>2, <1>3

(* A run that has spoken to the platform stands where it stood, or behind   *)
(* the part the platform has taken.                                         *)
LEMMA SpokenSound ==
  ASSUME DeliveryAssumption, Sound, NEW j \in Jobs, NEW r \in Runs, NEW n \in RunState,
         run[j][r].at = "send", run' = [run EXCEPT ![j][r] = n],
         n.next = run[j][r].next, n.at # "mark", n.at = "record" => taken'[n.next] >= 1,
         taken' \in [1..Parts -> Nat], keyed' \subseteq 1..Parts,
         \A q \in 1..Parts : taken'[q] >= taken[q], \A q \in keyed' : taken'[q] >= 1,
         UNCHANGED <<job, rowVars, aiOwns, token>>
  PROVE  Sound'
<1>1. run \in [Jobs -> [Runs -> RunState]] /\ taken \in [1..Parts -> Nat]
  BY DEF Sound, TypeOK, RunState
<1>2. run' \in [Jobs -> [Runs -> RunState]]
  BY <1>1
<1>3. \A m \in Nat : Received(m) => Received(m)'
  BY <1>1 DEF Received
<1>4. \A i \in Jobs, s \in Runs : RunIsSound(run[i][s])'
  <2> SUFFICES ASSUME NEW i \in Jobs, NEW s \in Runs
               PROVE  RunIsSound(run[i][s])'
    OBVIOUS
  <2>1. /\ run[i][s] \in RunState /\ RunIsSound(run[i][s])
        /\ run[i][s].next \in 1..(Parts + 1) /\ run[i][s].next - 1 \in Nat
    BY <1>1, CountersAreNatural DEF Sound, RunState
  <2>2. CASE run'[i][s] = run[i][s]
    BY <1>1, <1>3, <2>1, <2>2, CountersAreNatural DEF RunIsSound
  <2>3. CASE run'[i][s] = n /\ i = j /\ s = r
    BY <1>3, <2>1, <2>3 DEF RunIsSound
  <2> QED
    BY <1>1, <2>2, <2>3
<1>5. SentIsReceived'
  <2>1. \A q \in 1..Parts : taken[q] >= 1 => taken'[q] >= 1
    BY <1>1
  <2>2. \A q \in 1..sentParts : q \in 1..Parts
    BY CountersAreNatural DEF Sound, TypeOK
  <2> QED
    BY <2>1, <2>2 DEF Sound, SentIsReceived, rowVars
<1> QED
  BY <1>2, <1>4, <1>5 DEF Sound, TypeOK, RunState, rowVars

LEMMA SendSound ==
  ASSUME DeliveryAssumption, Sound, NEW j \in Jobs, NEW r \in Runs, Send(j, r)
  PROVE  Sound'
<1> DEFINE p == run[j][r].next
<1>1. /\ run[j][r] \in RunState /\ run[j][r].at = "send" /\ p \in 1..Parts
      /\ UNCHANGED <<job, rowVars, aiOwns, token>>
  <2>1. run[j][r].at = "send" /\ UNCHANGED job
    BY DEF Send, Reply, Push, Request, Goto
  <2> QED
    BY <2>1, RunIsTyped, CountersAreNatural DEF Send, RunIsSound, RunState
<1>2. \/ /\ \/ Take(p, TRUE) \/ Take(p, FALSE)
            \/ UNCHANGED platformVars
         /\ \E to \in {"failing", "uncertain"} : run' = [run EXCEPT ![j][r].at = to]
      \/ /\ Take(p, TRUE) \/ Take(p, FALSE)
         /\ run' = [run EXCEPT ![j][r].at = "record"]
      \/ run' = [run EXCEPT ![j][r].token = FALSE] /\ UNCHANGED platformVars
  BY DEF Send, Reply, Push, Request, Goto
<1>3. /\ taken' \in [1..Parts -> Nat] /\ keyed' \subseteq 1..Parts
      /\ \A q \in 1..Parts : taken'[q] >= taken[q]
      /\ \A q \in keyed' : taken'[q] >= 1
  <2>1. CASE UNCHANGED platformVars
    BY <2>1 DEF Sound, TypeOK, platformVars
  <2>2. CASE Take(p, TRUE) \/ Take(p, FALSE)
    BY <1>1, <2>2, TakeGrows
  <2> QED
    BY <1>2, <2>1, <2>2
<1>4. PICK n \in RunState :
        /\ run' = [run EXCEPT ![j][r] = n]
        /\ n.next = p /\ n.at # "mark"
        /\ n.at = "record" => taken'[p] >= 1
  <2>1. CASE \E to \in {"failing", "uncertain"} : run' = [run EXCEPT ![j][r].at = to]
    <3>1. PICK to \in {"failing", "uncertain"} : run' = [run EXCEPT ![j][r].at = to]
      BY <2>1
    <3> DEFINE m == [run[j][r] EXCEPT !.at = to]
    <3>2. m \in RunState
      BY <1>1, RunFields DEF Going, Outside
    <3>3. m.next = p /\ m.at = to
      BY <1>1 DEF RunState
    <3>4. run' = [run EXCEPT ![j][r] = m]
      BY <3>1
    <3> QED
      BY <3>2, <3>3, <3>4
  <2>2. CASE (Take(p, TRUE) \/ Take(p, FALSE)) /\ run' = [run EXCEPT ![j][r].at = "record"]
    <3> DEFINE m == [run[j][r] EXCEPT !.at = "record"]
    <3>1. m \in RunState
      BY <1>1, RunFields DEF Going, InTry
    <3>2. m.next = p /\ m.at = "record" /\ taken'[p] >= 1
      BY <1>1, <2>2, TakeGrows DEF RunState
    <3> QED
      BY <2>2, <3>1, <3>2
  <2>3. CASE run' = [run EXCEPT ![j][r].token = FALSE]
    <3> DEFINE m == [run[j][r] EXCEPT !.token = FALSE]
    <3>1. m \in RunState
      BY <1>1, RunFields
    <3>2. m.next = p /\ m.at = "send"
      BY <1>1 DEF RunState
    <3>3. run' = [run EXCEPT ![j][r] = m]
      BY <2>3
    <3> QED
      BY <3>1, <3>2, <3>3
  <2> QED
    BY <1>2, <2>1, <2>2, <2>3
<1> QED
  BY <1>1, <1>3, <1>4, SpokenSound

-----------------------------------------------------------------------------

LEMMA SoundStep ==
  ASSUME DeliveryAssumption, Sound, [Next]_vars
  PROVE  Sound'
<1>1. CASE \E j \in Jobs, r \in Runs : Run(j, r) \/ Throw(j, r) \/ WriteFails(j, r)
  BY <1>1, LoadSound, GotoSound, ClaimTokenSound, SendSound, RecordUnitSound, LastStepSound,
     ThrowSound DEF Run
<1>2. CASE \E j \in Jobs : StartRun(j) \/ Stall(j)
  BY <1>2, StartRunSound, StallSound
<1>3. CASE \/ Receipt \/ OwnershipChanges
           \/ \E j \in Jobs : MarkDeliveryFailed(j) \/ AskToResend(j) \/ Resend(j)
  BY <1>3, AroundSound
<1>4. CASE UNCHANGED vars
  BY <1>4 DEF vars, Sound, TypeOK, SentIsReceived, RunIsSound, Received
<1> QED
  BY <1>1, <1>2, <1>3, <1>4 DEF Next

(* What runs and LINE remember of a message is true of it. *)
THEOREM AlwaysSound ==
  ASSUME DeliveryAssumption
  PROVE  Spec => []Sound
<1>1. Init => Sound
  BY SoundInit
<1>2. Sound /\ [Next]_vars => Sound'
  BY SoundStep
<1> QED
  BY <1>1, <1>2, PTL DEF Spec

(* Every variable of the delivery keeps its type. *)
THEOREM TypeCorrect ==
  ASSUME DeliveryAssumption
  PROVE  Spec => []TypeOK
<1>1. Sound => TypeOK
  BY DEF Sound
<1> QED
  BY <1>1, AlwaysSound, PTL

(* What the delivery marks as sent the customer has, every part of it, and  *)
(* a retry skips only what the customer has.                                *)
THEOREM SentMeansReceived ==
  ASSUME DeliveryAssumption
  PROVE  Spec => []SentIsReceived
<1>1. Sound => SentIsReceived
  BY DEF Sound
<1> QED
  BY <1>1, AlwaysSound, PTL

-----------------------------------------------------------------------------
(* LINE, and a conversation without a reply token. *)

(* What the customer has of a part is what LINE's memory of its key says:   *)
(* no run has a token, so every part goes out under its key.                *)
Keyed ==
  /\ token = FALSE
  /\ \A j \in Jobs, r \in Runs : run[j][r].token = FALSE
  /\ \A p \in 1..Parts : taken[p] = IF p \in keyed THEN 1 ELSE 0

(* A step of a run, by what it makes of the run. *)
Moves(j, r) ==
  \/ run' = [run EXCEPT ![j][r] = Over]
  \/ \E to : run' = [run EXCEPT ![j][r].at = to]
  \/ \E to, n : run' = [run EXCEPT ![j][r].at = to, ![j][r].next = n]
  \/ \E to : run' = [run EXCEPT ![j][r].token = FALSE, ![j][r].at = to]

LEMMA RunMoves ==
  ASSUME Keyed, NEW j \in Jobs, NEW r \in Runs,
         Run(j, r) \/ Throw(j, r) \/ WriteFails(j, r)
  PROVE  Moves(j, r)
<1> USE DEF Moves
<1>1. CASE \E from : Finish(j, r, from) \/ Fail(j, r, from)
  BY <1>1 DEF Finish, Fail
<1>2. CASE \E from, to : Goto(j, r, from, to)
  BY <1>2 DEF Goto
<1>3. CASE Load(j, r)
  BY <1>3 DEF Load, Finish
<1>4. CASE ClaimToken(j, r)
  BY <1>4 DEF ClaimToken, Keyed
<1>5. CASE RecordUnit(j, r)
  BY <1>5 DEF RecordUnit
<1>6. CASE Send(j, r)
  <2>1. ~(run[j][r].next = 1 /\ run[j][r].token)
    BY DEF Keyed
  <2> QED
    BY <1>2, <1>6, <2>1 DEF Send, Reply, Push, Request
<1>7. CASE Gate(j, r) \/ WriteFails(j, r)
  BY <1>2, <1>7 DEF Gate, WriteFails
<1>8. CASE Withhold(j, r) \/ MarkSent(j, r) \/ RecordFailure(j, r) \/ RecordUncertain(j, r)
           \/ Throw(j, r)
  BY <1>1, <1>8 DEF Withhold, MarkSent, RecordFailure, RecordUncertain, Throw
<1> QED
  BY <1>3, <1>4, <1>5, <1>6, <1>7, <1>8 DEF Run

LEMMA NoTokenToClaim ==
  ASSUME Sound, Keyed, NEW j \in Jobs, NEW r \in Runs, Run(j, r) \/ Throw(j, r) \/ WriteFails(j, r)
  PROVE  token' = FALSE /\ \A i \in Jobs, s \in Runs : run'[i][s].token = FALSE
<1>0. /\ run \in [Jobs -> [Runs -> RunState]] /\ Over.token = FALSE
      /\ \A i \in Jobs, s \in Runs : run[i][s].token = FALSE
      /\ token = FALSE
  BY DEF Sound, TypeOK, RunState, Over, Idle, Keyed
<1>1. \A i \in Jobs, s \in Runs : run'[i][s].token = FALSE
  <2>1. CASE run' = [run EXCEPT ![j][r] = Over]
    BY <1>0, <2>1
  <2>2. CASE \E to : run' = [run EXCEPT ![j][r].at = to]
    BY <1>0, <2>2 DEF RunState
  <2>3. CASE \E to, n : run' = [run EXCEPT ![j][r].at = to, ![j][r].next = n]
    BY <1>0, <2>3 DEF RunState
  <2>4. CASE \E to : run' = [run EXCEPT ![j][r].token = FALSE, ![j][r].at = to]
    BY <1>0, <2>4 DEF RunState
  <2>5. Moves(j, r)
    BY RunMoves
  <2> QED
    BY <2>1, <2>2, <2>3, <2>4, <2>5 DEF Moves
<1>2. token' = FALSE
  <2>1. CASE ClaimToken(j, r)
    BY <1>0, <2>1 DEF ClaimToken
  <2>2. CASE ~ClaimToken(j, r)
    BY <1>0, <2>2 DEF Run, Load, Gate, Withhold, Send, RecordUnit, MarkSent, RecordFailure,
                      RecordUncertain, Throw, WriteFails
  <2> QED
    BY <2>1, <2>2
<1> QED
  BY <1>1, <1>2

LEMMA TokensStayAway ==
  ASSUME DeliveryAssumption, Sound, Keyed, [Next]_vars
  PROVE  token' = FALSE /\ \A j \in Jobs, r \in Runs : run'[j][r].token = FALSE
<1>1. run \in [Jobs -> [Runs -> RunState]]
  BY DEF Sound, TypeOK, RunState
<1>2. Idle.token = FALSE /\ Over.token = FALSE
  BY DEF Idle, Over
<1>3. CASE \E j \in Jobs, r \in Runs : Run(j, r) \/ Throw(j, r) \/ WriteFails(j, r)
  BY <1>3, NoTokenToClaim
<1>4. CASE \E j \in Jobs : StartRun(j)
  <2>1. \A b : [Idle EXCEPT !.at = "load", !.final = b].token = FALSE
    BY DEF Idle
  <2> QED
    BY <1>1, <1>4, <2>1 DEF StartRun, Keyed
<1>5. CASE \E j \in Jobs : Stall(j)
  BY <1>1, <1>2, <1>5 DEF Stall, StallOut, Keyed
<1>6. CASE \/ Receipt \/ OwnershipChanges \/ UNCHANGED vars
           \/ \E j \in Jobs : MarkDeliveryFailed(j) \/ AskToResend(j) \/ Resend(j)
  BY <1>6 DEF Receipt, OwnershipChanges, MarkDeliveryFailed, AskToResend, Resend, Resends, vars,
              Keyed
<1> QED
  BY <1>3, <1>4, <1>5, <1>6 DEF Next

LEMMA KeyedStep ==
  ASSUME DeliveryAssumption, Channel = "line", Sound, Keyed, [Next]_vars
  PROVE  Keyed'
<1>1. \/ UNCHANGED platformVars
      \/ \E p \in 1..Parts : Take(p, TRUE)
  <2>1. CASE \E j \in Jobs, r \in Runs : Send(j, r)
    <3>1. PICK j \in Jobs, r \in Runs : Send(j, r)
      BY <2>1
    <3>2. Push(j, r)
      <4>1. ~(run[j][r].next = 1 /\ run[j][r].token)
        BY DEF Keyed
      <4> QED
        BY <3>1, <4>1 DEF Send, Reply
    <3>3. run[j][r].next \in 1..Parts
      <4>1. run[j][r].at = "send"
        BY <3>2 DEF Push, Goto
      <4> QED
        BY <4>1, RunIsTyped, CountersAreNatural DEF RunIsSound, RunState
    <3> QED
      BY <3>2, <3>3 DEF Push
  <2>2. CASE \E j \in Jobs, r \in Runs :
               \/ Load(j, r) \/ Gate(j, r) \/ Withhold(j, r) \/ ClaimToken(j, r)
               \/ RecordUnit(j, r) \/ MarkSent(j, r) \/ RecordFailure(j, r)
               \/ RecordUncertain(j, r) \/ Throw(j, r) \/ WriteFails(j, r)
    <3>1. ASSUME NEW j \in Jobs, NEW r \in Runs, Load(j, r) \/ Gate(j, r) \/ Withhold(j, r)
          PROVE  UNCHANGED platformVars
      BY <3>1 DEF Load, Gate, Withhold
    <3>2. ASSUME NEW j \in Jobs, NEW r \in Runs, ClaimToken(j, r) \/ RecordUnit(j, r)
          PROVE  UNCHANGED platformVars
      BY <3>2, ZenonT(60) DEF ClaimToken, RecordUnit
    <3>3. ASSUME NEW j \in Jobs, NEW r \in Runs, MarkSent(j, r) \/ RecordFailure(j, r)
          PROVE  UNCHANGED platformVars
      BY <3>3 DEF MarkSent, RecordFailure
    <3>4. ASSUME NEW j \in Jobs, NEW r \in Runs,
                 RecordUncertain(j, r) \/ Throw(j, r) \/ WriteFails(j, r)
          PROVE  UNCHANGED platformVars
      BY <3>4 DEF RecordUncertain, Throw, WriteFails
    <3> QED
      BY <2>2, <3>1, <3>2, <3>3, <3>4
  <2>3. CASE \/ Receipt \/ OwnershipChanges \/ UNCHANGED vars
             \/ \E j \in Jobs : \/ StartRun(j) \/ Stall(j) \/ MarkDeliveryFailed(j)
                               \/ AskToResend(j) \/ Resend(j)
    BY <2>3 DEF Receipt, OwnershipChanges, StartRun, Stall, MarkDeliveryFailed, AskToResend,
                Resend, Resends, vars, platformVars
  <2> QED
    BY <2>1, <2>2, <2>3 DEF Next, Run
<1>2. \A p \in 1..Parts : taken'[p] = IF p \in keyed' THEN 1 ELSE 0
  BY <1>1 DEF Take, platformVars, Keyed, Sound, TypeOK
<1> QED
  BY <1>2, TokensStayAway DEF Keyed

(* Without a reply token LINE shows every part at most once, through any    *)
(* attempts, stalls, runs that go on beside each other and resends.         *)
THEOREM LineOnce ==
  ASSUME DeliveryAssumption, ReplyToken = FALSE
  PROVE  Spec => []LineDeliversOnce
<1>1. CASE Channel = "line"
  <2>1. Init => Keyed
    BY DEF Init, Keyed, Idle
  <2>2. Sound /\ Keyed /\ [Next]_vars => Keyed'
    BY <1>1, KeyedStep
  <2>3. Keyed => LineDeliversOnce
    BY DEF Keyed, LineDeliversOnce
  <2> QED
    BY <2>1, <2>2, <2>3, AlwaysSound, PTL DEF Spec
<1>2. CASE Channel # "line"
  <2>1. LineDeliversOnce
    BY <1>2 DEF LineDeliversOnce
  <2> QED
    BY <2>1, PTL
<1> QED
  BY <1>1, <1>2

-----------------------------------------------------------------------------
(* One job has the message, where a run stops with its job and an agent     *)
(* comes after the hook.                                                    *)

Live(j) == job[j].state \in {"waiting", "active", "failed"}

(* A job is the message's from its queueing to its hook.  A message that is *)
(* closed has no job, and only the current run of a job goes on, knowing    *)
(* whether it is the last.                                                  *)
OneLiveJob == \A i, j \in Jobs : Live(i) /\ Live(j) => i = j
ClosedHasNoJob ==
  status \in {"failed", "canceled", "uncertain"} =>
    \A j \in Jobs : job[j].state \notin {"waiting", "active"}
RunsAreCurrent ==
  \A j \in Jobs, r \in Runs : run[j][r].at \in Going =>
    /\ job[j].state = "active" /\ job[j].runs = r
    /\ run[j][r].final <=> job[j].failed + 1 >= MaxAttempts
Owned == OneLiveJob /\ ClosedHasNoJob /\ RunsAreCurrent

LEMMA Typed ==
  ASSUME Sound
  PROVE  /\ job \in JobTypes /\ run \in [Jobs -> [Runs -> RunState]]
         /\ Idle.at \notin Going /\ Over.at \notin Going
BY DEF Sound, TypeOK, JobTypes, JobState, RunState, Idle, Over, Going, InTry, Outside

LEMMA OwnedInit ==
  ASSUME DeliveryAssumption, Init
  PROVE  Owned
BY DEF Init, Owned, OneLiveJob, ClosedHasNoJob, RunsAreCurrent, Live, Idle, Going, InTry, Outside

LEMMA StartRunOwned ==
  ASSUME Sound, Owned, NEW j \in Jobs, StartRun(j)
  PROVE  Owned'
<1> DEFINE k == job[j].runs + 1
           n == [Idle EXCEPT !.at = "load", !.final = job[j].failed + 1 >= MaxAttempts]
<1>1. /\ \A i \in Jobs : i # j => job'[i] = job[i]
      /\ job[j].state = "waiting" /\ job'[j].state = "active" /\ job'[j].runs = k
      /\ job'[j].failed = job[j].failed
  BY Typed DEF StartRun, JobTypes, JobState
<1>2. OneLiveJob' /\ ClosedHasNoJob'
  BY <1>1 DEF Owned, OneLiveJob, ClosedHasNoJob, Live, StartRun, rowVars
<1>3. n.final <=> job[j].failed + 1 >= MaxAttempts
  BY DEF Idle
<1>4. \A i \in Jobs, r \in Runs : run'[i][r] = IF i = j /\ r = k THEN n ELSE run[i][r]
  BY Typed DEF StartRun
<1>5. RunsAreCurrent'
  <2> SUFFICES ASSUME NEW i \in Jobs, NEW r \in Runs, run'[i][r].at \in Going
               PROVE  /\ job'[i].state = "active" /\ job'[i].runs = r
                      /\ run'[i][r].final <=> job'[i].failed + 1 >= MaxAttempts
    BY DEF RunsAreCurrent
  <2> HIDE DEF n
  <2>1. CASE i = j /\ r = k
    BY <1>1, <1>3, <1>4, <2>1
  <2>2. CASE i # j
    BY <1>1, <1>4, <2>2 DEF Owned, RunsAreCurrent
  <2>3. CASE i = j /\ r # k
    BY <1>1, <1>4, <2>3 DEF Owned, RunsAreCurrent
  <2> QED
    BY <2>1, <2>2, <2>3
<1> QED
  BY <1>2, <1>5 DEF Owned

(* The current run ends, its job with it, one way or another. *)
LEMMA EndOwned ==
  ASSUME Sound, Owned, NEW j \in Jobs, NEW r,
         job[j].state = "active", job[j].runs = r,
         run' = [run EXCEPT ![j][r] = Over],
         DOMAIN job' = Jobs, \A i \in Jobs : i # j => job'[i] = job[i],
         job'[j].state \in {"completed", "waiting", "failed"},
         status' \in {"failed", "canceled", "uncertain"} => job'[j].state \notin {"waiting", "active"}
  PROVE  Owned'
<1>1. \A i \in Jobs : Live(i) => i = j
  BY DEF Owned, OneLiveJob, Live
<1>2. \A i \in Jobs : Live(i)' => i = j
  BY <1>1 DEF Live
<1>3. OneLiveJob' /\ ClosedHasNoJob'
  BY <1>1, <1>2 DEF OneLiveJob, ClosedHasNoJob, Live
<1>4. \A i \in Jobs, s \in Runs : run'[i][s].at \in Going => run'[i][s] = run[i][s] /\ i # j
  BY Typed DEF Owned, RunsAreCurrent
<1>5. RunsAreCurrent'
  BY <1>4 DEF Owned, RunsAreCurrent
<1> QED
  BY <1>3, <1>5 DEF Owned

LEMMA GoingIsCurrent ==
  ASSUME Owned, NEW j \in Jobs, NEW r \in Runs, run[j][r].at \in Going
  PROVE  /\ job[j].state = "active" /\ job[j].runs = r /\ IsCurrent(j, r)
         /\ run[j][r].final <=> job[j].failed + 1 >= MaxAttempts
         /\ status \notin {"failed", "canceled", "uncertain"}
BY DEF Owned, RunsAreCurrent, ClosedHasNoJob, IsCurrent

LEMMA StallOwned ==
  ASSUME Zombies = FALSE, Sound, Owned, NEW j \in Jobs, Stall(j)
  PROVE  Owned'
<1>1. run' = [run EXCEPT ![j][job[j].runs] = Over]
  BY DEF Stall, StallOut
<1>2. job[j].state = "active" /\ status' = status
  BY DEF Stall, rowVars
<1>3. /\ DOMAIN job' = Jobs /\ \A i \in Jobs : i # j => job'[i] = job[i]
      /\ job'[j].state \in {"waiting", "failed"}
  BY Typed DEF Stall, StallOut, JobTypes, JobState
<1>4. status \notin {"failed", "canceled", "uncertain"}
  BY <1>2 DEF Owned, ClosedHasNoJob
<1> QED
  BY <1>1, <1>2, <1>3, <1>4, EndOwned

LEMMA FinishOwned ==
  ASSUME Sound, Owned, NEW j \in Jobs, NEW r \in Runs, NEW from \in Going, Finish(j, r, from)
  PROVE  Owned'
<1>1. job[j].state = "active" /\ job[j].runs = r /\ IsCurrent(j, r)
  BY GoingIsCurrent DEF Finish
<1>2. /\ DOMAIN job' = Jobs /\ \A i \in Jobs : i # j => job'[i] = job[i]
      /\ job'[j].state = "completed"
  BY <1>1, Typed DEF Finish, JobTypes, JobState
<1>3. run' = [run EXCEPT ![j][r] = Over]
  BY DEF Finish
<1> QED
  BY <1>1, <1>2, <1>3, EndOwned

LEMMA FailOwned ==
  ASSUME DeliveryAssumption, Sound, Owned, NEW j \in Jobs, NEW r \in Runs, NEW from \in Going,
         Fail(j, r, from),
         \/ status' = status
         \/ status' = IF run[j][r].final THEN "failed" ELSE "queued"
  PROVE  Owned'
<1>1. /\ job[j].state = "active" /\ job[j].runs = r /\ IsCurrent(j, r)
      /\ status \notin {"failed", "canceled", "uncertain"}
      /\ run[j][r].final <=> job[j].failed + 1 >= MaxAttempts
  BY GoingIsCurrent DEF Fail
<1>2. job \in JobTypes /\ job[j].failed + 1 \in Nat /\ MaxAttempts \in Nat
  BY Typed DEF JobTypes, JobState, DeliveryAssumption
<1>3. /\ DOMAIN job' = Jobs /\ \A i \in Jobs : i # j => job'[i] = job[i]
      /\ \/ job'[j].state = "waiting" /\ job[j].failed + 1 < MaxAttempts
         \/ job'[j].state = "failed"
  BY <1>1, <1>2 DEF Fail, JobTypes, JobState
<1>4. run' = [run EXCEPT ![j][r] = Over]
  BY DEF Fail
<1>5. status' \in {"failed", "canceled", "uncertain"} => job'[j].state \notin {"waiting", "active"}
  <2>1. CASE job[j].failed + 1 < MaxAttempts
    BY <1>1, <1>2, <2>1
  <2>2. CASE job'[j].state = "failed"
    BY <2>2
  <2> QED
    BY <1>3, <2>1, <2>2
<1> QED
  BY <1>1, <1>3, <1>4, <1>5, EndOwned

LEMMA RunIsGoing ==
  ASSUME NEW j \in Jobs, NEW r \in Runs, Run(j, r) \/ Throw(j, r) \/ WriteFails(j, r)
  PROVE  run[j][r].at \in Going
<1>1. CASE Load(j, r) \/ Gate(j, r) \/ Withhold(j, r) \/ ClaimToken(j, r)
  BY <1>1 DEF Load, Gate, Withhold, ClaimToken, Goto, Finish, Going, Outside
<1>2. CASE Send(j, r)
  BY <1>2 DEF Send, Reply, Push, Request, Goto, Going, InTry
<1>3. CASE RecordUnit(j, r) \/ MarkSent(j, r) \/ WriteFails(j, r)
  BY <1>3 DEF RecordUnit, MarkSent, WriteFails, Goto, Finish, Going, InTry
<1>4. CASE RecordFailure(j, r) \/ RecordUncertain(j, r) \/ Throw(j, r)
  BY <1>4 DEF RecordFailure, RecordUncertain, Throw, Finish, Fail, Going, Outside
<1> QED
  BY <1>1, <1>2, <1>3, <1>4 DEF Run

LEMMA RunOwned ==
  ASSUME DeliveryAssumption, Sound, Owned, NEW j \in Jobs, NEW r \in Runs,
         Run(j, r) \/ Throw(j, r) \/ WriteFails(j, r)
  PROVE  Owned'
<1>0. {"load", "withhold", "mark", "failing", "uncertain"} \subseteq Going /\ Outside \subseteq Going
  BY DEF Going, InTry, Outside
<1>1. CASE Withhold(j, r) \/ MarkSent(j, r) \/ RecordUncertain(j, r)
  BY <1>0, <1>1, FinishOwned DEF Withhold, MarkSent, RecordUncertain
<1>2. CASE RecordFailure(j, r)
  BY <1>0, <1>2, FailOwned DEF RecordFailure
<1>3. CASE Throw(j, r)
  BY <1>0, <1>3, FailOwned DEF Throw, rowVars
<1>4. ASSUME UNCHANGED <<job, status>>, run[j][r].at \in Going,
             NEW n, run' = [run EXCEPT ![j][r] = n], n.final = run[j][r].final
      PROVE  Owned'
  <2>1. \A i \in Jobs, s \in Runs : run'[i][s].at \in Going =>
          run[i][s].at \in Going /\ run'[i][s].final = run[i][s].final
    BY <1>4, Typed
  <2> QED
    BY <1>4, <2>1 DEF Owned, OneLiveJob, ClosedHasNoJob, RunsAreCurrent, Live
<1> DEFINE at(to) == [run[j][r] EXCEPT !.at = to]
<1>5. run[j][r] \in RunState
  BY Typed
<1>6. CASE Gate(j, r) \/ WriteFails(j, r)
  <2>0. run[j][r].at \in Going
    BY <1>6, RunIsGoing DEF Run
  <2>1. PICK to : run' = [run EXCEPT ![j][r].at = to]
    BY <1>6 DEF Gate, WriteFails, Goto
  <2>2. run' = [run EXCEPT ![j][r] = at(to)] /\ at(to).final = run[j][r].final
    BY <1>5, <2>1 DEF RunState
  <2>3. UNCHANGED <<job, status>>
    BY <1>6 DEF Gate, WriteFails, Goto, rowVars
  <2> QED
    BY <1>4, <2>0, <2>2, <2>3
<1>7. CASE Load(j, r)
  <2>1. CASE Finish(j, r, "load")
    BY <1>0, <2>1, FinishOwned
  <2>2. CASE ~Finish(j, r, "load")
    <3> DEFINE next == sentParts + 1
               n == [run[j][r] EXCEPT !.at = "gate", !.next = next]
    <3>1. run[j][r].at = "load" /\ UNCHANGED <<job, status>>
      BY <1>7, <2>2 DEF Load, rowVars
    <3>2. run' = [run EXCEPT ![j][r].at = "gate", ![j][r].next = next]
      BY <1>7, <2>2 DEF Load
    <3> HIDE DEF next
    <3>3. run' = [run EXCEPT ![j][r] = n] /\ n.final = run[j][r].final
      BY <1>5, <3>2 DEF RunState
    <3> QED
      BY <1>0, <1>4, <3>1, <3>3
  <2> QED
    BY <2>1, <2>2
<1>8. CASE ClaimToken(j, r)
  <2>1. PICK claims, to : run' = [run EXCEPT ![j][r].token = claims, ![j][r].at = to]
    BY <1>8 DEF ClaimToken
  <2> DEFINE n == [run[j][r] EXCEPT !.token = claims, !.at = to]
  <2>2. run' = [run EXCEPT ![j][r] = n] /\ n.final = run[j][r].final
    BY <1>5, <2>1 DEF RunState
  <2>3. run[j][r].at \in Going /\ UNCHANGED <<job, status>>
    BY <1>8 DEF ClaimToken, rowVars, Going, Outside
  <2> QED
    BY <1>4, <2>2, <2>3
<1>9. CASE RecordUnit(j, r)
  <2>1. PICK to, next : run' = [run EXCEPT ![j][r].at = to, ![j][r].next = next]
    BY <1>9 DEF RecordUnit
  <2> DEFINE n == [run[j][r] EXCEPT !.at = to, !.next = next]
  <2>2. run' = [run EXCEPT ![j][r] = n] /\ n.final = run[j][r].final
    BY <1>5, <2>1 DEF RunState
  <2>3. run[j][r].at \in Going /\ UNCHANGED <<job, status>>
    BY <1>9 DEF RecordUnit, Going, InTry
  <2> QED
    BY <1>4, <2>2, <2>3
<1>10. CASE Send(j, r)
  <2>1. run[j][r].at \in Going /\ UNCHANGED <<job, status>>
    BY <1>10 DEF Send, Reply, Push, Request, Goto, rowVars, Going, InTry
  <2>2. \/ \E to : run' = [run EXCEPT ![j][r].at = to]
        \/ run' = [run EXCEPT ![j][r].token = FALSE]
    BY <1>10 DEF Send, Reply, Push, Request, Goto
  <2>3. CASE \E to : run' = [run EXCEPT ![j][r].at = to]
    <3>1. PICK to : run' = [run EXCEPT ![j][r].at = to]
      BY <2>3
    <3>2. run' = [run EXCEPT ![j][r] = at(to)] /\ at(to).final = run[j][r].final
      BY <1>5, <3>1 DEF RunState
    <3> QED
      BY <1>4, <2>1, <3>2
  <2>4. CASE run' = [run EXCEPT ![j][r].token = FALSE]
    <3> DEFINE n == [run[j][r] EXCEPT !.token = FALSE]
    <3>1. run' = [run EXCEPT ![j][r] = n] /\ n.final = run[j][r].final
      BY <1>5, <2>4 DEF RunState
    <3> QED
      BY <1>4, <2>1, <3>1
  <2> QED
    BY <2>2, <2>3, <2>4
<1> QED
  BY <1>1, <1>2, <1>3, <1>6, <1>7, <1>8, <1>9, <1>10 DEF Run

LEMMA ResendOwned ==
  ASSUME LateHook = FALSE, Sound, Owned, NEW j \in Jobs, Resend(j)
  PROVE  Owned'
<1>1. CASE status = "failed"
  <2>1. \A i \in Jobs : ~Live(i)
    BY <1>1 DEF Resend, Resends, HookHasRun, Owned, ClosedHasNoJob, Live
  <2>2. status' = "queued" /\ job' = [job EXCEPT ![j].state = "waiting"] /\ UNCHANGED run
    BY <1>1 DEF Resend, Resends
  <2>3. \A i \in Jobs : i # j => job'[i] = job[i]
    BY <2>2, Typed DEF JobTypes
  <2>4. OneLiveJob' /\ ClosedHasNoJob'
    BY <2>1, <2>2, <2>3 DEF OneLiveJob, ClosedHasNoJob, Live
  <2>5. RunsAreCurrent'
    BY <2>1, <2>2 DEF Owned, RunsAreCurrent, Live
  <2> QED
    BY <2>4, <2>5 DEF Owned
<1>2. CASE status # "failed"
  <2>1. /\ job' = [job EXCEPT ![j].state = "refused"] /\ UNCHANGED <<status, run>>
        /\ job[j].state = "asked"
    BY <1>2 DEF Resend, Resends
  <2>2. \A i \in Jobs : i # j => job'[i] = job[i]
    BY <2>1, Typed DEF JobTypes
  <2>3. job'[j].state = "refused"
    BY <2>1, Typed DEF JobTypes, JobState
  <2> QED
    BY <2>1, <2>2, <2>3 DEF Owned, OneLiveJob, ClosedHasNoJob, RunsAreCurrent, Live
<1> QED
  BY <1>1, <1>2

LEMMA AroundOwned ==
  ASSUME Sound, Owned, Receipt \/ OwnershipChanges
           \/ \E j \in Jobs : MarkDeliveryFailed(j) \/ AskToResend(j)
  PROVE  Owned'
<1>1. CASE Receipt \/ OwnershipChanges
  BY <1>1 DEF Receipt, OwnershipChanges, rowVars, Owned, OneLiveJob, ClosedHasNoJob,
              RunsAreCurrent, Live
<1>2. CASE \E j \in Jobs : MarkDeliveryFailed(j)
  <2>1. PICK j \in Jobs : MarkDeliveryFailed(j)
    BY <1>2
  <2>2. /\ \A i \in Jobs : i # j => job'[i] = job[i]
        /\ job[j].state = "failed" /\ job'[j].state = "settled" /\ UNCHANGED run
    BY <2>1, Typed DEF MarkDeliveryFailed, JobTypes, JobState
  <2>3. \A i \in Jobs : Live(i) => i = j
    BY <2>2 DEF Owned, OneLiveJob, Live
  <2> QED
    BY <2>2, <2>3 DEF Owned, OneLiveJob, ClosedHasNoJob, RunsAreCurrent, Live
<1>3. CASE \E j \in Jobs : AskToResend(j)
  <2>1. PICK j \in Jobs : AskToResend(j)
    BY <1>3
  <2>2. /\ \A i \in Jobs : i # j => job'[i] = job[i]
        /\ job[j].state = "none" /\ job'[j].state = "asked" /\ UNCHANGED <<run, status>>
    BY <2>1, Typed DEF AskToResend, JobTypes, JobState, rowVars
  <2> QED
    BY <2>2 DEF Owned, OneLiveJob, ClosedHasNoJob, RunsAreCurrent, Live
<1> QED
  BY <1>1, <1>2, <1>3

(* One job and one run have the message, and none once it is closed. *)
THEOREM AlwaysOwned ==
  ASSUME DeliveryAssumption, Zombies = FALSE, LateHook = FALSE
  PROVE  Spec => []Owned
<1>1. Init => Owned
  BY OwnedInit
<1>2. Sound /\ Owned /\ [Next]_vars => Owned'
  <2> SUFFICES ASSUME Sound, Owned, [Next]_vars
               PROVE  Owned'
    OBVIOUS
  <2>1. CASE UNCHANGED vars
    BY <2>1 DEF vars, Owned, OneLiveJob, ClosedHasNoJob, RunsAreCurrent, Live
  <2> QED
    BY <2>1, StartRunOwned, StallOwned, RunOwned, ResendOwned, AroundOwned DEF Next
<1> QED
  BY <1>1, <1>2, AlwaysSound, PTL DEF Spec

(* A message recorded as failed is tried by nobody, so that sending it      *)
(* again by hand races nothing.                                             *)
THEOREM FailedForGood ==
  ASSUME DeliveryAssumption, Zombies = FALSE, LateHook = FALSE
  PROVE  Spec => []FailedIsFinal
<1>1. Owned => FailedIsFinal
  BY DEF Owned, ClosedHasNoJob, RunsAreCurrent, FailedIsFinal
<1> QED
  BY <1>1, AlwaysOwned, PTL

(* However often an agent clicks, one job at a time has the message. *)
THEOREM OneAtATime ==
  ASSUME DeliveryAssumption, Zombies = FALSE, LateHook = FALSE
  PROVE  Spec => []OneDeliveryAtATime
<1>1. Owned => OneDeliveryAtATime
  BY DEF Owned, OneLiveJob, Live, OneDeliveryAtATime
<1> QED
  BY <1>1, AlwaysOwned, PTL

(* A message withheld, or possibly delivered, is neither sent nor reopened. *)
THEOREM ClosedStaysClosed ==
  ASSUME DeliveryAssumption, Zombies = FALSE, LateHook = FALSE
  PROVE  Spec => ClosedForGood
<1>1. Owned /\ [Next]_vars =>
        [(status \in {"canceled", "uncertain"}) => UNCHANGED <<status, taken>>]_vars
  <2> SUFFICES ASSUME Owned, Next, status \in {"canceled", "uncertain"}
               PROVE  UNCHANGED <<status, taken>>
    BY DEF vars
  <2>1. \A j \in Jobs, r \in Runs : run[j][r].at \notin Going
    BY DEF Owned, RunsAreCurrent, ClosedHasNoJob
  <2>2. ASSUME NEW j \in Jobs, NEW r \in Runs, Run(j, r) \/ Throw(j, r) \/ WriteFails(j, r)
        PROVE  FALSE
    <3>1. run[j][r].at \in Going
      BY <2>2, RunIsGoing
    <3> QED
      BY <2>1, <3>1
  <2> QED
    BY <2>2 DEF Next, StartRun, Stall, MarkDeliveryFailed, AskToResend, Resend, Resends, Receipt,
                Weaker, OwnershipChanges, rowVars, platformVars
<1> QED
  BY <1>1, AlwaysOwned, PTL DEF Spec, ClosedForGood
=============================================================================
