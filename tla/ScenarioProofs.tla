--------------------------- MODULE ScenarioProofs ---------------------------
(***************************************************************************)
(* Proofs about ScenarioFlow for every finite set of jobs and every set of *)
(* scenarios, agents and requests: the tick, the DELETE handler, the polls *)
(* and the reports interleave, and a completion is true and told once.     *)
(***************************************************************************)
EXTENDS ScenarioFlow, LifecycleProofs, FiniteSetTheorems

\* STypeOK, with the domain of announced.
STypes ==
    /\ TypeOK
    /\ scen \in [Scenario -> ScenarioStatus]
    /\ tick \in [at : {"idle", "stats", "complete", "announce"},
                 list : SUBSET Scenario,
                 on : Scenario \cup {NoScenario},
                 counts : Counts]
    /\ announced \in [Scenario -> Seq(Counts)]
    /\ deleting \in SUBSET Scenario

\* The jobs of a scenario are inserted together.
Whole(s) ==
    \/ \A j \in JobsOf(s) : status[j] = "absent"
    \/ \A j \in JobsOf(s) : status[j] # "absent"

Done(s) == \A j \in JobsOf(s) : status[j] \in Settled
FinalCounts(s) == [completed |-> CountIn(s, "completed"), failed |-> CountIn(s, "failed")]

\* A scenario the tick has still to look at, or has just found complete, has not
\* been announced: only the tick completes one.
Fresh(s) == scen[s] \in {"active", "deleted"} /\ announced[s] = <<>>

TickInv ==
    /\ \A s \in tick.list : Fresh(s) /\ s # tick.on
    /\ tick.at \in {"idle", "stats"} => tick.on = NoScenario
    /\ tick.at \in {"complete", "announce"} =>
        /\ tick.on \in Scenario
        /\ Done(tick.on) /\ tick.counts = FinalCounts(tick.on)
    /\ tick.at = "complete" => Fresh(tick.on)
    /\ tick.at = "announce" =>
        scen[tick.on] \in {"completed", "deleted"} /\ announced[tick.on] = <<>>

\* What is announced is settled, and the row is completed or gone.
Announced(s) ==
    announced[s] # <<>> =>
        /\ scen[s] \in {"completed", "deleted"}
        /\ Done(s) /\ announced[s] = <<FinalCounts(s)>>

SInv ==
    /\ STypes
    /\ FlightInv
    /\ \A s \in Scenario : Whole(s) /\ Announced(s)
    /\ CompletedMeansDone
    /\ TickInv

-----------------------------------------------------------------------------
(* Types *)

LEMMA CountType ==
    ASSUME IsFiniteSet(Job), NEW s, NEW st
    PROVE  /\ CountIn(s, st) \in Nat
           /\ IsFiniteSet({j \in JobsOf(s) : status[j] = st})
<1>1. {j \in JobsOf(s) : status[j] = st} \subseteq Job
    BY DEF JobsOf
<1> QED
    BY <1>1, FS_Subset, FS_CardinalityType DEF CountIn

LEMMA IdleType == IdleTick \in [at : {"idle", "stats", "complete", "announce"},
                                list : SUBSET Scenario,
                                on : Scenario \cup {NoScenario},
                                counts : Counts]
BY DEF IdleTick, NoCounts, Counts

LEMMA TickOnType ==
    ASSUME NEW rest \in SUBSET Scenario
    PROVE  TickOn(rest) \in [at : {"idle", "stats", "complete", "announce"},
                             list : SUBSET Scenario,
                             on : Scenario \cup {NoScenario},
                             counts : Counts]
BY DEF TickOn, IdleTick, NoCounts, Counts

\* The steps of ScenarioFlow that are steps of Dispatch, or none.
LEMMA IsDispatchStep ==
    ASSUME \/ DispatchStep \/ SOrchestratorRestart \/ UNCHANGED svars \/ UNCHANGED vars
           \/ \E s \in Scenario : CreateScenario(s) \/ ActivateScenario(s)
    PROVE  [Next]_vars
BY DEF DispatchStep, SOrchestratorRestart, svars, Next, Fault, CreateScenario, ActivateScenario

\* To Dispatch a statement of the tick that fails is a fault, and nothing else.
TickFault ==
    /\ faults < MaxFaults
    /\ faults' = faults + 1
    /\ UNCHANGED <<store, pc, todo, conn, execs>>

LEMMA TickIs == Tick => UNCHANGED vars \/ TickFault
BY DEF Tick, TickList, TickStats, TickComplete, TickAnnounce, TickSkips, TickFault

LEMMA InsertTypes ==
    ASSUME TypeOK, NEW s, CreateJobs(s)
    PROVE  TypeOK'
<1>1. JobsOf(s) \in SUBSET Job
    BY DEF JobsOf
<1>2. StoreTypeOK'
    BY <1>1, StoreType DEF CreateJobs, TypeOK
<1> QED
    BY <1>2 DEF CreateJobs, TypeOK

LEMMA DeleteTypes ==
    ASSUME TypeOK, NEW s, DeleteCancel(s) \/ DeleteRow(s) \/ TickFault
    PROVE  TypeOK'
<1> USE DispatchAssumption
<1>1. StoreTypeOK'
    BY DEF DeleteCancel, DeleteRow, TickFault, CancelJobs, TypeOK, StoreTypeOK, JobStatus, store
<1>2. faults' \in 0..MaxFaults
    BY DEF DeleteCancel, DeleteRow, TickFault, TypeOK, DispatchAssumption
<1> QED
    BY <1>1, <1>2 DEF DeleteCancel, DeleteRow, TickFault, TypeOK

LEMMA TickTypes ==
    ASSUME IsFiniteSet(Job), STypes, Tick
    PROVE  STypes'
<1>1. TypeOK'
    BY TickIs, IsDispatchStep, TypeStep, DeleteTypes DEF STypes
<1> DEFINE T == [at : {"idle", "stats", "complete", "announce"},
                 list : SUBSET Scenario,
                 on : Scenario \cup {NoScenario},
                 counts : Counts]
<1>2. tick.list \in SUBSET Scenario /\ tick.counts \in Counts
    BY DEF STypes
<1>3. CASE TickList
  <2>1. PICK listed \in Newest(Active, ListLimit) :
            tick' = [tick EXCEPT !.at = "stats", !.list = listed]
    BY <1>3 DEF TickList
  <2>2. listed \in SUBSET Scenario
    BY DEF Newest, Active
  <2>3. tick' \in T
    BY <2>1, <2>2 DEF STypes
  <2> QED
    BY <1>1, <1>3, <2>3 DEF TickList, STypes
<1>4. CASE TickStats
  <2>1. PICK s \in tick.list :
            \/ tick' = [at |-> "complete", list |-> tick.list \ {s}, on |-> s,
                        counts |-> [completed |-> CountIn(s, "completed"),
                                    failed |-> CountIn(s, "failed")]]
            \/ tick' = TickOn(tick.list \ {s})
    BY <1>4 DEF TickStats, TickSkips
  <2>2. s \in Scenario /\ tick.list \ {s} \in SUBSET Scenario
    BY <1>2
  <2>3. [completed |-> CountIn(s, "completed"), failed |-> CountIn(s, "failed")] \in Counts
    BY CountType DEF Counts
  <2>4. tick' \in T
    BY <2>1, <2>2, <2>3, TickOnType
  <2>5. scen' = scen /\ announced' = announced /\ deleting' = deleting
    BY <1>4 DEF TickStats, TickSkips
  <2> QED
    BY <1>1, <1>4, <2>4, <2>5 DEF STypes
<1>5. CASE TickComplete
  <2>1. tick' \in T
    BY <1>2, <1>5, TickOnType DEF TickComplete, TickSkips, STypes
  <2>2. scen' \in [Scenario -> ScenarioStatus]
    BY <1>5 DEF TickComplete, TickSkips, STypes, ScenarioStatus
  <2> QED
    BY <1>1, <1>5, <2>1, <2>2 DEF TickComplete, STypes
<1>6. CASE TickAnnounce
  <2>1. tick' \in T
    BY <1>2, <1>6, TickOnType DEF TickAnnounce
  <2>2. announced' \in [Scenario -> Seq(Counts)]
    <3>1. \A q \in Seq(Counts) : Append(q, tick.counts) \in Seq(Counts)
      BY <1>2
    <3> QED
      BY <1>6, <3>1 DEF TickAnnounce, STypes
  <2> QED
    BY <1>1, <1>6, <2>1, <2>2 DEF TickAnnounce, STypes
<1> QED
    BY <1>3, <1>4, <1>5, <1>6 DEF Tick

LEMMA STypeStep == IsFiniteSet(Job) /\ STypes /\ [SNext]_svars => STypes'
<1> SUFFICES ASSUME IsFiniteSet(Job), STypes, [SNext]_svars PROVE STypes'
    OBVIOUS
<1>1. CASE DispatchStep \/ UNCHANGED svars
  <2>1. TypeOK'
    BY <1>1, IsDispatchStep, TypeStep DEF STypes
  <2> QED
    BY <1>1, <2>1 DEF DispatchStep, svars, scenVars, STypes
<1>2. CASE SOrchestratorRestart
  <2>1. TypeOK'
    BY <1>2, IsDispatchStep, TypeStep DEF STypes
  <2> QED
    BY <1>2, <2>1, IdleType DEF SOrchestratorRestart, STypes
<1>3. ASSUME NEW s \in Scenario, CreateScenario(s) \/ ActivateScenario(s) PROVE STypes'
  <2>1. TypeOK'
    BY <1>3, IsDispatchStep, TypeStep DEF STypes
  <2> QED
    BY <1>3, <2>1 DEF CreateScenario, ActivateScenario, STypes, ScenarioStatus
<1>4. ASSUME NEW s \in Scenario, CreateJobs(s) PROVE STypes'
    BY <1>4, InsertTypes DEF CreateJobs, scenVars, STypes
<1>5. ASSUME NEW s \in Scenario, DeleteCancel(s) \/ DeleteRow(s) PROVE STypes'
  <2>1. TypeOK'
    BY <1>5, DeleteTypes DEF STypes
  <2> QED
    BY <1>5, <2>1 DEF DeleteCancel, DeleteRow, STypes, ScenarioStatus
<1> QED
    BY <1>1, <1>2, <1>3, <1>4, <1>5, TickTypes DEF SNext

-----------------------------------------------------------------------------
(* IInv, which Dispatch preserves, is also preserved by the rest *)

LEMMA InsertInv ==
    ASSUME IInv, NEW s, CreateJobs(s)
    PROVE  IInv'
<1> USE DEF IInv, CreateJobs, InsertJobs, Out
<1>1. TypeOK'
    BY InsertTypes
<1>2. \A j \in Job : \/ status'[j] = status[j]
                     \/ status[j] = "absent" /\ status'[j] = "pending"
    BY DEF TypeOK, StoreTypeOK
<1>3. UNCHANGED <<retry, pc, todo, conn, execs>>
    OBVIOUS
<1> HIDE DEF CreateJobs, InsertJobs
<1>4. CallInv' /\ RetryPromiseKept'
    BY <1>3 DEF CallInv, RetryPromiseKept
<1>5. PollInv'
    BY <1>2, <1>3 DEF PollInv, TypeOK, Request
<1>6. ReportInv'
    BY <1>2, <1>3 DEF ReportInv, Unwritten
<1>7. BatchInv'
    BY <1>2, <1>3 DEF BatchInv, TypeOK
<1>8. AttemptsAccounted'
    BY <1>2, <1>3 DEF AttemptsAccounted, Settled
<1> QED
    BY <1>1, <1>4, <1>5, <1>6, <1>7, <1>8

LEMMA DeleteInv ==
    ASSUME IInv, NEW s, DeleteCancel(s) \/ DeleteRow(s) \/ TickFault
    PROVE  IInv'
<1> USE DEF IInv, Out
<1>1. TypeOK'
    BY DeleteTypes
<1>2. \A j \in Job : \/ status'[j] = status[j]
                     \/ status[j] \in {"pending", "assigned"} /\ status'[j] = "cancelled"
    BY DEF DeleteCancel, DeleteRow, TickFault, CancelJobs, TypeOK, StoreTypeOK, store
<1>3. UNCHANGED <<retry, pc, todo, conn, execs>>
    BY DEF DeleteCancel, DeleteRow, TickFault, CancelJobs, store
<1>4. CallInv' /\ RetryPromiseKept'
    BY <1>3 DEF CallInv, RetryPromiseKept
<1>5. PollInv'
    BY <1>2, <1>3 DEF PollInv, TypeOK, Request
<1>6. ReportInv'
    BY <1>2, <1>3 DEF ReportInv, Unwritten
<1>7. BatchInv'
    BY <1>2, <1>3 DEF BatchInv, TypeOK
<1>8. AttemptsAccounted'
    BY <1>2, <1>3 DEF AttemptsAccounted, Settled
<1> QED
    BY <1>1, <1>4, <1>5, <1>6, <1>7, <1>8

LEMMA SIInvStep == OneProcessPerAgent /\ IInv /\ [SNext]_svars => IInv'
<1> SUFFICES ASSUME OneProcessPerAgent, IInv, [SNext]_svars PROVE IInv'
    OBVIOUS
<1>1. CASE \/ DispatchStep \/ SOrchestratorRestart \/ UNCHANGED svars \/ UNCHANGED vars
           \/ \E s \in Scenario : CreateScenario(s) \/ ActivateScenario(s)
    BY <1>1, IsDispatchStep, InvStep
<1> QED
    BY <1>1, TickIs, InsertInv, DeleteInv DEF SNext

LEMMA SFlightStep == SingleFlight /\ FlightInv /\ [SNext]_svars => FlightInv'
<1> SUFFICES ASSUME SingleFlight, FlightInv, [SNext]_svars PROVE FlightInv'
    OBVIOUS
<1>i. IInv' /\ TypeOK /\ Prompt
    BY SIInvStep DEF FlightInv, IInv, SingleFlight
<1>1. CASE \/ DispatchStep \/ SOrchestratorRestart \/ UNCHANGED svars \/ UNCHANGED vars
           \/ \E s \in Scenario : CreateScenario(s) \/ ActivateScenario(s)
    BY <1>1, IsDispatchStep, FlightStep
<1>2. ASSUME NEW s, CreateJobs(s) \/ DeleteCancel(s) \/ DeleteRow(s) \/ TickFault
      PROVE  FlightInv'
  <2>1. \A j \in Job : \/ status'[j] = status[j]
                       \/ status[j] = "absent" \/ status'[j] = "cancelled"
    BY <1>2, <1>i DEF CreateJobs, InsertJobs, DeleteCancel, DeleteRow, TickFault, CancelJobs, TypeOK,
       StoreTypeOK, store
  <2>2. conn' = conn /\ \A r \in Conn : conn[r].jobs \subseteq Job
    BY <1>2, <1>i DEF CreateJobs, DeleteCancel, DeleteRow, TickFault, TypeOK, Request
  <2>3. Prompt'
    BY <1>i, <2>1, <2>2 DEF Prompt
  <2> QED
    BY <1>i, <2>3 DEF FlightInv
<1> QED
    BY <1>1, <1>2, TickIs DEF SNext

-----------------------------------------------------------------------------
(* A settled job stays settled, and no other than a test job appears alone *)

Kept(j) ==
    /\ status[j] \in Settled => status'[j] = status[j]
    /\ status[j] # "absent" => status'[j] # "absent"

LEMMA DispatchKeeps ==
    ASSUME SingleFlight, FlightInv, DispatchStep \/ OrchestratorRestart, NEW j \in Job
    PROVE  /\ Kept(j)
           /\ scenarioOf[j] # NoScenario /\ status[j] = "absent" => status'[j] = "absent"
<1> USE JobStoreAssumption DEF Kept, Settled
<1>i. /\ TypeOK /\ Prompt /\ ReportInv
      /\ status \in [Job -> JobStatus \cup {"absent"}]
    BY DEF FlightInv, IInv, TypeOK, StoreTypeOK
<1>1. CASE UNCHANGED status
    BY <1>1
<1>2. ASSUME NEW k \in Job, CreateJob(k), scenarioOf[k] = NoScenario
      PROVE  /\ Kept(j)
             /\ scenarioOf[j] # NoScenario /\ status[j] = "absent" => status'[j] = "absent"
  <2>1. status[k] = "absent" /\ (j # k => status'[j] = status[j])
    BY <1>2 DEF CreateJob, InsertJobs
  <2>2. status'[k] = "pending"
    BY <1>2 DEF CreateJob, InsertJobs
  <2> QED
    BY <1>2, <2>1, <2>2
<1>3. ASSUME NEW r \in Conn, AssignSelected(r)
      PROVE  Kept(j) /\ (status[j] = "absent" => status'[j] = "absent")
  <2>1. j \in conn[r].jobs => status[j] \in {"pending", "cancelled"}
    BY <1>i, <1>3 DEF Prompt, AssignSelected
  <2> QED
    BY <1>i, <1>3, <2>1 DEF AssignSelected, AssignJobs
<1>4. ASSUME NEW r \in Conn, CompleteJob(r) \/ FailJob(r)
      PROVE  Kept(j) /\ (status[j] = "absent" => status'[j] = "absent")
  <2>1. PICK k \in conn[r].jobs : UpdateJobCompleted(k) \/ UpdateJobFailed(k, conn[r].next)
    BY <1>4 DEF CompleteJob, FailJob
  <2>2. k \in Job /\ status[k] \in Out
    BY <1>i, <1>4 DEF ReportInv, ReportSteps, Unwritten, CompleteJob, FailJob
  <2>3. conn[r].step = "fail" => conn[r].next # "absent"
    BY <1>i, <1>4 DEF TypeOK, Request
  <2>4. j # k => status'[j] = status[j]
    BY <1>i, <2>1, <2>2 DEF UpdateJobCompleted, UpdateJobFailed
  <2>5. status'[k] # "absent"
    BY SMTT(30), <1>i, <1>4, <2>1, <2>2
       DEF UpdateJobCompleted, UpdateJobFailed, CompleteJob, FailJob, TypeOK, Request
  <2> QED
    BY <2>2, <2>4, <2>5 DEF Out
<1>5. CASE \/ \E k \in Job : TimePasses(k)
           \/ \E p \in Proc : Poll(p) \/ ExecuteJob(p) \/ Restart(p) \/ CallFails(p) \/ Crash(p)
           \/ OrchestratorRestart
    BY ZenonT(60), <1>1, <1>5
       DEF TimePasses, BecomeDue, Poll, ExecuteJob, Restart, CallFails, Crash,
       OrchestratorRestart
<1>6. CASE \E r \in Conn : \/ SelectJobs(r) \/ Deliver(r) \/ ReadJob(r) \/ CheckRetry(r)
                           \/ Acknowledge(r) \/ Discard(r)
    BY <1>1, <1>6 DEF SelectJobs, Deliver, ReadJob, CheckRetry, Acknowledge, Discard
<1> HIDE DEF Kept, Settled
<1> QED
    BY <1>2, <1>3, <1>4, <1>5, <1>6 DEF DispatchStep, AgentStep, ServeRequest

\* What a step does to the jobs of one scenario.
LEMMA JobsKept ==
    ASSUME SingleFlight, FlightInv, [SNext]_svars, NEW s \in Scenario, Whole(s)
    PROVE  /\ Whole(s)'
           /\ \A j \in JobsOf(s) : status[j] \in Settled => status'[j] = status[j]
<1> USE ScenarioAssumption
<1>j. JobsOf(s) \subseteq Job /\ \A j \in JobsOf(s) : scenarioOf[j] = s
    BY DEF JobsOf
<1>i. status \in [Job -> JobStatus \cup {"absent"}]
    BY DEF FlightInv, IInv, TypeOK, StoreTypeOK
<1>1. CASE DispatchStep \/ SOrchestratorRestart
  <2>1. \A j \in JobsOf(s) : Kept(j) /\ (status[j] = "absent" => status'[j] = "absent")
    BY <1>1, <1>j, DispatchKeeps DEF SOrchestratorRestart
  <2> QED
    BY <2>1 DEF Whole, Kept
<1>2. CASE \/ UNCHANGED svars \/ Tick
           \/ \E u \in Scenario : CreateScenario(u) \/ ActivateScenario(u) \/ DeleteRow(u)
  <2>1. status' = status
    BY <1>2, TickIs DEF svars, vars, TickFault, CreateScenario, ActivateScenario, DeleteRow, store
  <2> QED
    BY <2>1 DEF Whole, JobsOf
<1>3. ASSUME NEW u \in Scenario, CreateJobs(u)
      PROVE  /\ Whole(s)'
             /\ \A j \in JobsOf(s) : status[j] \in Settled => status'[j] = status[j]
  <2>1. /\ \A j \in JobsOf(u) : status[j] = "absent" /\ status'[j] = "pending"
        /\ \A j \in Job \ JobsOf(u) : status'[j] = status[j]
    BY <1>3 DEF CreateJobs, InsertJobs, JobsOf
  <2>2. u # s => \A j \in JobsOf(s) : j \notin JobsOf(u)
    BY DEF JobsOf
  <2> QED
    BY <1>j, <2>1, <2>2 DEF Whole, Settled, JobsOf
<1>4. ASSUME NEW u \in Scenario, DeleteCancel(u)
      PROVE  /\ Whole(s)'
             /\ \A j \in JobsOf(s) : status[j] \in Settled => status'[j] = status[j]
  <2>1. \A j \in Job : \/ status'[j] = status[j]
                       \/ status[j] \in {"pending", "assigned"} /\ status'[j] = "cancelled"
    BY <1>4, <1>i DEF DeleteCancel, CancelJobs, store
  <2> QED
    BY <1>j, <2>1 DEF Whole, Settled, JobsOf
<1> QED
    BY <1>1, <1>2, <1>3, <1>4 DEF SNext

\* A scenario that is done stays done, and its numbers stay what they are.
LEMMA DoneStays ==
    ASSUME SingleFlight, FlightInv, [SNext]_svars, NEW s \in Scenario, Whole(s), Done(s)
    PROVE  Done(s)' /\ FinalCounts(s)' = FinalCounts(s)
<1>1. \A j \in JobsOf(s) : status'[j] = status[j]
    BY JobsKept DEF Done
<1>2. \A st : {j \in JobsOf(s) : status'[j] = st} = {j \in JobsOf(s) : status[j] = st}
    BY <1>1
<1>3. FinalCounts(s)' = FinalCounts(s)
    BY <1>2 DEF FinalCounts, CountIn, JobsOf
<1> QED
    BY <1>1, <1>3 DEF Done, JobsOf

\* The counts the tick reads say what AllDone takes them for: no job of the
\* scenario is open, and none was cancelled.
LEMMA AllDoneIsDone ==
    ASSUME IsFiniteSet(Job), TypeOK, NEW s \in Scenario, Whole(s), AllDone(s)
    PROVE  Done(s)
<1> DEFINE In(st) == {j \in JobsOf(s) : status[j] = st}
           Present == {j \in JobsOf(s) : status[j] # "absent"}
<1>1. /\ IsFiniteSet(In("pending")) /\ IsFiniteSet(In("assigned"))
      /\ IsFiniteSet(In("completed")) /\ IsFiniteSet(In("failed")) /\ IsFiniteSet(Present)
    BY FS_Subset DEF JobsOf
<1>2. /\ Cardinality(In("pending")) \in Nat /\ Cardinality(In("assigned")) \in Nat
      /\ Cardinality(In("completed")) \in Nat /\ Cardinality(In("failed")) \in Nat
      /\ Cardinality(Present) \in Nat
    BY <1>1, FS_CardinalityType
<1>3. /\ Cardinality(In("pending")) + Cardinality(In("assigned")) = 0
      /\ Cardinality(Present) > 0
      /\ Cardinality(In("completed")) + Cardinality(In("failed")) = Cardinality(Present)
    BY DEF AllDone, Pending, Total, CountIn
<1>4. In("completed") \cap In("failed") = {}
    OBVIOUS
<1> DEFINE Both == In("completed") \cup In("failed")
<1>5. Cardinality(Both) = Cardinality(Present)
  <2>1. Cardinality(Both) = Cardinality(In("completed")) + Cardinality(In("failed"))
                            - Cardinality(In("completed") \cap In("failed"))
    BY <1>1, FS_Union
  <2> HIDE DEF In, Present, Both
  <2>2. Cardinality(In("completed") \cap In("failed")) = 0
    BY <1>4, FS_EmptySet
  <2> QED
    BY <1>2, <1>3, <2>1, <2>2
<1>6. Both = Present
  <2>1. Both \in SUBSET Present
    OBVIOUS
  <2> HIDE DEF Both, Present
  <2> QED
    BY <1>1, <1>5, <2>1, FS_Subset
<1>7. Present # {}
  <2> HIDE DEF Present
  <2> QED
    BY <1>2, <1>3, FS_EmptySet
<1>8. \A j \in JobsOf(s) : status[j] # "absent"
    BY <1>7 DEF Whole
<1> QED
    BY <1>6, <1>8 DEF Done, Settled

-----------------------------------------------------------------------------
(* The invariant *)

LEMMA CompletedIs == CompletedMeansDone <=> \A s \in Scenario : scen[s] = "completed" => Done(s)
BY DEF CompletedMeansDone, Done

\* The parts of SInv that no step can disturb on its own.
LEMMA Frame ==
    ASSUME SingleFlight, IsFiniteSet(Job), SInv, [SNext]_svars
    PROVE  /\ STypes' /\ FlightInv'
           /\ \A s \in Scenario : Whole(s)'
           /\ \A s \in Scenario : Done(s) => Done(s)' /\ FinalCounts(s)' = FinalCounts(s)
<1>1. STypes'
    BY STypeStep DEF SInv
<1>2. FlightInv'
    BY SFlightStep DEF SInv
<1>3. \A s \in Scenario : Whole(s)'
    BY JobsKept DEF SInv
<1>4. \A s \in Scenario : Done(s) => Done(s)' /\ FinalCounts(s)' = FinalCounts(s)
    BY DoneStays DEF SInv
<1> QED
    BY <1>1, <1>2, <1>3, <1>4

\* A step of anyone but the tick.
LEMMA OthersInv ==
    ASSUME SingleFlight, IsFiniteSet(Job), SInv, [SNext]_svars, announced' = announced,
           tick' = tick \/ tick' = IdleTick,
           \A s \in Scenario : \/ scen'[s] = scen[s]
                               \/ scen[s] \in {"absent", "draft"} /\ scen'[s] \in {"draft", "active"}
                               \/ scen'[s] = "deleted"
    PROVE  SInv'
<1>f. /\ STypes' /\ FlightInv'
      /\ \A s \in Scenario : Whole(s)'
      /\ \A s \in Scenario : Done(s) => Done(s)' /\ FinalCounts(s)' = FinalCounts(s)
    BY Frame
<1>1. \A s \in Scenario : Announced(s)'
    BY <1>f DEF SInv, Announced
<1>2. CompletedMeansDone'
  <2>1. \A s \in Scenario : scen'[s] = "completed" => Done(s)'
    BY <1>f, CompletedIs DEF SInv
  <2> QED
    BY <2>1 DEF CompletedMeansDone, Done
<1>3. TickInv'
  <2>1. CASE tick' = IdleTick
    BY <2>1 DEF TickInv, IdleTick
  <2>2. CASE tick' = tick
    <3>1. \A s \in Scenario : Fresh(s) => Fresh(s)'
      BY DEF Fresh
    <3>2. tick.list \subseteq Scenario
      BY DEF SInv, STypes
    <3>3. tick.at = "announce" => scen'[tick.on] \in {"completed", "deleted"}
      BY DEF SInv, TickInv
    <3>4. tick.at \in {"complete", "announce"} =>
            Done(tick.on) /\ tick.on \in Scenario /\ tick.counts = FinalCounts(tick.on)
      BY DEF SInv, TickInv
    <3>5. ASSUME tick.at \in {"complete", "announce"}
          PROVE  Done(tick.on)' /\ tick'.counts = FinalCounts(tick.on)'
      <4>1. PICK s \in Scenario : s = tick.on
        BY <3>4, <3>5
      <4>2. Done(s)' /\ FinalCounts(s)' = FinalCounts(s) /\ tick.counts = FinalCounts(s)
        BY <1>f, <3>4, <3>5, <4>1
      <4>3. Done(tick.on)' /\ FinalCounts(tick.on)' = FinalCounts(s)'
        BY <2>2, <4>1, <4>2 DEF Done, FinalCounts, CountIn, JobsOf
      <4> QED
        BY <2>2, <4>2, <4>3
    <3>6. \A s \in tick'.list : Fresh(s)' /\ s # tick'.on
      BY <2>2, <3>1, <3>2 DEF SInv, TickInv
    <3>7. tick'.at = "complete" => Fresh(tick.on)'
      <4>1. SUFFICES ASSUME tick.at = "complete" PROVE Fresh(tick.on)'
        BY <2>2
      <4>2. Fresh(tick.on) /\ tick.on \in Scenario
        BY <4>1 DEF SInv, TickInv
      <4> QED
        BY <2>2, <4>2 DEF Fresh
    <3> QED
      BY <2>2, <3>3, <3>4, <3>5, <3>6, <3>7 DEF SInv, TickInv
  <2> QED
    BY <2>1, <2>2
<1> QED
    BY <1>f, <1>1, <1>2, <1>3 DEF SInv

LEMMA TickOnIs ==
    ASSUME NEW rest
    PROVE  /\ TickOn(rest).list \subseteq rest
           /\ TickOn(rest).at \in {"idle", "stats"} /\ TickOn(rest).on = NoScenario
BY DEF TickOn, IdleTick

\* A step of the tick, which reads and writes no job.
LEMMA TickStep ==
    ASSUME SingleFlight, IsFiniteSet(Job), SInv, Tick
    PROVE  SInv'
<1> USE ScenarioAssumption
<1>s. [SNext]_svars
    BY DEF SNext
<1>f. /\ STypes' /\ FlightInv'
      /\ \A s \in Scenario : Whole(s)'
      /\ \A s \in Scenario : Done(s) => Done(s)' /\ FinalCounts(s)' = FinalCounts(s)
    BY <1>s, Frame
<1>i. /\ STypes /\ TickInv /\ \A s \in Scenario : Announced(s)
      /\ \A s \in Scenario : scen[s] = "completed" => Done(s)
      /\ tick.list \subseteq Scenario
    BY CompletedIs DEF SInv, STypes
<1>u. status' = status
    BY TickIs DEF vars, TickFault, store
<1>d. \A s : Done(s)' <=> Done(s)
    BY <1>u DEF Done, JobsOf
<1>c. \A s : FinalCounts(s)' = FinalCounts(s)
    BY <1>u DEF FinalCounts, CountIn, JobsOf
<1>1. CASE TickList
  <2>1. PICK listed \in Newest(Active, ListLimit) :
            tick' = [tick EXCEPT !.at = "stats", !.list = listed]
    BY <1>1 DEF TickList
  <2>2. /\ tick.at = "idle" /\ scen' = scen /\ announced' = announced
        /\ tick'.at = "stats" /\ tick'.list = listed /\ tick'.on = tick.on
    BY <1>1, <1>i, <2>1 DEF TickList, STypes
  <2>3. \A s \in listed : s \in Scenario /\ scen[s] = "active"
    BY DEF Newest, Active
  <2>4. TickInv'
    <3>1. \A s \in listed : Fresh(s)' /\ s # tick.on
      BY <1>i, <2>2, <2>3 DEF Fresh, Announced, TickInv
    <3> QED
      BY <1>i, <2>2, <3>1 DEF TickInv
  <2>5. CompletedMeansDone' /\ \A s \in Scenario : Announced(s)'
    BY <1>i, <1>d, <1>c, <2>2 DEF CompletedMeansDone, Done, Announced
  <2> QED
    BY <1>f, <2>4, <2>5 DEF SInv
<1>2. CASE TickStats
  <2>1. PICK s \in tick.list :
            \/ AllDone(s) /\ tick' = [at |-> "complete", list |-> tick.list \ {s}, on |-> s,
                                      counts |-> FinalCounts(s)]
            \/ tick' = TickOn(tick.list \ {s})
    BY <1>2 DEF TickStats, TickSkips, FinalCounts
  <2>2. scen' = scen /\ announced' = announced /\ tick.at = "stats"
    BY <1>2 DEF TickStats, TickSkips
  <2>3. CompletedMeansDone' /\ \A u \in Scenario : Announced(u)'
    BY <1>i, <1>d, <1>c, <2>2 DEF CompletedMeansDone, Done, Announced
  <2>4. \A u \in tick.list : Fresh(u)' /\ u \in Scenario
    BY <1>i, <2>2 DEF TickInv, Fresh
  <2>5. CASE AllDone(s) /\ tick' = [at |-> "complete", list |-> tick.list \ {s}, on |-> s,
                                    counts |-> FinalCounts(s)]
    <3>1. Done(s)
      BY <1>i, <2>5, AllDoneIsDone DEF SInv, STypes
    <3>2. /\ tick'.at = "complete" /\ tick'.list = tick.list \ {s} /\ tick'.on = s
          /\ tick'.counts = FinalCounts(s)
      BY <2>5
    <3>3. Done(tick.on)' /\ FinalCounts(tick.on)' = FinalCounts(s) /\ Fresh(tick.on)'
      BY <1>u, <2>2, <2>4, <3>1, <3>2 DEF Done, FinalCounts, CountIn, JobsOf, Fresh
    <3>4. TickInv'
      BY <2>4, <3>2, <3>3 DEF TickInv
    <3> QED
      BY <1>f, <2>3, <3>4 DEF SInv
  <2>6. CASE tick' = TickOn(tick.list \ {s})
    <3>1. tick'.list \subseteq tick.list /\ tick'.at \in {"idle", "stats"} /\ tick'.on = NoScenario
      BY <2>6, TickOnIs
    <3>2. TickInv'
      BY <2>4, <3>1 DEF TickInv
    <3> QED
      BY <1>f, <2>3, <3>2 DEF SInv
  <2> QED
    BY <2>1, <2>5, <2>6
<1>3. CASE TickComplete
  <2>1. PICK s \in Scenario : s = tick.on
    BY <1>3, <1>i DEF TickComplete, TickInv
  <2>2. /\ tick.at = "complete" /\ announced' = announced
        /\ Done(s) /\ tick.counts = FinalCounts(s) /\ Fresh(s)
    BY <1>3, <1>i, <2>1 DEF TickComplete, TickInv
  <2>3. CASE scen' = scen /\ tick' = TickOn(tick.list)
    <3>1. scen' = scen /\ tick' = TickOn(tick.list)
      BY <2>3
    <3>2. tick'.list \subseteq tick.list /\ tick'.at \in {"idle", "stats"} /\ tick'.on = NoScenario
      BY <3>1, TickOnIs
    <3>3. \A u \in tick.list : Fresh(u)' /\ u \in Scenario
      BY <1>i, <2>2, <3>1 DEF TickInv, Fresh
    <3>4. TickInv'
      BY <3>2, <3>3 DEF TickInv
    <3>5. CompletedMeansDone' /\ \A u \in Scenario : Announced(u)'
      BY <1>i, <1>d, <1>c, <2>2, <3>1 DEF CompletedMeansDone, Done, Announced
    <3> QED
      BY <1>f, <3>4, <3>5 DEF SInv
  <2>4. CASE scen' = [scen EXCEPT ![s] = "completed"] /\ tick' = [tick EXCEPT !.at = "announce"]
    <3>1. scen' = [scen EXCEPT ![s] = "completed"] /\ tick' = [tick EXCEPT !.at = "announce"]
      BY <2>4
    <3>2. /\ scen'[s] = "completed" /\ \A u \in Scenario \ {s} : scen'[u] = scen[u]
          /\ tick'.at = "announce" /\ tick'.list = tick.list /\ tick'.on = s
          /\ tick'.counts = FinalCounts(s)
      BY <1>i, <2>1, <2>2, <3>1 DEF STypes
    <3>3. \A u \in tick.list : Fresh(u)' /\ u # s
      BY <1>i, <2>1, <2>2, <3>2 DEF TickInv, Fresh
    <3>4. Done(tick.on)' /\ FinalCounts(tick.on)' = FinalCounts(s)
      BY <1>u, <2>2, <3>2 DEF Done, FinalCounts, CountIn, JobsOf
    <3>5. announced'[tick'.on] = <<>>
      BY <2>2, <3>2 DEF Fresh
    <3>6. TickInv'
      BY <3>2, <3>3, <3>4, <3>5 DEF TickInv
    <3>7. \A u \in Scenario : Announced(u)'
      BY <1>i, <1>d, <1>c, <2>2, <3>2 DEF Announced, Fresh
    <3>8. CompletedMeansDone'
      <4>1. \A u \in Scenario : scen'[u] = "completed" => Done(u)'
        BY <1>i, <1>d, <2>2, <3>2
      <4> QED
        BY <4>1 DEF CompletedMeansDone, Done
    <3> QED
      BY <1>f, <3>6, <3>7, <3>8 DEF SInv
  <2> QED
    BY <1>3, <2>1, <2>3, <2>4 DEF TickComplete, TickSkips
<1>4. CASE TickAnnounce
  <2>1. PICK s \in Scenario : s = tick.on
    BY <1>4, <1>i DEF TickAnnounce, TickInv
  <2>2. /\ Done(s) /\ tick.counts = FinalCounts(s) /\ announced[s] = <<>>
        /\ scen[s] \in {"completed", "deleted"} /\ scen' = scen
        /\ tick' = TickOn(tick.list)
        /\ announced' = [announced EXCEPT ![s] = Append(@, FinalCounts(s))]
    BY <1>4, <1>i, <2>1 DEF TickAnnounce, TickInv
  <2>3. announced'[s] = <<FinalCounts(s)>> /\ \A u \in Scenario \ {s} : announced'[u] = announced[u]
    BY <1>i, <2>2 DEF STypes
  <2>4. tick'.list \subseteq tick.list /\ tick'.at \in {"idle", "stats"} /\ tick'.on = NoScenario
    BY <2>2, TickOnIs
  <2>5. \A u \in tick.list : Fresh(u)' /\ u \in Scenario
    BY <1>i, <2>1, <2>2, <2>3 DEF TickInv, Fresh
  <2>6. TickInv'
    BY <2>4, <2>5 DEF TickInv
  <2>7. \A u \in Scenario : Announced(u)'
    BY <1>i, <1>d, <1>c, <2>2, <2>3 DEF Announced
  <2>8. CompletedMeansDone'
    BY <1>i, <1>d, <2>2 DEF CompletedMeansDone, Done
  <2> QED
    BY <1>f, <2>6, <2>7, <2>8 DEF SInv
<1> QED
    BY <1>1, <1>2, <1>3, <1>4 DEF Tick

LEMMA SInvStep == SingleFlight /\ IsFiniteSet(Job) /\ SInv /\ [SNext]_svars => SInv'
<1> SUFFICES ASSUME SingleFlight, IsFiniteSet(Job), SInv, [SNext]_svars PROVE SInv'
    OBVIOUS
<1>t. STypes
    BY DEF SInv
<1>1. CASE DispatchStep \/ SOrchestratorRestart \/ UNCHANGED svars
    BY <1>1, OthersInv DEF DispatchStep, SOrchestratorRestart, svars, scenVars
<1>2. ASSUME NEW s \in Scenario,
             \/ CreateScenario(s) \/ ActivateScenario(s) \/ CreateJobs(s)
             \/ DeleteCancel(s) \/ DeleteRow(s)
      PROVE  SInv'
  <2>1. /\ announced' = announced /\ tick' = tick
        /\ \A u \in Scenario : \/ scen'[u] = scen[u]
                               \/ scen[u] \in {"absent", "draft"} /\ scen'[u] \in {"draft", "active"}
                               \/ scen'[u] = "deleted"
    BY <1>2, <1>t DEF CreateScenario, ActivateScenario, CreateJobs, DeleteCancel, DeleteRow,
       scenVars, STypes
  <2> QED
    BY <2>1, OthersInv
<1> QED
    BY <1>1, <1>2, TickStep DEF SNext

LEMMA SInvInit == SInit => SInv
<1> SUFFICES ASSUME SInit PROVE SInv
    OBVIOUS
<1>1. FlightInv /\ TypeOK
    BY FlightInit, TypeInit DEF SInit
<1>2. STypes
    BY <1>1, IdleType DEF SInit, STypes, ScenarioStatus
<1>3. \A s \in Scenario : Whole(s) /\ Announced(s)
    BY DEF SInit, Init, StoreInit, Whole, Announced, JobsOf
<1>4. CompletedMeansDone /\ TickInv
    BY DEF SInit, CompletedMeansDone, TickInv, IdleTick
<1> QED
    BY <1>1, <1>2, <1>3, <1>4 DEF SInv

LEMMA SInvCorrect == ASSUME SingleFlight, IsFiniteSet(Job) PROVE SSpec => []SInv
<1>1. SInv /\ [SNext]_svars => SInv'
    BY SInvStep
<1> QED
    BY <1>1, SInvInit, PTL DEF SSpec

-----------------------------------------------------------------------------
(* The theorems *)

\* Scenarios, the tick and the announcements keep their types, with several
\* processes per agent id and with handlers that outlive their request too.
THEOREM STypeCorrect == ASSUME IsFiniteSet(Job) PROVE SSpec => []STypeOK
<1>1. STypes /\ [SNext]_svars => STypes'
    BY STypeStep
<1>2. SInit => STypes
    BY TypeInit, IdleType DEF SInit, STypes, ScenarioStatus
<1>3. STypes => STypeOK
    BY DEF STypes, STypeOK
<1> QED
    BY <1>1, <1>2, <1>3, PTL DEF SSpec

\* UpdateScenarioCompleted is only ever reached for a scenario all jobs of which
\* are settled for good, although the counts behind it are some statements old.
THEOREM CompletedCorrect ==
    ASSUME SingleFlight, IsFiniteSet(Job) PROVE SSpec => []CompletedMeansDone
<1>1. SInv => CompletedMeansDone
    BY DEF SInv
<1> QED
    BY <1>1, SInvCorrect, PTL

\* The messenger hears of a completion at most once and with the final numbers,
\* over restarts, deletions and every interleaving with the agents.
THEOREM AnnouncedCorrect ==
    ASSUME SingleFlight, IsFiniteSet(Job) PROVE SSpec => []AnnouncedOnceAndTrue
<1>1. SInv => AnnouncedOnceAndTrue
  <2> SUFFICES ASSUME SInv, NEW s \in Scenario
               PROVE  /\ Len(announced[s]) <= 1
                      /\ \A i \in DOMAIN announced[s] :
                            announced[s][i] = [completed |-> CountIn(s, "completed"),
                                               failed |-> CountIn(s, "failed")]
    BY DEF AnnouncedOnceAndTrue
  <2>1. announced[s] = <<>> \/ announced[s] = <<FinalCounts(s)>>
    BY DEF SInv, Announced
  <2>2. CASE announced[s] = <<>>
    <3>1. Len(announced[s]) = 0 /\ DOMAIN announced[s] = {}
      BY <2>2
    <3> QED
      BY <3>1
  <2>3. CASE announced[s] = <<FinalCounts(s)>>
    <3>1. /\ Len(announced[s]) = 1
          /\ DOMAIN announced[s] = {1}
          /\ announced[s][1] = FinalCounts(s)
      BY <2>3
    <3>2. FinalCounts(s) = [completed |-> CountIn(s, "completed"),
                            failed |-> CountIn(s, "failed")]
      BY DEF FinalCounts
    <3>3. ASSUME NEW i \in DOMAIN announced[s]
          PROVE  announced[s][i] = FinalCounts(s)
      BY <3>1, <3>3
    <3>4. Len(announced[s]) <= 1
      BY <3>1
    <3> QED
      BY <3>2, <3>3, <3>4
  <2> QED
    BY <2>1, <2>2, <2>3
<1> QED
    BY <1>1, SInvCorrect, PTL

\* Executions are accounted for with scenarios and their deletion too: a job that
\* is cancelled in an agent's hands is executed no more often than any other.
THEOREM AttemptsCorrectWithScenarios ==
    ASSUME OneProcessPerAgent PROVE SSpec => []AttemptsAccounted
<1>1. SInit => IInv
    BY InvInit DEF SInit
<1>2. IInv /\ [SNext]_svars => IInv'
    BY SIInvStep
<1>3. IInv => AttemptsAccounted
    BY DEF IInv
<1> QED
    BY <1>1, <1>2, <1>3, PTL DEF SSpec

\* No two agents work on one job, with scenarios and their deletion too.
THEOREM SingleHolderWithScenarios ==
    ASSUME OneProcessPerAgent PROVE SSpec => []SingleHolder
<1>1. SInit => IInv
    BY InvInit DEF SInit
<1>2. IInv /\ [SNext]_svars => IInv'
    BY SIInvStep
<1>3. IInv => SingleHolder
    BY HolderInv
<1> QED
    BY <1>1, <1>2, <1>3, PTL DEF SSpec

-----------------------------------------------------------------------------
(* The life of a job, with cancellation *)

\* What a DELETE does to a job, and what it leaves alone.
Recalled(j) ==
    /\ scenarioOf[j] \in Deletable
    /\ status[j] \in {"pending", "assigned"} /\ status'[j] = "cancelled"
    /\ retry'[j] = retry[j]
    /\ Same(j) /\ (Awaited(j)' <=> Awaited(j)) /\ (Picked(j)' <=> Picked(j))

\* A job in an agent's hands that waits already has its report written.
LEMMA WaitingIsWritten ==
    ASSUME FlightInv, NEW j \in Job, status[j] = "pending"
    PROVE  ~Awaited(j)
<1>1. ASSUME NEW r \in Conn, conn[r].step = "deliver", j \in conn[r].jobs PROVE FALSE
    BY <1>1 DEF FlightInv, IInv, Prompt, PollInv, Out
<1>2. ASSUME NEW p \in Proc, j \in todo[p] PROVE Written(j)
  <2>1. PICK r \in Conn : conn[r].step \in ReportSteps /\ j \in conn[r].jobs
    BY <1>2 DEF FlightInv, IInv, BatchInv, Out
  <2>2. conn[r].step = "ack"
    BY <2>1, Reported DEF Out
  <2> QED
    BY <2>1, <2>2 DEF Written
<1> QED
    BY <1>1, <1>2 DEF Awaited, Has

LEMMA SMovedStep ==
    ASSUME SingleFlight, LInv, [SNext]_svars, NEW j \in Job
    PROVE  Moved(j) \/ Recalled(j)
<1>1. CASE \/ DispatchStep \/ SOrchestratorRestart \/ UNCHANGED svars \/ UNCHANGED vars
           \/ \E s \in Scenario : CreateScenario(s) \/ ActivateScenario(s)
    BY <1>1, IsDispatchStep, MovedStep
<1>2. ASSUME conn' = conn, todo' = todo
      PROVE  Same(j) /\ (Awaited(j)' <=> Awaited(j)) /\ (Picked(j)' <=> Picked(j))
    BY <1>2 DEF Same, Awaited, Has, Picked, Written
<1>3. ASSUME NEW s \in Scenario, CreateJobs(s) PROVE Moved(j)
  <2>1. conn' = conn /\ todo' = todo /\ retry' = retry
    BY <1>3 DEF CreateJobs, InsertJobs
  <2>2. status'[j] = status[j] \/ (status[j] = "absent" /\ status'[j] = "pending")
    BY <1>3 DEF CreateJobs, InsertJobs
  <2> QED
    BY <1>2, <2>1, <2>2 DEF Same, Moved, Untouched, Inserted
<1>4. ASSUME NEW s, DeleteCancel(s) \/ DeleteRow(s) \/ TickFault PROVE Moved(j) \/ Recalled(j)
  <2>1. conn' = conn /\ todo' = todo /\ retry' = retry
    BY <1>4 DEF DeleteCancel, DeleteRow, TickFault, CancelJobs, store
  <2>2. \/ status'[j] = status[j]
        \/ /\ scenarioOf[j] \in Deletable
           /\ status[j] \in {"pending", "assigned"} /\ status'[j] = "cancelled"
    BY <1>4 DEF DeleteCancel, DeleteRow, TickFault, CancelJobs, store, JobsOf
  <2>3. CASE status'[j] = status[j]
    BY <1>2, <2>1, <2>3 DEF Same, Moved, Untouched
  <2>4. CASE status'[j] # status[j]
    BY <1>2, <2>1, <2>2, <2>4 DEF Recalled
  <2> QED
    BY <2>3, <2>4
<1> QED
    BY <1>1, <1>3, <1>4, TickIs DEF SNext

LEMMA SLInvStep == SingleFlight /\ LInv /\ [SNext]_svars => LInv'
<1> SUFFICES ASSUME SingleFlight, LInv, [SNext]_svars PROVE LInv'
    OBVIOUS
<1>1. FlightInv'
    BY SFlightStep DEF LInv
<1>2. CASE \/ DispatchStep \/ SOrchestratorRestart \/ UNCHANGED svars \/ UNCHANGED vars
           \/ \E s \in Scenario : CreateScenario(s) \/ ActivateScenario(s)
    BY <1>1, <1>2, IsDispatchStep, AckStep DEF LInv
<1>3. ASSUME NEW s, CreateJobs(s) \/ DeleteCancel(s) \/ DeleteRow(s) \/ TickFault
      PROVE  AckInv'
  <2>1. conn' = conn /\ \A r \in Conn : conn[r].jobs \subseteq Job
    BY <1>3 DEF CreateJobs, DeleteCancel, DeleteRow, TickFault, LInv, FlightInv, IInv, TypeOK, Request
  <2>2. \A j \in Job : status'[j] = "assigned" => status[j] = "assigned"
    BY <1>3 DEF CreateJobs, InsertJobs, DeleteCancel, DeleteRow, TickFault, CancelJobs, store
  <2> QED
    BY <2>1, <2>2 DEF LInv, AckInv
<1> QED
    BY <1>1, <1>2, <1>3, TickIs DEF SNext, LInv

LEMMA SLInvCorrect == ASSUME SingleFlight PROVE SSpec => []LInv
<1>1. SInit => LInv
    BY LInvInit DEF SInit
<1>2. LInv /\ [SNext]_svars => LInv'
    BY SLInvStep
<1> QED
    BY <1>1, <1>2, PTL DEF SSpec

\* What the lifecycle sees of a cancellation.
LEMMA RecalledPhase ==
    ASSUME SingleFlight, LInv, LInv', NEW j \in Job, Recalled(j)
    PROVE  <<Phase(j), Phase(j)'>> \in CancellableLifecycle!Cancellations
<1>1. Phase(j) = PhaseOf(j) /\ Phase(j)' = PhaseOf(j)'
    BY PhaseIs, PhaseIsNext
<1>2. Phase(j)' = IF Picked(j) THEN "picked" ELSE IF Awaited(j) THEN "recalled" ELSE "cancelled"
    BY <1>1 DEF Recalled, PhaseOf
<1>3. CASE status[j] = "pending"
  <2>1. Phase(j) = "waiting" /\ ~Awaited(j)
    BY <1>1, <1>3, WaitingIsWritten DEF LInv, PhaseOf
  <2> QED
    BY <1>2, <2>1 DEF CancellableLifecycle!Cancellations
<1>4. CASE status[j] = "assigned"
  <2>1. Phase(j) = IF Has(j) THEN "out" ELSE "lost"
    BY <1>1, <1>4 DEF PhaseOf
  <2>2. ~Picked(j)
    BY <1>4 DEF LInv, FlightInv, Prompt, Picked
  <2>3. Awaited(j) <=> Has(j)
    BY <1>4 DEF LInv, AckInv, Awaited, Written
  <2> QED
    BY <1>2, <2>1, <2>2, <2>3 DEF CancellableLifecycle!Cancellations
<1> QED
    BY <1>3, <1>4 DEF Recalled

\* With DELETEs between the statements of the handlers the life of a job is that
\* of the lifecycle: a result is final, a job cancelled while nobody had it is
\* never seen again, and one that a poll had picked or an agent had comes back
\* only from them and through a counted retry.
THEOREM CancellationCorrect == ASSUME SingleFlight PROVE SSpec => ImplementsCancellable
<1> USE JobStoreAssumption, DispatchAssumption
<1>1. SInit => CancellableLifecycle!Init
  <2> SUFFICES ASSUME SInit PROVE CancellableLifecycle!Init
    OBVIOUS
  <2>1. \A j \in Job : Phase(j) = "none"
    BY DEF SInit, Init, StoreInit, Phase
  <2> QED
    BY <2>1 DEF CancellableLifecycle!Init, SInit, Init, StoreInit
<1>2. LInv /\ LInv' /\ [SNext]_svars => CancellableLifecycle!Next
  <2> SUFFICES ASSUME LInv, LInv', [SNext]_svars PROVE CancellableLifecycle!Next
    OBVIOUS
  <2>1. /\ [j \in Job |-> Phase(j)]' \in [Job -> CancellableLifecycle!Phases]
        /\ retry' \in [Job -> Nat]
    BY PhaseTypeNext
    DEF LInv, FlightInv, IInv, TypeOK, StoreTypeOK, Lifecycle!Phases, CancellableLifecycle!Phases
  <2>2. ASSUME NEW j \in Job
        PROVE  \/ CancellableLifecycle!Move(j) \/ CancellableLifecycle!Cancel(j)
               \/ CancellableLifecycle!Requeue(j) \/ CancellableLifecycle!Rest(j)
    <3>1. CASE Moved(j)
      <4>1. PhaseMoved(j)
        BY <3>1, PhaseStep
      <4> QED
        BY <4>1 DEF PhaseMoved, Lifecycle!Moves, CancellableLifecycle!Moves,
           CancellableLifecycle!Move, CancellableLifecycle!Requeue, CancellableLifecycle!Rest
    <3>2. CASE Recalled(j)
      <4>1. /\ <<Phase(j), Phase(j)'>> \in CancellableLifecycle!Cancellations
            /\ scenarioOf[j] \in Deletable /\ retry'[j] = retry[j]
        BY <3>2, RecalledPhase DEF Recalled
      <4> QED
        BY <4>1 DEF CancellableLifecycle!Cancel
    <3> QED
      BY <3>1, <3>2, SMovedStep
  <2> QED
    BY <2>1, <2>2 DEF CancellableLifecycle!Next
<1> QED
    BY <1>1, <1>2, SLInvCorrect, PTL
    DEF SSpec, ImplementsCancellable, CancellableLifecycle!Spec

\* A cancellation, however it races with polls and reports, leaves no job stuck
\* in assigned: that too takes a fault, with scenarios as without.
THEOREM StuckOnlyByFaultWithScenarios ==
    ASSUME SingleFlight PROVE SSpec => StuckOnlyByFault
<1>1. LInv /\ LInv' /\ [SNext]_svars =>
        [\A j \in Job : Stuck(j)' /\ ~Stuck(j) => faults' > faults]_vars
  <2> SUFFICES ASSUME LInv, LInv', [SNext]_svars, NEW j \in Job, Stuck(j)', ~Stuck(j)
               PROVE  faults' > faults
    OBVIOUS
  <2>1. (Held(j) <=> Has(j)) /\ (Held(j)' <=> Has(j)')
    BY HeldIsHad, HeldIsHadNext DEF LInv, FlightInv
  <2>2. status'[j] = "assigned" /\ ~Has(j)' /\ (status[j] = "assigned" => Has(j))
    BY <2>1 DEF Stuck
  <2>3. ~Recalled(j)
    BY <2>2 DEF Recalled
  <2> QED
    BY <2>2, <2>3, SMovedStep
    DEF Moved, Untouched, Inserted, HandedOut, Finished, PutBack, Settled
<1> QED
    BY <1>1, SLInvCorrect, PTL DEF SSpec, StuckOnlyByFault

\* Neither a DELETE nor the insertion of a scenario's jobs touches a final result,
\* with handlers that outlive their request too.
THEOREM FinalUnlessAbandonedWithScenarios ==
    ASSUME OneProcessPerAgent
    PROVE  SSpec => [][\A j \in Job : status[j] \in Settled =>
                         status'[j] = status[j] \/ Abandoned(j)]_svars
<1>1. SInit => IInv
    BY InvInit DEF SInit
<1>2. IInv /\ [SNext]_svars => IInv'
    BY SIInvStep
<1>3. IInv /\ [SNext]_svars =>
        [\A j \in Job : status[j] \in Settled => status'[j] = status[j] \/ Abandoned(j)]_svars
  <2> SUFFICES ASSUME IInv, [SNext]_svars, NEW j \in Job, status[j] \in Settled
               PROVE  status'[j] = status[j] \/ Abandoned(j)
    OBVIOUS
  <2>1. CASE \/ DispatchStep \/ SOrchestratorRestart \/ UNCHANGED svars \/ UNCHANGED vars
             \/ \E s \in Scenario : CreateScenario(s) \/ ActivateScenario(s)
    BY <2>1, IsDispatchStep, FinalStep
  <2>2. ASSUME NEW s, CreateJobs(s) \/ DeleteCancel(s) \/ DeleteRow(s) \/ TickFault
        PROVE  status'[j] = status[j]
    BY <2>2 DEF CreateJobs, InsertJobs, DeleteCancel, DeleteRow, TickFault, CancelJobs, store, Settled
  <2> QED
    BY <2>1, <2>2, TickIs DEF SNext
<1> QED
    BY <1>1, <1>2, <1>3, PTL DEF SSpec
=============================================================================
