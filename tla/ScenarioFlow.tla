---------------------------- MODULE ScenarioFlow ----------------------------
(***************************************************************************)
(* Scenarios on top of Dispatch: the scenarios table                       *)
(* (storage/scenarios.go), the scheduler's one-second tick that completes  *)
(* an active scenario once its jobs are done and tells the messenger       *)
(* (scheduler.go, checkScenarioCompletion), and the DELETE handler that    *)
(* cancels a scenario's jobs and then removes its row                      *)
(* (handlers.go, DeleteScenario).                                          *)
(*                                                                         *)
(* The tick lists, counts, completes and announces in separate statements, *)
(* the DELETE handler cancels and deletes in two, and the polls and        *)
(* reports of Dispatch run between any of them.                            *)
(***************************************************************************)
EXTENDS Dispatch, Sequences

CONSTANTS Scenario,    \* the scenario ids
          NoScenario,  \* the scenario_id of a test job: NULL
          scenarioOf,  \* scenarioOf[j]: the scenario_id column of job j
          Created,     \* Created[s]: place in created_at order, older is smaller
          ListLimit,   \* the LIMIT of the tick's listing, 100 in the code
          Deletable    \* the scenarios a client may send a DELETE for

ASSUME ScenarioAssumption ==
    /\ NoScenario \notin Scenario
    /\ scenarioOf \in [Job -> Scenario \cup {NoScenario}]
    /\ Created \in [Scenario -> Nat]
    /\ ListLimit \in Nat \ {0}
    /\ Deletable \subseteq Scenario

VARIABLES scen,       \* scen[s]: the scenarios row, as far as anyone reads it
          tick,       \* the scheduler loop
          announced,  \* announced[s]: the completion events sent for s
          deleting    \* the scenarios with DELETE handlers past their first statement

scenVars == <<scen, tick, announced, deleting>>
svars == <<vars, scenVars>>

JobsOf(s) == {j \in Job : scenarioOf[j] = s}

\* "draft" stands for every status the tick does not look for (pending,
\* planned, validated, compiled); "deleted" for a row that is gone.
ScenarioStatus == {"absent", "draft", "active", "completed", "deleted"}
Counts == [completed : Nat, failed : Nat]
NoCounts == [completed |-> 0, failed |-> 0]
IdleTick == [at |-> "idle", list |-> {}, on |-> NoScenario, counts |-> NoCounts]

STypeOK ==
    /\ TypeOK
    /\ scen \in [Scenario -> ScenarioStatus]
    /\ tick \in [at : {"idle", "stats", "complete", "announce"},
                 list : SUBSET Scenario,
                 on : Scenario \cup {NoScenario},
                 counts : Counts]
    /\ \A s \in Scenario : announced[s] \in Seq(Counts)
    /\ deleting \in SUBSET Scenario

SInit ==
    /\ Init
    /\ scen = [s \in Scenario |-> "absent"]
    /\ tick = IdleTick
    /\ announced = [s \in Scenario |-> <<>>]
    /\ deleting = {}

-----------------------------------------------------------------------------
(* The life of a scenario up to its activation *)

CreateScenario(s) ==
    /\ scen[s] = "absent"
    /\ scen' = [scen EXCEPT ![s] = "draft"]
    /\ UNCHANGED <<vars, tick, announced, deleting>>

\* UpdateScenarioActive.  Nothing orders it against the insertion of the jobs.
ActivateScenario(s) ==
    /\ scen[s] = "draft"
    /\ scen' = [scen EXCEPT ![s] = "active"]
    /\ UNCHANGED <<vars, tick, announced, deleting>>

\* Scheduler.CreateJobs: all jobs of the scenario in one transaction.
CreateJobs(s) ==
    /\ scen[s] \in {"draft", "active"}
    /\ InsertJobs(JobsOf(s))
    /\ UNCHANGED <<pc, todo, conn, execs, faults>>
    /\ UNCHANGED scenVars

-----------------------------------------------------------------------------
(* checkScenarioCompletion *)

Active == {s \in Scenario : scen[s] = "active"}

\* ListScenarios: the newest ListLimit active scenarios.
Newest(S, n) ==
    {T \in SUBSET S :
        /\ Cardinality(T) = IF Cardinality(S) < n THEN Cardinality(S) ELSE n
        /\ \A t \in T, u \in S \ T : Created[t] >= Created[u]}

TickList ==
    /\ tick.at = "idle"
    /\ \E listed \in Newest(Active, ListLimit) :
        /\ listed # {}
        /\ tick' = [tick EXCEPT !.at = "stats", !.list = listed]
    /\ UNCHANGED <<vars, scen, announced, deleting>>

\* GetScenarioJobStats.  Cancelled jobs count in total and nowhere else.
CountIn(s, st) == Cardinality({j \in JobsOf(s) : status[j] = st})
Total(s) == Cardinality({j \in JobsOf(s) : status[j] # "absent"})
Pending(s) == CountIn(s, "pending") + CountIn(s, "assigned")

\* Mutant: a job in an agent's hands does not count as open.
AllDoneSettledOrAssigned(s) ==
    /\ CountIn(s, "pending") = 0
    /\ Total(s) > 0

\* "Scenario is complete when all jobs are done (completed or failed)".
AllDone(s) ==
    /\ Pending(s) = 0
    /\ Total(s) > 0
    /\ CountIn(s, "completed") + CountIn(s, "failed") = Total(s)

\* Mutant: a scenario that is not done ends the tick.
TickOnNever(rest) == IdleTick

\* The next listed scenario, newest first; the tick ends after the last.
TickOn(rest) == IF rest = {} THEN IdleTick
                ELSE [IdleTick EXCEPT !.at = "stats", !.list = rest]

\* A statement that fails is logged, and the tick goes on with the rest.
TickSkips(rest) ==
    /\ faults < MaxFaults
    /\ faults' = faults + 1
    /\ tick' = TickOn(rest)
    /\ UNCHANGED <<store, pc, todo, conn, execs, scen>>

\* The counts are read once, here, and travel to the announcement.
TickStats ==
    /\ tick.at = "stats"
    /\ \E s \in tick.list :
        /\ \A u \in tick.list : Created[s] >= Created[u]
        /\ \/ /\ tick' = IF AllDone(s)
                         THEN [at |-> "complete", list |-> tick.list \ {s}, on |-> s,
                               counts |-> [completed |-> CountIn(s, "completed"),
                                           failed |-> CountIn(s, "failed")]]
                         ELSE TickOn(tick.list \ {s})
              /\ UNCHANGED <<vars, scen>>
           \/ TickSkips(tick.list \ {s})
    /\ UNCHANGED <<announced, deleting>>

\* Mutant: the row is left active.
TickCompleteNotStored ==
    /\ tick.at = "complete"
    /\ tick' = [tick EXCEPT !.at = "announce"]
    /\ UNCHANGED <<vars, scen, announced, deleting>>

\* UpdateScenarioCompleted: no row updated is an error too, which skips the event.
TickComplete ==
    /\ tick.at = "complete"
    /\ \/ scen[tick.on] = "deleted" /\ tick' = TickOn(tick.list) /\ UNCHANGED <<vars, scen>>
       \/ /\ scen[tick.on] # "deleted"
          /\ scen' = [scen EXCEPT ![tick.on] = "completed"]
          /\ tick' = [tick EXCEPT !.at = "announce"]
          /\ UNCHANGED vars
       \/ TickSkips(tick.list)
    /\ UNCHANGED <<announced, deleting>>

\* forwardScenarioCompletedToMessenger hands the event to a goroutine.
TickAnnounce ==
    /\ tick.at = "announce"
    /\ announced' = [announced EXCEPT ![tick.on] = Append(@, tick.counts)]
    /\ tick' = TickOn(tick.list)
    /\ UNCHANGED <<vars, scen, deleting>>

-----------------------------------------------------------------------------
(* DELETE /api/scenarios/{id} *)

\* Mutant: every job is cancelled that has not succeeded.
CancelUnsuccessful(s) ==
    /\ status' = [j \in Job |->
                    IF j \in JobsOf(s) /\ status[j] \notin {"absent", "completed"}
                    THEN "cancelled" ELSE status[j]]
    /\ UNCHANGED <<retry, due>>

\* CancelJobsForScenario, one UPDATE.
CancelJobs(s) ==
    /\ status' = [j \in Job |->
                    IF j \in JobsOf(s) /\ status[j] \in {"pending", "assigned"}
                    THEN "cancelled" ELSE status[j]]
    /\ UNCHANGED <<retry, due>>

\* The first statement of the handler, whatever has become of the scenario and
\* however many handlers are at it.  When it fails the error is logged and the
\* handler goes on.  (Before the row is there nobody knows the id.)
DeleteCancel(s) ==
    /\ s \in Deletable
    /\ scen[s] # "absent"
    /\ deleting' = deleting \cup {s}
    /\ \/ CancelJobs(s) /\ UNCHANGED faults
       \/ /\ faults < MaxFaults
          /\ faults' = faults + 1
          /\ UNCHANGED store
    /\ UNCHANGED <<pc, todo, conn, execs, scen, tick, announced>>

\* The second: the row goes, its jobs stay (foreign keys are not enforced).  It
\* too may fail, and then the scenario lives on with its jobs cancelled.  Another
\* handler may be at the same point.
DeleteRow(s) ==
    /\ s \in deleting
    /\ \/ scen' = [scen EXCEPT ![s] = "deleted"] /\ UNCHANGED faults
       \/ /\ faults < MaxFaults
          /\ faults' = faults + 1
          /\ UNCHANGED scen
    /\ UNCHANGED <<store, pc, todo, conn, execs, tick, announced, deleting>>

-----------------------------------------------------------------------------
(* Composition *)

\* The tick and the DELETE handlers die with the process.
SOrchestratorRestart ==
    /\ OrchestratorRestart
    /\ tick' = IdleTick
    /\ deleting' = {}
    /\ UNCHANGED <<scen, announced>>

DispatchStep ==
    /\ \/ \E j \in Job : TimePasses(j) \/ (scenarioOf[j] = NoScenario /\ CreateJob(j))
       \/ \E p \in Proc : AgentStep(p) \/ Restart(p) \/ CallFails(p) \/ Crash(p)
       \/ \E r \in Conn : ServeRequest(r)
    /\ UNCHANGED scenVars

Tick == TickList \/ TickStats \/ TickComplete \/ TickAnnounce

SNext ==
    \/ DispatchStep
    \/ \E s \in Scenario :
        \/ CreateScenario(s) \/ ActivateScenario(s) \/ CreateJobs(s)
        \/ DeleteCancel(s) \/ DeleteRow(s)
    \/ Tick
    \/ SOrchestratorRestart

\* As in Dispatch, and the ticker keeps ticking.
SFairness ==
    /\ \A j \in Job : WF_svars(TimePasses(j) /\ UNCHANGED scenVars)
    /\ \A p \in Proc : WF_svars(AgentStep(p) /\ UNCHANGED scenVars)
    /\ \A r \in Conn : WF_svars(ServeRequest(r) /\ UNCHANGED scenVars)
    /\ WF_svars(Tick)

SSpec == SInit /\ [][SNext]_svars
SFairSpec == SSpec /\ SFairness

-----------------------------------------------------------------------------
(* Properties *)

\* A scenario is only ever marked completed when every one of its jobs is
\* settled, and it stays true: the stats were read some steps before, but no
\* report, retry, cancellation or insertion in between or later undoes them.
CompletedMeansDone ==
    \A s \in Scenario : scen[s] = "completed" =>
        \A j \in JobsOf(s) : status[j] \in Settled

\* The messenger hears of a completion at most once, over restarts too, and the
\* numbers it is told are the final ones.
AnnouncedOnceAndTrue ==
    \A s \in Scenario :
        /\ Len(announced[s]) <= 1
        /\ \A i \in DOMAIN announced[s] :
            announced[s][i] = [completed |-> CountIn(s, "completed"),
                               failed |-> CountIn(s, "failed")]

CancellableLifecycle ==
    INSTANCE JobLifecycle
    WITH phase <- [j \in Job |-> Phase(j)], tries <- retry,
         Cancellable <- {j \in Job : scenarioOf[j] \in Deletable}

\* With DELETEs and ticks between the statements of the handlers, the life of a
\* job is still that of the lifecycle: a result stays final, a job cancelled while
\* nobody had it is never seen again, one that a poll or an agent had comes back
\* only from them, its retries still counted, and no other job is cancelled.
ImplementsCancellable == CancellableLifecycle!Spec

\* CancelJobsForScenario "cancels all pending jobs for a scenario", and DELETE
\* calls it to "cancel any pending jobs first": a job cancelled that way is not
\* put back in the queue.
CancelledIsNotRequeued ==
    [][\A j \in Job : status[j] = "cancelled" => status'[j] # "pending"]_svars

\* AssignJobs "changes status from pending to assigned": nothing but a pending
\* job becomes assigned, whoever else writes the row meanwhile.
AssignsOnlyPending ==
    [][\A j \in Job : status'[j] = "assigned" => status[j] \in {"pending", "assigned"}]_svars

\* An active scenario with jobs is completed in the end, unless it is deleted,
\* a job of it was cancelled or got stuck, or an agent it needs is down.
ScenarioFinishes ==
    \A s \in Scenario :
        (scen[s] = "active" /\ Total(s) > 0) ~>
            \/ scen[s] \in {"completed", "deleted"}
            \/ \E j \in JobsOf(s) :
                \/ status[j] = "cancelled" \/ Stuck(j)
                \/ \A p \in Proc : agentId[p] = owner[j] => pc[p] = "down"
=============================================================================
