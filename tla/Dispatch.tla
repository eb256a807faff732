------------------------------ MODULE Dispatch ------------------------------
(***************************************************************************)
(* How a job travels: an agent process polls (GET .../jobs/next), the      *)
(* handler selects pending jobs and then marks them assigned, the agent    *)
(* executes them one after the other and reports each result               *)
(* (POST .../jobs/{id}/result), and the handler settles the job or puts it *)
(* back for a retry.                                                       *)
(*                                                                         *)
(* A handler is several database statements, each one step here; the       *)
(* requests of different agents interleave freely.  Any call may fail for  *)
(* the agent (timeout, lost connection, HTTP 500), an agent may crash and  *)
(* restart, and so may the orchestrator.  The request context of a call    *)
(* the client gave up is cancelled; with Linger = TRUE the cancellation    *)
(* may come too late and the handler runs on.                              *)
(***************************************************************************)
EXTENDS JobStore

CONSTANTS Proc,       \* the agent processes
          NoProc,     \* "no process": the client of a free connection
          agentId,    \* agentId[p]: the agent id process p was configured with
          Conn,       \* the requests the orchestrator can serve at a time
          MaxBatch,   \* jobs per poll: the handler's max, capped by the scheduler
          Outcomes,   \* the results an agent may report
          Linger,     \* may a handler outlive its cancelled request?
          MaxFaults   \* bound on failed calls, crashes and restarts

ASSUME DispatchAssumption ==
    /\ agentId \in [Proc -> Agent]
    /\ NoProc \notin Proc
    /\ MaxBatch \in Nat \ {0}
    /\ Outcomes \subseteq {"completed", "failed", "fatal"}
    /\ Linger \in BOOLEAN
    /\ MaxFaults \in Nat

VARIABLES pc,      \* pc[p]: where the agent loop of process p is
          todo,    \* todo[p]: the rest of the batch p is working through
          conn,    \* conn[r]: the request on connection r and its handler
          execs,   \* execs[j]: how often some agent executed job j (history)
          faults   \* how many faults have happened (bounded by MaxFaults)

agents == <<pc, todo>>
vars == <<status, retry, due, pc, todo, conn, execs, faults>>

\* A request is a poll (select, assign, deliver) or a report (read, then
\* complete, or check and fail, then ack).  "deliver" and "ack" are the
\* response on its way back; "fatal" is a failure that is not retryable.
Steps == {"free", "select", "assign", "deliver",
          "read", "complete", "check", "fail", "ack"}
PollSteps == {"select", "assign", "deliver"}
ReportSteps == {"read", "complete", "check", "fail", "ack"}

Request ==
    {q \in [step : Steps, from : Proc \cup {NoProc}, live : BOOLEAN,
            jobs : SUBSET Job, outcome : Outcomes \cup {"none"},
            seen : Nat, next : {"none", "pending", "failed"}] :
        q.step = "fail" => q.next # "none"}

Free == [step |-> "free", from |-> NoProc, live |-> FALSE, jobs |-> {},
         outcome |-> "none", seen |-> 0, next |-> "none"]

TypeOK ==
    /\ StoreTypeOK
    /\ pc \in [Proc -> {"idle", "polling", "working", "reporting", "down"}]
    /\ todo \in [Proc -> SUBSET Job]
    /\ conn \in [Conn -> Request]
    /\ execs \in [Job -> Nat]
    /\ faults \in 0..MaxFaults

Init ==
    /\ StoreInit
    /\ pc = [p \in Proc |-> "idle"]
    /\ todo = [p \in Proc |-> {}]
    /\ conn = [r \in Conn |-> Free]
    /\ execs = [j \in Job |-> 0]
    /\ faults = 0

-----------------------------------------------------------------------------
(* Jobs come to exist and become due *)

\* CreateTestJob and Scheduler.CreateJob: one row, status pending.
CreateJob(j) ==
    /\ InsertJobs({j})
    /\ UNCHANGED <<pc, todo, conn, execs, faults>>

TimePasses(j) ==
    /\ BecomeDue(j)
    /\ UNCHANGED <<pc, todo, conn, execs, faults>>

-----------------------------------------------------------------------------
(* GET /api/agents/{id}/jobs/next *)

\* The agent's ticker fires and it asks for jobs.
Poll(p) ==
    /\ pc[p] = "idle"
    /\ \E r \in Conn :
        /\ conn[r].step = "free"
        /\ conn' = [conn EXCEPT ![r] = [Free EXCEPT !.step = "select",
                                                    !.from = p,
                                                    !.live = TRUE]]
    /\ pc' = [pc EXCEPT ![p] = "polling"]
    /\ UNCHANGED <<status, retry, due, todo, execs, faults>>

\* The scheduler asks for one job more than it hands out, to know hasMore, and
\* drops the surplus.  Nothing found is 204 No Content.
SelectJobs(r) ==
    /\ conn[r].step = "select"
    /\ \E found \in Top(Eligible(agentId[conn[r].from]), MaxBatch + 1) :
       \E kept \in Top(found, MaxBatch) :
            conn' = [conn EXCEPT
                        ![r].step = IF kept = {} THEN "deliver" ELSE "assign",
                        ![r].jobs = kept]
    /\ UNCHANGED <<status, retry, due, pc, todo, execs, faults>>

\* Mutant: the surplus job of the hasMore probe is marked assigned as well.
AssignSelectedAndProbe(r) ==
    /\ conn[r].step = "assign"
    /\ \E found \in Top(Eligible(agentId[conn[r].from]), MaxBatch + 1) :
            AssignJobs(conn[r].jobs \cup found)
    /\ conn' = [conn EXCEPT ![r].step = "deliver"]
    /\ UNCHANGED <<pc, todo, execs, faults>>

\* The transaction that marks the jobs assigned, some time after the SELECT.
AssignSelected(r) ==
    /\ conn[r].step = "assign"
    /\ AssignJobs(conn[r].jobs)
    /\ conn' = [conn EXCEPT ![r].step = "deliver"]
    /\ UNCHANGED <<pc, todo, execs, faults>>

\* The agent gets the response.
Deliver(r) ==
    /\ conn[r].step = "deliver"
    /\ conn[r].live
    /\ LET p == conn[r].from
       IN  /\ todo' = [todo EXCEPT ![p] = conn[r].jobs]
           /\ pc' = [pc EXCEPT ![p] = IF conn[r].jobs = {} THEN "idle" ELSE "working"]
    /\ conn' = [conn EXCEPT ![r] = Free]
    /\ UNCHANGED <<status, retry, due, execs, faults>>

-----------------------------------------------------------------------------
(* The agent's side of a job *)

\* executeJob: the next job of the batch is executed and its result is sent.
ExecuteJob(p) ==
    /\ pc[p] = "working"
    /\ \E r \in Conn, outcome \in Outcomes :
       \E j \in todo[p] :
        /\ \A k \in todo[p] : Rank[j] <= Rank[k]
        /\ conn[r].step = "free"
        /\ conn' = [conn EXCEPT ![r] = [Free EXCEPT !.step = "read",
                                                    !.from = p,
                                                    !.live = TRUE,
                                                    !.jobs = {j},
                                                    !.outcome = outcome]]
        /\ execs' = [execs EXCEPT ![j] = @ + 1]
    /\ pc' = [pc EXCEPT ![p] = "reporting"]
    /\ UNCHANGED <<status, retry, due, todo, faults>>

\* The batch goes on with the next job, or the loop waits for its next tick.
AfterReport(p, rest) ==
    /\ todo' = [todo EXCEPT ![p] = rest]
    /\ pc' = [pc EXCEPT ![p] = IF rest = {} THEN "idle" ELSE "working"]

-----------------------------------------------------------------------------
(* POST /api/agents/{id}/jobs/{jobId}/result *)

\* The switch on the reported status.
Handling(outcome) == CASE outcome = "completed" -> "complete"
                       [] outcome = "failed" -> "check"
                       [] OTHER -> "fail"

\* The first read, with the ownership check.  An error ends the handler: the
\* agent only logs it, as it does the acknowledgement.
ReadJob(r) ==
    /\ conn[r].step = "read"
    /\ \E j \in conn[r].jobs :
        conn' = [conn EXCEPT
            ![r].seen = retry[j],
            ![r].next = IF Handling(conn[r].outcome) = "fail" THEN "failed" ELSE "none",
            ![r].step = IF status[j] = "absent" \/ owner[j] # agentId[conn[r].from]
                        THEN "ack" ELSE Handling(conn[r].outcome)]
    /\ UNCHANGED <<status, retry, due, pc, todo, execs, faults>>

\* A completed result.
CompleteJob(r) ==
    /\ conn[r].step = "complete"
    /\ \E j \in conn[r].jobs : UpdateJobCompleted(j)
    /\ conn' = [conn EXCEPT ![r].step = "ack"]
    /\ UNCHANGED <<pc, todo, execs, faults>>

\* A retryable failure: UpdateJobFailed reads the row a second time ...
CheckRetry(r) ==
    /\ conn[r].step = "check"
    /\ \E j \in conn[r].jobs :
        conn' = [conn EXCEPT ![r].step = "fail", ![r].next = RetryDecision(j)]
    /\ UNCHANGED <<status, retry, due, pc, todo, execs, faults>>

\* ... and writes what it decided from that read.
FailJob(r) ==
    /\ conn[r].step = "fail"
    /\ \E j \in conn[r].jobs : UpdateJobFailed(j, conn[r].next)
    /\ conn' = [conn EXCEPT ![r].step = "ack"]
    /\ UNCHANGED <<pc, todo, execs, faults>>

\* Mutant: the promise is computed with the other comparison.
RetryScheduledOffByOne(q) == q.outcome = "failed" /\ q.seen <= MaxRetries

\* The retry_scheduled field of the response, from the FIRST read.
RetryScheduled(q) == q.outcome = "failed" /\ q.seen < MaxRetries

\* The agent gets the acknowledgement.
Acknowledge(r) ==
    /\ conn[r].step = "ack"
    /\ conn[r].live
    /\ AfterReport(conn[r].from, todo[conn[r].from] \ conn[r].jobs)
    /\ conn' = [conn EXCEPT ![r] = Free]
    /\ UNCHANGED <<status, retry, due, execs, faults>>

-----------------------------------------------------------------------------
(* Faults *)

Serving(p) == {r \in Conn : conn[r].live /\ conn[r].from = p}

\* What becomes of a request whose client is gone: its context is cancelled, so
\* that the next statement fails, unless the cancellation comes too late.
Abandon(r) ==
    \/ conn' = [conn EXCEPT ![r] = Free]
    \/ Linger /\ conn' = [conn EXCEPT ![r].live = FALSE]

\* A handler that nobody waits for any more runs to its end.
Discard(r) ==
    /\ conn[r].step \in {"deliver", "ack"}
    /\ ~conn[r].live
    /\ conn' = [conn EXCEPT ![r] = Free]
    /\ UNCHANGED <<status, retry, due, pc, todo, execs, faults>>

\* Mutant: a report that failed is taken for an unfinished job and run again.
CallFailsAndRepeats(p) ==
    /\ faults < MaxFaults
    /\ faults' = faults + 1
    /\ \E r \in Serving(p) : Abandon(r)
    /\ pc' = [pc EXCEPT ![p] = IF @ = "polling" THEN "idle" ELSE "working"]
    /\ UNCHANGED <<status, retry, due, todo, execs>>

\* The agent's call ends in an error, at any point of the handler.  A poll is
\* given up until the next tick; a report is logged and never sent again.
CallFails(p) ==
    /\ faults < MaxFaults
    /\ faults' = faults + 1
    /\ \E r \in Serving(p) :
        /\ Abandon(r)
        /\ IF pc[p] = "polling"
           THEN pc' = [pc EXCEPT ![p] = "idle"] /\ UNCHANGED todo
           ELSE AfterReport(p, todo[p] \ conn[r].jobs)
    /\ UNCHANGED <<status, retry, due, execs>>

\* The agent process dies; nothing it holds is persisted.
Crash(p) ==
    /\ faults < MaxFaults
    /\ faults' = faults + 1
    /\ pc[p] # "down"
    /\ pc' = [pc EXCEPT ![p] = "down"]
    /\ todo' = [todo EXCEPT ![p] = {}]
    /\ \/ Serving(p) = {} /\ UNCHANGED conn
       \/ \E r \in Serving(p) : Abandon(r)
    /\ UNCHANGED <<status, retry, due, execs>>

\* It is started again with the same configured id and registers again.
Restart(p) ==
    /\ pc[p] = "down"
    /\ pc' = [pc EXCEPT ![p] = "idle"]
    /\ UNCHANGED <<status, retry, due, todo, conn, execs, faults>>

\* The orchestrator dies and comes back: the table survives, the requests do
\* not, and every agent that was waiting sees its call fail.
Waiting(p) == pc[p] \in {"polling", "reporting"}
ReportedBy(p) == UNION {conn[r].jobs : r \in {s \in Serving(p) : conn[s].step \in ReportSteps}}

OrchestratorRestart ==
    /\ faults < MaxFaults
    /\ faults' = faults + 1
    /\ conn' = [r \in Conn |-> Free]
    /\ todo' = [p \in Proc |-> todo[p] \ ReportedBy(p)]
    /\ pc' = [p \in Proc |-> IF ~Waiting(p) THEN pc[p]
                             ELSE IF todo'[p] = {} THEN "idle" ELSE "working"]
    /\ UNCHANGED <<status, retry, due, execs>>

-----------------------------------------------------------------------------
(* Specification *)

ServeRequest(r) ==
    \/ SelectJobs(r) \/ AssignSelected(r) \/ Deliver(r)
    \/ ReadJob(r) \/ CompleteJob(r) \/ CheckRetry(r) \/ FailJob(r)
    \/ Acknowledge(r) \/ Discard(r)

AgentStep(p) == Poll(p) \/ ExecuteJob(p)

Fault == (\E p \in Proc : CallFails(p) \/ Crash(p)) \/ OrchestratorRestart

Next ==
    \/ \E j \in Job : CreateJob(j) \/ TimePasses(j)
    \/ \E p \in Proc : AgentStep(p) \/ Restart(p)
    \/ \E r \in Conn : ServeRequest(r)
    \/ Fault

\* The clock runs, the agent loop ticks as long as its process lives, and the
\* orchestrator serves every request it accepted.  Nothing else is promised:
\* no job has to be created, no fault has to happen, no dead agent restarts.
Fairness ==
    /\ \A j \in Job : WF_vars(TimePasses(j))
    /\ \A p \in Proc : WF_vars(AgentStep(p))
    /\ \A r \in Conn : WF_vars(ServeRequest(r))

Spec == Init /\ [][Next]_vars
FairSpec == Spec /\ Fairness

-----------------------------------------------------------------------------
(* Properties *)

\* A job is held while a response carries it to an agent that waits for it,
\* while it is in that agent's batch, and while the handler of its report has
\* not written the result yet.
InHand(p, j) == j \in todo[p]
InTransit(r, j) ==
    /\ j \in conn[r].jobs
    /\ \/ conn[r].step = "deliver" /\ conn[r].live
       \/ ~conn[r].live /\ conn[r].step \in ReportSteps \ {"ack"}
Held(j) == (\E p \in Proc : InHand(p, j)) \/ (\E r \in Conn : InTransit(r, j))

\* Assigned to an agent, and no agent has it or ever will: there is no reaper.
Stuck(j) == status[j] = "assigned" /\ ~Held(j)

\* Every execution is paid for, whatever is lost, crashes or restarts: a job
\* that waits has been executed once per retry counted, a settled one exactly
\* once more, one that is out at most once more; and no job is retried more
\* than max_retries times.  (AssignJobs some steps after the SELECT, and
\* UpdateJobFailed's retry_count, against the runs of executeJob.)
AttemptsAccounted ==
    \A j \in Job :
        /\ retry[j] <= MaxRetries
        /\ status[j] = "absent" => execs[j] = 0 /\ retry[j] = 0
        /\ status[j] = "pending" => execs[j] = retry[j]
        /\ status[j] \in Settled => execs[j] = retry[j] + 1
        /\ status[j] \in {"assigned", "cancelled"} => execs[j] \in {retry[j], retry[j] + 1}

\* No two agents work on one job, and no response carries a job that an agent
\* already has.
SingleHolder ==
    \A j \in Job :
        /\ \A p, q \in Proc : InHand(p, j) /\ InHand(q, j) => p = q
        /\ \A p \in Proc, r \in Conn :
             InHand(p, j) => ~InTransit(r, j)
        /\ \A r, s \in Conn : InTransit(r, j) /\ InTransit(s, j) => r = s

\* The answer "retry_scheduled" comes from the first read of the row, the retry
\* itself from a second one: when the answer is sent they agree.
RetryPromiseKept ==
    \A r \in Conn : conn[r].step = "ack" =>
        (RetryScheduled(conn[r]) <=> conn[r].next = "pending")

\* What becomes of a job that is cancelled (ScenarioFlow) after a poll selected it,
\* or while an agent has it and its report is not written.
Picked(j) == \E r \in Conn : conn[r].step = "assign" /\ j \in conn[r].jobs
Written(j) == \E r \in Conn : conn[r].step = "ack" /\ j \in conn[r].jobs
CancelledPhase(j) ==
    CASE Picked(j)                -> "picked"
      [] Held(j) /\ ~Written(j)   -> "recalled"
      [] OTHER                    -> "cancelled"

\* A job as the abstract specification sees it.
Phase(j) ==
    CASE status[j] = "absent"    -> "none"
      [] status[j] = "pending"   -> "waiting"
      [] status[j] = "assigned"  -> IF Held(j) THEN "out" ELSE "lost"
      [] status[j] = "cancelled" -> CancelledPhase(j)
      [] OTHER                   -> status[j]

Lifecycle == INSTANCE JobLifecycle
             WITH phase <- [j \in Job |-> Phase(j)], tries <- retry, Cancellable <- {}

\* The protocol implements the lifecycle: in particular a result, once written
\* as final, is final, a job goes out only from waiting, and it comes back only
\* from the agent that has it.
ImplementsLifecycle == Lifecycle!Spec

\* One process per agent id: the orchestrator does not enforce it, and with two
\* the SELECT and the UPDATE of two polls give both the same jobs.
OneProcessPerAgent == \A p, q \in Proc : agentId[p] = agentId[q] => p = q

\* The inductive invariant behind AttemptsAccounted.  CallInv: every handler
\* somebody waits for belongs to an agent that waits for exactly that request.
CallInv ==
    \A r \in Conn :
        /\ conn[r].step = "free" => conn[r] = Free
        /\ conn[r].step # "free" => conn[r].from \in Proc
        /\ conn[r].live =>
            /\ conn[r].step \in PollSteps => pc[conn[r].from] = "polling"
            /\ conn[r].step \in ReportSteps => pc[conn[r].from] = "reporting"
            /\ \A s \in Conn : conn[s].live /\ conn[s].from = conn[r].from => s = r

\* What a job in hand may be: nothing here cancels one, but a DELETE may
\* (ScenarioFlow), and all but Dispatch's own promises hold with that too.
Out == {"assigned", "cancelled"}

\* PollInv: between the SELECT and the UPDATE of a poll that an agent waits for
\* nobody else gets the jobs it selected, and those of its response are assigned
\* and not yet executed in this attempt.  A poll that outlived its request may
\* hold any job: what it assigns then, it gives to nobody.
PollInv ==
    \A r \in Conn :
        /\ conn[r].step = "select" => conn[r].jobs = {}
        /\ conn[r].live /\ conn[r].step \in {"assign", "deliver"} =>
            \A j \in conn[r].jobs :
                /\ owner[j] = agentId[conn[r].from]
                /\ status[j] \in Out \cup (IF conn[r].step = "assign" THEN {"pending"} ELSE {})
                /\ execs[j] = retry[j]

\* ReportInv: until a report is written, whether its agent still waits or not, its
\* job is assigned, no other report is about to write it, and what the two reads
\* of its row found still holds when the row is written.
Unwritten(r) == conn[r].step \in ReportSteps \ {"ack"}
ReportInv ==
    \A r \in Conn : conn[r].step \in ReportSteps =>
        \E j \in Job :
            /\ conn[r].jobs = {j}
            /\ owner[j] = agentId[conn[r].from]
            /\ conn[r].live => j \in todo[conn[r].from]
            /\ conn[r].outcome \in Outcomes
            /\ Unwritten(r) => status[j] \in Out /\ execs[j] = retry[j] + 1
            /\ conn[r].live \/ Unwritten(r) =>
                \A s \in Conn : Unwritten(s) /\ j \in conn[s].jobs => s = r
            /\ conn[r].step = "complete" =>
                conn[r].outcome = "completed" /\ conn[r].next = "none"
            /\ conn[r].step = "check" => conn[r].outcome = "failed" /\ conn[r].seen = retry[j]
            /\ conn[r].step = "fail" =>
                /\ conn[r].outcome = "failed" => conn[r].seen = retry[j]
                /\ conn[r].next = IF conn[r].outcome = "failed" /\ retry[j] < MaxRetries
                                  THEN "pending" ELSE "failed"

\* BatchInv: an agent holds only jobs of its own id; all but the one it is
\* reporting are assigned and not yet executed in this attempt.
BatchInv ==
    \A p \in Proc :
        /\ pc[p] \notin {"working", "reporting"} => todo[p] = {}
        /\ \A j \in todo[p] : owner[j] = agentId[p]
        /\ \A j \in todo[p] :
            \/ \E r \in Conn : /\ conn[r].live /\ conn[r].from = p
                              /\ conn[r].step \in ReportSteps /\ j \in conn[r].jobs
            \/ status[j] \in Out /\ execs[j] = retry[j]

IInv ==
    /\ TypeOK
    /\ CallInv
    /\ PollInv
    /\ ReportInv
    /\ BatchInv
    /\ AttemptsAccounted
    /\ RetryPromiseKept

\* The single-flight discipline the life of a job rests on: in addition, a
\* cancelled request does nothing more.
SingleFlight == ~Linger /\ OneProcessPerAgent

\* What it adds to the invariant: every handler has an agent that waits for it,
\* and a poll is about to assign only what nobody has assigned since its SELECT.
Prompt ==
    \A r \in Conn :
        /\ conn[r].step # "free" => conn[r].live
        /\ conn[r].step = "assign" =>
            \A j \in conn[r].jobs : status[j] \in {"pending", "cancelled"}

FlightInv == IInv /\ Prompt

\* A job gets stuck in assigned in the very step of a fault, never through a
\* race between the handlers alone.
StuckOnlyByFault ==
    [][\A j \in Job : Stuck(j)' /\ ~Stuck(j) => faults' > faults]_vars

\* Every job that exists is settled in the end, unless a fault left it stuck or
\* every process of its agent is down.
EventuallySettled ==
    \A j \in Job :
        status[j] = "pending" ~>
            \/ status[j] \in Settled
            \/ Stuck(j)
            \/ \A p \in Proc : agentId[p] = owner[j] => pc[p] = "down"
=============================================================================
