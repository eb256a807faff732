--------------------------- MODULE DispatchProofs ---------------------------
(***************************************************************************)
(* Proofs about Dispatch for every set of jobs, agents, processes and      *)
(* connections, every batch size and every number of retries and faults.   *)
(***************************************************************************)
EXTENDS Dispatch, TLAPS

-----------------------------------------------------------------------------
(* Type correctness *)

\* What a query returns is a set of jobs it was asked to choose from.
LEMMA TopSubset ==
    ASSUME NEW S, NEW n, NEW T \in Top(S, n)
    PROVE  T \subseteq S
BY DEF Top

LEMMA EligibleType ==
    ASSUME NEW a
    PROVE  TypeOK => Eligible(a) \subseteq Job
BY DEF Eligible, TypeOK, StoreTypeOK

LEMMA FreeType == Free \in Request
BY DEF Free, Request, Steps

LEMMA TypeInit == Init => TypeOK
<1> USE JobStoreAssumption, DispatchAssumption
<1> SUFFICES ASSUME Init PROVE TypeOK
    OBVIOUS
<1>1. StoreTypeOK
    BY DEF Init, StoreInit, StoreTypeOK, JobStatus
<1>2. conn \in [Conn -> Request]
    BY FreeType DEF Init
<1> QED
    BY <1>1, <1>2 DEF Init, TypeOK

\* One request changes into another: the connections keep their type.
LEMMA ConnType ==
    ASSUME conn \in [Conn -> Request], NEW r, NEW q,
           conn' = [conn EXCEPT ![r] = q], r \in Conn => q \in Request
    PROVE  conn' \in [Conn -> Request]
OBVIOUS

\* A handler that only moves on to its next step.
LEMMA StepType ==
    ASSUME conn \in [Conn -> Request], NEW r \in Conn, NEW next \in Steps \ {"fail"},
           conn' = [conn EXCEPT ![r].step = next]
    PROVE  conn' \in [Conn -> Request]
<1> DEFINE q == [conn[r] EXCEPT !.step = next]
<1>1. q \in Request
    BY DEF Request
<1>2. conn' = [conn EXCEPT ![r] = q]
    BY DEF Request
<1> QED
    BY <1>1, <1>2, ConnType

\* The same for a request that is given up.
LEMMA AbandonType ==
    ASSUME conn \in [Conn -> Request], NEW r \in Conn, Abandon(r)
    PROVE  conn' \in [Conn -> Request]
<1>1. CASE conn' = [conn EXCEPT ![r] = Free]
    BY <1>1, FreeType, ConnType
<1>2. CASE conn' = [conn EXCEPT ![r].live = FALSE]
  <2> DEFINE q == [conn[r] EXCEPT !.live = FALSE]
  <2>1. q \in Request
    BY DEF Request
  <2>2. conn' = [conn EXCEPT ![r] = q]
    BY <1>2 DEF Request
  <2> QED
    BY <2>1, <2>2, ConnType
<1> QED
    BY <1>1, <1>2 DEF Abandon

\* What SelectJobs, CheckRetry and ExecuteJob make of the requests, field by field.
LEMMA SelectEffect ==
    ASSUME TypeOK, NEW r \in Conn, SelectJobs(r)
    PROVE  /\ conn' \in [Conn -> Request]
           /\ \A s \in Conn \ {r} : conn'[s] = conn[s]
           /\ conn'[r].step = IF conn'[r].jobs = {} THEN "deliver" ELSE "assign"
           /\ conn'[r].from = conn[r].from /\ conn'[r].live = conn[r].live
           /\ conn'[r].jobs \subseteq Eligible(agentId[conn[r].from])
<1>1. PICK found \in Top(Eligible(agentId[conn[r].from]), MaxBatch + 1) :
        \E kept \in Top(found, MaxBatch) :
           conn' = [conn EXCEPT
                       ![r].step = IF kept = {} THEN "deliver" ELSE "assign",
                       ![r].jobs = kept]
    BY DEF SelectJobs
<1>2. PICK kept \in Top(found, MaxBatch) :
           conn' = [conn EXCEPT
                       ![r].step = IF kept = {} THEN "deliver" ELSE "assign",
                       ![r].jobs = kept]
    BY <1>1
<1>3. kept \subseteq Eligible(agentId[conn[r].from]) /\ kept \in SUBSET Job
    BY TopSubset, EligibleType
<1> DEFINE q == [conn[r] EXCEPT !.step = IF kept = {} THEN "deliver" ELSE "assign",
                                !.jobs = kept]
<1>4. conn[r] \in Request /\ conn \in [Conn -> Request]
    BY DEF TypeOK
<1>5. q \in Request
    BY <1>3, <1>4 DEF Request, Steps
<1>6. conn' = [conn EXCEPT ![r] = q]
    BY <1>2, <1>4 DEF Request
<1>7. /\ q.step = IF kept = {} THEN "deliver" ELSE "assign"
      /\ q.jobs = kept /\ q.from = conn[r].from /\ q.live = conn[r].live
    BY <1>4 DEF Request
<1> HIDE DEF q
<1> QED
    BY <1>3, <1>4, <1>5, <1>6, <1>7

LEMMA CheckEffect ==
    ASSUME TypeOK, NEW r \in Conn, CheckRetry(r)
    PROVE  \E j \in conn[r].jobs :
           /\ conn' \in [Conn -> Request]
           /\ \A s \in Conn \ {r} : conn'[s] = conn[s]
           /\ conn'[r].step = "fail" /\ conn'[r].next = RetryDecision(j)
           /\ conn'[r].from = conn[r].from /\ conn'[r].live = conn[r].live
           /\ conn'[r].jobs = conn[r].jobs /\ conn'[r].outcome = conn[r].outcome
           /\ conn'[r].seen = conn[r].seen
<1>1. PICK j \in conn[r].jobs :
            conn' = [conn EXCEPT ![r].step = "fail", ![r].next = RetryDecision(j)]
    BY DEF CheckRetry
<1> DEFINE q == [conn[r] EXCEPT !.step = "fail", !.next = RetryDecision(j)]
<1>2. conn[r] \in Request /\ conn \in [Conn -> Request]
    BY DEF TypeOK
<1>3. q \in Request
    BY <1>2 DEF Request, Steps, RetryDecision
<1>4. conn' = [conn EXCEPT ![r] = q]
    BY <1>1, <1>2 DEF Request
<1>5. /\ q.step = "fail" /\ q.next = RetryDecision(j)
      /\ q.jobs = conn[r].jobs /\ q.from = conn[r].from /\ q.live = conn[r].live
      /\ q.outcome = conn[r].outcome /\ q.seen = conn[r].seen
    BY <1>2 DEF Request
<1> HIDE DEF q
<1> QED
    BY <1>2, <1>3, <1>4, <1>5

\* ExecuteJob(p) with the request r, the result and the job it chose.
Executes(p, r, outcome, j) ==
    /\ conn' \in [Conn -> Request]
    /\ \A s \in Conn \ {r} : conn'[s] = conn[s]
    /\ conn[r].step = "free" /\ conn'[r].step = "read"
    /\ conn'[r].from = p /\ conn'[r].live /\ conn'[r].jobs = {j}
    /\ conn'[r].outcome = outcome
    /\ execs' = [execs EXCEPT ![j] = @ + 1]

LEMMA ExecuteEffect ==
    ASSUME TypeOK, NEW p \in Proc, ExecuteJob(p)
    PROVE  \E r \in Conn, outcome \in Outcomes, j \in todo[p] : Executes(p, r, outcome, j)
<1>1. PICK r \in Conn, outcome \in Outcomes :
        \E j \in todo[p] :
          /\ conn[r].step = "free"
          /\ conn' = [conn EXCEPT ![r] = [Free EXCEPT !.step = "read", !.from = p,
                            !.live = TRUE, !.jobs = {j}, !.outcome = outcome]]
          /\ execs' = [execs EXCEPT ![j] = @ + 1]
    BY DEF ExecuteJob
<1>2. PICK j \in todo[p] :
          /\ conn' = [conn EXCEPT ![r] = [Free EXCEPT !.step = "read", !.from = p,
                            !.live = TRUE, !.jobs = {j}, !.outcome = outcome]]
          /\ execs' = [execs EXCEPT ![j] = @ + 1]
    BY <1>1
<1> DEFINE q == [Free EXCEPT !.step = "read", !.from = p, !.live = TRUE,
                             !.jobs = {j}, !.outcome = outcome]
<1>3. j \in Job /\ conn \in [Conn -> Request]
    BY DEF TypeOK
<1>4. q \in Request
    BY <1>3 DEF Request, Steps, Free
<1>5. q.step = "read" /\ q.from = p /\ q.live /\ q.jobs = {j} /\ q.outcome = outcome
    BY DEF Free
<1>6. conn' = [conn EXCEPT ![r] = q] /\ execs' = [execs EXCEPT ![j] = @ + 1]
    BY <1>2, Zenon
<1> HIDE DEF q
<1>7. Executes(p, r, outcome, j)
    BY <1>1, <1>3, <1>4, <1>5, <1>6 DEF Executes
<1> QED
    BY <1>7

\* The table keeps its type under each statement.
LEMMA StoreType ==
    ASSUME StoreTypeOK,
           \/ \E js \in SUBSET Job : InsertJobs(js) \/ AssignJobs(js)
           \/ \E j \in Job : BecomeDue(j) \/ UpdateJobCompleted(j)
           \/ \E j \in Job, next \in {"pending", "failed"} : UpdateJobFailed(j, next)
           \/ UNCHANGED store
    PROVE  StoreTypeOK'
<1> USE DEF StoreTypeOK, JobStatus
<1>1. ASSUME NEW js \in SUBSET Job, InsertJobs(js) \/ AssignJobs(js)
      PROVE  StoreTypeOK'
    BY <1>1 DEF InsertJobs, AssignJobs
<1>2. ASSUME NEW j \in Job, BecomeDue(j) \/ UpdateJobCompleted(j)
      PROVE  StoreTypeOK'
    BY <1>2 DEF BecomeDue, UpdateJobCompleted
<1>3. ASSUME NEW j \in Job, NEW next \in {"pending", "failed"}, UpdateJobFailed(j, next)
      PROVE  StoreTypeOK'
    BY <1>3 DEF UpdateJobFailed
<1>4. CASE UNCHANGED store
    BY <1>4 DEF store
<1> QED
    BY <1>1, <1>2, <1>3, <1>4

LEMMA TypeStep == TypeOK /\ [Next]_vars => TypeOK'
<1> USE JobStoreAssumption, DispatchAssumption
<1> SUFFICES ASSUME TypeOK, [Next]_vars PROVE TypeOK'
    OBVIOUS
<1>a. StoreTypeOK
    BY DEF TypeOK
<1>b. ASSUME UNCHANGED store PROVE StoreTypeOK'
    BY <1>a, <1>b DEF store, StoreTypeOK
<1> USE DEF Request, Free, Steps
<1>1. ASSUME NEW j \in Job, CreateJob(j) PROVE TypeOK'
  <2>1. StoreTypeOK'
    BY <1>1, <1>a, StoreType DEF CreateJob
  <2> QED
    BY <1>1, <2>1 DEF CreateJob, TypeOK
<1>2. ASSUME NEW j \in Job, TimePasses(j) PROVE TypeOK'
  <2>1. StoreTypeOK'
    BY <1>2, <1>a, StoreType DEF TimePasses
  <2> QED
    BY <1>2, <2>1 DEF TimePasses, TypeOK
<1>3. ASSUME NEW p \in Proc, Poll(p) PROVE TypeOK'
  <2> DEFINE q == [Free EXCEPT !.step = "select", !.from = p, !.live = TRUE]
  <2>1. PICK r \in Conn : conn' = [conn EXCEPT ![r] = q]
    BY <1>3 DEF Poll
  <2>2. q \in Request
    OBVIOUS
  <2>3. conn' \in [Conn -> Request]
    BY <2>1, <2>2, ConnType DEF TypeOK
  <2> QED
    BY <1>3, <1>b, <2>3 DEF Poll, TypeOK, store
<1>4. ASSUME NEW p \in Proc, ExecuteJob(p) PROVE TypeOK'
  <2>1. conn' \in [Conn -> Request] /\ execs' \in [Job -> Nat]
    BY <1>4, ExecuteEffect DEF Executes, TypeOK
  <2> QED
    BY <1>4, <1>b, <2>1 DEF ExecuteJob, TypeOK, store
<1>5. ASSUME NEW p \in Proc, Restart(p) PROVE TypeOK'
    BY <1>5, <1>b DEF Restart, TypeOK, store
<1>6. ASSUME NEW r \in Conn, SelectJobs(r) PROVE TypeOK'
  <2>1. conn' \in [Conn -> Request]
    BY <1>6, SelectEffect DEF TypeOK
  <2> QED
    BY <1>6, <1>b, <2>1 DEF SelectJobs, TypeOK, store
<1>7. ASSUME NEW r \in Conn, AssignSelected(r) PROVE TypeOK'
  <2>1. conn[r].jobs \in SUBSET Job
    BY DEF TypeOK
  <2>2. StoreTypeOK'
    BY <1>7, <1>a, <2>1, StoreType DEF AssignSelected
  <2>3. conn' \in [Conn -> Request]
    BY <1>7, StepType DEF AssignSelected, TypeOK
  <2> QED
    BY <1>7, <2>2, <2>3 DEF AssignSelected, TypeOK
<1>8. ASSUME NEW r \in Conn, Deliver(r) PROVE TypeOK'
  <2>1. conn' \in [Conn -> Request]
    BY <1>8, FreeType, ConnType DEF Deliver, TypeOK
  <2> QED
    BY <1>8, <1>b, <2>1 DEF Deliver, TypeOK, store
<1>9. ASSUME NEW r \in Conn, ReadJob(r) PROVE TypeOK'
    BY <1>9, <1>b DEF ReadJob, Handling, TypeOK, StoreTypeOK, store
<1>10. ASSUME NEW r \in Conn, CompleteJob(r) PROVE TypeOK'
  <2>1. PICK j \in conn[r].jobs : UpdateJobCompleted(j)
    BY <1>10 DEF CompleteJob
  <2>2. StoreTypeOK'
    BY <1>a, <2>1, StoreType DEF TypeOK
  <2>3. conn' \in [Conn -> Request]
    BY <1>10, StepType DEF CompleteJob, TypeOK
  <2> QED
    BY <1>10, <2>2, <2>3 DEF CompleteJob, TypeOK
<1>11. ASSUME NEW r \in Conn, CheckRetry(r) PROVE TypeOK'
  <2>1. conn' \in [Conn -> Request]
    BY <1>11, CheckEffect DEF TypeOK
  <2> QED
    BY <1>11, <1>b, <2>1 DEF CheckRetry, TypeOK, store
<1>12. ASSUME NEW r \in Conn, FailJob(r) PROVE TypeOK'
  <2>1. PICK j \in conn[r].jobs : UpdateJobFailed(j, conn[r].next)
    BY <1>12 DEF FailJob
  <2>2. j \in Job /\ conn[r].next \in {"pending", "failed"}
    BY <1>12 DEF FailJob, TypeOK
  <2>3. StoreTypeOK'
    BY <1>a, <2>1, <2>2, StoreType
  <2>4. conn' \in [Conn -> Request]
    BY <1>12, StepType DEF FailJob, TypeOK
  <2> QED
    BY <1>12, <2>3, <2>4 DEF FailJob, TypeOK
<1>13. ASSUME NEW r \in Conn, Acknowledge(r) PROVE TypeOK'
    BY <1>13, <1>b DEF Acknowledge, AfterReport, TypeOK, store
<1>14. ASSUME NEW r \in Conn, Discard(r) PROVE TypeOK'
    BY <1>14, <1>b DEF Discard, TypeOK, store
<1>15. ASSUME NEW p \in Proc, CallFails(p) PROVE TypeOK'
  <2>1. PICK r \in Serving(p) :
        /\ Abandon(r)
        /\ IF pc[p] = "polling"
           THEN pc' = [pc EXCEPT ![p] = "idle"] /\ UNCHANGED todo
           ELSE AfterReport(p, todo[p] \ conn[r].jobs)
    BY <1>15 DEF CallFails
  <2>2. conn' \in [Conn -> Request]
    BY <2>1, AbandonType DEF Serving, TypeOK
  <2>3. pc' \in [Proc -> {"idle", "polling", "working", "reporting", "down"}]
    BY <2>1 DEF AfterReport, TypeOK
  <2>4. todo' \in [Proc -> SUBSET Job]
    BY <2>1 DEF AfterReport, TypeOK
  <2> QED
    BY <1>15, <1>b, <2>2, <2>3, <2>4 DEF CallFails, TypeOK, store
<1>16. ASSUME NEW p \in Proc, Crash(p) PROVE TypeOK'
  <2>1. conn' \in [Conn -> Request]
    BY <1>16, AbandonType DEF Crash, Serving, TypeOK
  <2> QED
    BY <1>16, <1>b, <2>1 DEF Crash, TypeOK, store
<1>17. ASSUME OrchestratorRestart PROVE TypeOK'
    BY <1>17, <1>b DEF OrchestratorRestart, TypeOK, store
<1>18. CASE UNCHANGED vars
    BY <1>18, <1>b DEF vars, TypeOK, store
<1> QED
    BY <1>1, <1>2, <1>3, <1>4, <1>5, <1>6, <1>7, <1>8, <1>9, <1>10, <1>11, <1>12, <1>13,
       <1>14, <1>15, <1>16, <1>17, <1>18
    DEF Next, AgentStep, ServeRequest, Fault

\* The columns, the agents' batches and the handlers' records keep their types
\* for every instance, with and without handlers that outlive their request.
THEOREM TypeCorrect == Spec => []TypeOK
<1> QED
    BY TypeInit, TypeStep, PTL DEF Spec

-----------------------------------------------------------------------------
(***************************************************************************)
(* The inductive invariant: with one process per agent id every step, that *)
(* of a handler, of an agent or of a fault, preserves IInv.                *)
(***************************************************************************)

\* A request that is given up: nobody waits for it, and either it is gone or its
\* handler goes on as before.
LEMMA AbandonEffect ==
    ASSUME conn \in [Conn -> Request], NEW r \in Conn, Abandon(r)
    PROVE  /\ \A s \in Conn \ {r} : conn'[s] = conn[s]
           /\ ~conn'[r].live
           /\ \/ conn'[r] = Free
              \/ /\ Linger
                 /\ conn'[r].step = conn[r].step /\ conn'[r].from = conn[r].from
                 /\ conn'[r].jobs = conn[r].jobs /\ conn'[r].outcome = conn[r].outcome
                 /\ conn'[r].seen = conn[r].seen /\ conn'[r].next = conn[r].next
<1>1. CASE conn' = [conn EXCEPT ![r] = Free]
    BY <1>1 DEF Free
<1>2. CASE Linger /\ conn' = [conn EXCEPT ![r].live = FALSE]
    BY <1>2 DEF Request
<1> QED
    BY <1>1, <1>2 DEF Abandon

LEMMA InvStep == OneProcessPerAgent /\ IInv /\ [Next]_vars => IInv'
<1> USE JobStoreAssumption, DispatchAssumption DEF Out, Unwritten
<1> SUFFICES ASSUME OneProcessPerAgent, IInv, [Next]_vars PROVE IInv'
    OBVIOUS
<1> /\ TypeOK /\ CallInv /\ PollInv /\ ReportInv
    /\ BatchInv /\ AttemptsAccounted /\ RetryPromiseKept
    BY DEF IInv
<1>t. TypeOK'
    BY TypeStep
<1>f. \A s \in Conn : /\ conn[s].step \in Steps /\ conn[s].jobs \subseteq Job
                      /\ conn[s].from \in Proc \cup {NoProc}
    BY DEF TypeOK, Request
<1>w. \A s \in Conn : conn[s].live => conn[s].step # "free" /\ conn[s].from \in Proc
    BY DEF CallInv, Free
<1>1. ASSUME NEW j \in Job, CreateJob(j) PROVE IInv'
  <2>1. CallInv'
    BY <1>1 DEF CreateJob, InsertJobs, CallInv
  <2>2. PollInv'
    BY <1>1 DEF CreateJob, InsertJobs, PollInv, TypeOK, Request
  <2>3. ReportInv'
    BY <1>1 DEF CreateJob, InsertJobs, ReportInv
  <2>4. BatchInv'
    BY <1>1 DEF CreateJob, InsertJobs, BatchInv, TypeOK
  <2>5. AttemptsAccounted'
    BY <1>1 DEF CreateJob, InsertJobs, AttemptsAccounted, Settled
  <2>6. RetryPromiseKept'
    BY <1>1 DEF CreateJob, InsertJobs, RetryPromiseKept
  <2> QED
    BY <1>t, <2>1, <2>2, <2>3, <2>4, <2>5, <2>6 DEF IInv
<1>2. ASSUME NEW j \in Job, TimePasses(j) PROVE IInv'
  <2>1. CallInv'
    BY <1>2 DEF TimePasses, BecomeDue, CallInv
  <2>2. PollInv'
    BY <1>2 DEF TimePasses, BecomeDue, PollInv
  <2>3. ReportInv'
    BY <1>2 DEF TimePasses, BecomeDue, ReportInv
  <2>4. BatchInv'
    BY <1>2 DEF TimePasses, BecomeDue, BatchInv
  <2>5. AttemptsAccounted'
    BY <1>2 DEF TimePasses, BecomeDue, AttemptsAccounted
  <2>6. RetryPromiseKept'
    BY <1>2 DEF TimePasses, BecomeDue, RetryPromiseKept
  <2> QED
    BY <1>t, <2>1, <2>2, <2>3, <2>4, <2>5, <2>6 DEF IInv
<1>3. ASSUME NEW p \in Proc, Poll(p) PROVE IInv'
  <2>1. CallInv'
    BY <1>3
    DEF Poll, Free, CallInv, TypeOK, Request, Steps, BatchInv, PollSteps, ReportSteps
  <2>2. PollInv'
    BY <1>3 DEF Poll, Free, PollInv
  <2>3. ReportInv'
    BY <1>3 DEF Poll, ReportInv, ReportSteps
  <2>4. BatchInv'
    BY <1>3 DEF Poll, BatchInv, ReportInv, ReportSteps
  <2>5. AttemptsAccounted'
    BY <1>3 DEF Poll, AttemptsAccounted
  <2>6. RetryPromiseKept'
    BY <1>3 DEF Poll, RetryPromiseKept
  <2> QED
    BY <1>t, <2>1, <2>2, <2>3, <2>4, <2>5, <2>6 DEF IInv
<1>4. ASSUME NEW p \in Proc, ExecuteJob(p) PROVE IInv'
  <2>a. PICK r \in Conn, outcome \in Outcomes, j \in todo[p] : Executes(p, r, outcome, j)
    BY <1>4, ExecuteEffect
  <2> USE DEF Executes
  <2>c. \A s \in Conn : conn[s].live => conn[s].from # p
    BY <1>4, <1>f, <1>w DEF ExecuteJob, Steps, CallInv, PollSteps, ReportSteps
  <2>d. status[j] \in Out /\ execs[j] = retry[j]
    BY <1>4, <2>c DEF ExecuteJob, ReportInv, BatchInv, ReportSteps
  <2>e. \A s \in Conn : j \in conn[s].jobs =>
            ~Unwritten(s) /\ ~(conn[s].live /\ conn[s].step \in {"assign", "deliver"})
    <3>1. owner[j] = agentId[p] /\ retry[j] \in Nat /\ j \in Job
      BY DEF BatchInv, TypeOK, StoreTypeOK
    <3>2. ASSUME NEW s \in Conn, j \in conn[s].jobs, Unwritten(s) PROVE FALSE
      BY <2>d, <3>1, <3>2 DEF ReportInv
    <3>3. ASSUME NEW s \in Conn, j \in conn[s].jobs, conn[s].live,
                 conn[s].step \in {"assign", "deliver"}
          PROVE  FALSE
      BY <1>w, <2>c, <3>1, <3>3 DEF PollInv, OneProcessPerAgent
    <3> QED
      BY <3>2, <3>3
  <2>u. /\ pc[p] = "working" /\ pc' = [pc EXCEPT ![p] = "reporting"]
        /\ UNCHANGED <<status, retry, due, todo, faults>>
    BY <1>4 DEF ExecuteJob
  <2>1. CallInv'
    BY <2>u, <1>f, <2>a, <2>c, <2>d, <2>e DEF CallInv, Free, PollSteps, TypeOK, Executes
  <2>2. PollInv'
    BY <2>u, <1>f, <2>a, <2>c, <2>d, <2>e DEF PollInv
  <2>3. ReportInv'
    <3>1. owner[j] = agentId[p] /\ j \in Job /\ execs[j] \in Nat
      BY DEF BatchInv, TypeOK
    <3>2. ASSUME NEW s \in Conn, s # r, conn'[s].step \in ReportSteps
          PROVE  /\ conn'[s] = conn[s] /\ conn[s].step \in ReportSteps
                 /\ Unwritten(s) => j \notin conn[s].jobs
      BY <2>a, <2>e, <3>2
    <3>3. ASSUME NEW s \in Conn, s # r, conn[s].step \in ReportSteps, conn[s].live
          PROVE  j \notin conn[s].jobs
      BY <1>w, <2>c, <3>1, <3>3 DEF ReportInv, OneProcessPerAgent
    <3>4. conn'[r].step \in ReportSteps /\ Unwritten(r)'
      BY <2>a DEF ReportSteps
    <3>5. status'[j] \in Out /\ execs'[j] = retry'[j] + 1
      BY <2>u, <2>a, <2>d, <3>1 DEF TypeOK
    <3>6. \A i \in Job : i # j => execs'[i] = execs[i]
      BY <2>a DEF TypeOK
    <3>7. ASSUME NEW s \in Conn, Unwritten(s)', j \in conn'[s].jobs PROVE s = r
      BY <2>e, <3>2, <3>7
    <3>8. todo' = todo /\ status' = status /\ retry' = retry
      BY <2>u
    <3> QED
      BY <2>a, <3>1, <3>2, <3>3, <3>4, <3>5, <3>6, <3>7, <3>8 DEF ReportInv
  <2>4. BatchInv'
    BY <2>u, <1>f, <2>a, <2>c, <2>d, <2>e
    DEF Executes, BatchInv, ReportSteps, StoreTypeOK, OneProcessPerAgent
  <2>5. AttemptsAccounted'
    BY <2>u, <1>f, <2>a, <2>c, <2>d, <2>e DEF AttemptsAccounted
  <2>6. RetryPromiseKept'
    BY <2>u, <1>f, <2>a, <2>c, <2>d, <2>e DEF RetryPromiseKept
  <2> QED
    BY <1>t, <2>1, <2>2, <2>3, <2>4, <2>5, <2>6 DEF IInv
<1>5. ASSUME NEW p \in Proc, Restart(p) PROVE IInv'
  <2>1. CallInv'
    BY <1>5 DEF Restart, CallInv, TypeOK
  <2>2. PollInv'
    BY <1>5 DEF Restart, PollInv
  <2>3. ReportInv'
    BY <1>5 DEF Restart, ReportInv
  <2>4. BatchInv'
    BY <1>5 DEF Restart, BatchInv
  <2>5. AttemptsAccounted'
    BY <1>5 DEF Restart, AttemptsAccounted
  <2>6. RetryPromiseKept'
    BY <1>5 DEF Restart, RetryPromiseKept
  <2> QED
    BY <1>t, <2>1, <2>2, <2>3, <2>4, <2>5, <2>6 DEF IInv
<1>6. ASSUME NEW r \in Conn, SelectJobs(r) PROVE IInv'
  <2>a. /\ conn' \in [Conn -> Request]
        /\ \A s \in Conn \ {r} : conn'[s] = conn[s]
        /\ conn'[r].step = IF conn'[r].jobs = {} THEN "deliver" ELSE "assign"
        /\ conn'[r].from = conn[r].from /\ conn'[r].live = conn[r].live
        /\ conn'[r].jobs \subseteq Eligible(agentId[conn[r].from])
    BY <1>6, SelectEffect
  <2>c. \A j \in conn'[r].jobs : status[j] = "pending" /\ owner[j] = agentId[conn[r].from]
    BY <2>a DEF Eligible
  <2>u. /\ conn[r].step = "select"
        /\ UNCHANGED <<status, retry, due, pc, todo, execs, faults>>
    BY <1>6 DEF SelectJobs
  <2>1. CallInv'
    BY <2>u, <1>f, <2>a, <2>c DEF CallInv, PollSteps, ReportSteps
  <2>2. PollInv'
    BY <2>u, <1>f, <2>a, <2>c DEF PollInv, Request, AttemptsAccounted
  <2>3. ReportInv'
    BY <2>u, <1>f, <2>a, <2>c DEF ReportInv, ReportSteps
  <2>4. BatchInv'
    BY <2>u, <1>f, <2>a, <2>c
    DEF BatchInv, PollInv, ReportInv, AttemptsAccounted, RetryPromiseKept, JobStatus
  <2>5. AttemptsAccounted'
    BY <2>u, <1>f, <2>a, <2>c DEF AttemptsAccounted
  <2>6. RetryPromiseKept'
    BY <2>u, <1>f, <2>a, <2>c DEF RetryPromiseKept
  <2> QED
    BY <1>t, <2>1, <2>2, <2>3, <2>4, <2>5, <2>6 DEF IInv
<1>7. ASSUME NEW r \in Conn, AssignSelected(r) PROVE IInv'
  <2>a. \A s \in Conn : /\ conn'[s].jobs = conn[s].jobs /\ conn'[s].from = conn[s].from
                        /\ conn'[s].live = conn[s].live
                        /\ conn[s].step \in ReportSteps => conn'[s].step = conn[s].step
    BY <1>7 DEF AssignSelected, TypeOK, Request, ReportSteps
  <2>b. /\ \A j \in Job : status[j] \in Out => status'[j] \in Out
        /\ UNCHANGED <<retry, pc, todo, execs>>
    BY <1>7 DEF AssignSelected, AssignJobs
  <2>1. CallInv'
    BY <1>7 DEF AssignSelected, AssignJobs, CallInv, TypeOK, PollSteps, ReportSteps
  <2>2. PollInv'
    BY <1>7 DEF AssignSelected, AssignJobs, PollInv, TypeOK, Request, CallInv, OneProcessPerAgent
  <2>3. ReportInv'
    BY <1>7 DEF AssignSelected, AssignJobs, ReportInv, ReportSteps
  <2>4. BatchInv'
    BY <2>a, <2>b DEF BatchInv, TypeOK
  <2>5. AttemptsAccounted'
    BY <1>7 DEF AssignSelected, AssignJobs, AttemptsAccounted, Settled, TypeOK, StoreTypeOK,
       JobStatus
  <2>6. RetryPromiseKept'
    BY <1>7 DEF AssignSelected, AssignJobs, RetryPromiseKept
  <2> QED
    BY <1>t, <2>1, <2>2, <2>3, <2>4, <2>5, <2>6 DEF IInv
<1>8. ASSUME NEW r \in Conn, Deliver(r) PROVE IInv'
  <2>1. CallInv'
    BY <1>8 DEF Deliver, Free, CallInv, TypeOK, PollSteps, ReportSteps
  <2>2. PollInv'
    BY <1>8 DEF Deliver, Free, PollInv
  <2>3. ReportInv'
    BY <1>8 DEF Deliver, Free, ReportInv, CallInv, ReportSteps
  <2>4. BatchInv'
    BY <1>8 DEF Deliver, BatchInv, TypeOK, PollInv
  <2>5. AttemptsAccounted'
    BY <1>8 DEF Deliver, AttemptsAccounted
  <2>6. RetryPromiseKept'
    BY <1>8 DEF Deliver, Free, RetryPromiseKept
  <2> QED
    BY <1>t, <2>1, <2>2, <2>3, <2>4, <2>5, <2>6 DEF IInv
<1>9. ASSUME NEW r \in Conn, ReadJob(r) PROVE IInv'
  <2>a. \A s \in Conn : /\ conn'[s].jobs = conn[s].jobs /\ conn'[s].from = conn[s].from
                        /\ conn'[s].live = conn[s].live
                        /\ conn[s].step \in ReportSteps => conn'[s].step \in ReportSteps
                        /\ conn[s].step \notin ReportSteps => conn'[s] = conn[s]
                        /\ conn'[s].step \in {"select", "assign", "deliver"} =>
                             conn[s].step \notin ReportSteps
    BY <1>9 DEF ReadJob, Handling, TypeOK, Request, ReportSteps
  <2>b. UNCHANGED <<status, retry, pc, todo, execs>>
    BY <1>9 DEF ReadJob
  <2>1. CallInv'
    BY <1>9 DEF ReadJob, Handling, CallInv, TypeOK, Request
  <2>2. PollInv'
    BY <2>a, <2>b DEF PollInv
  <2>3. ReportInv'
    <3>1. PICK j \in Job : conn[r].jobs = {j}
      BY <1>9 DEF ReadJob, ReportInv, ReportSteps
    <3>2. /\ \A s \in Conn : s # r => conn'[s] = conn[s]
          /\ conn'[r].outcome = conn[r].outcome
          /\ conn'[r].seen = retry[j]
          /\ conn'[r].next = IF Handling(conn[r].outcome) = "fail" THEN "failed" ELSE "none"
          /\ conn'[r].step \in {"ack", Handling(conn[r].outcome)}
      BY <1>9, <3>1 DEF ReadJob, TypeOK, Request
    <3>3. conn[r].step = "read"
      BY <1>9 DEF ReadJob
    <3>4. PICK i \in Job :
            /\ conn[r].jobs = {i} /\ owner[i] = agentId[conn[r].from]
            /\ conn[r].live => i \in todo[conn[r].from]
            /\ conn[r].outcome \in Outcomes
            /\ status[i] \in Out /\ execs[i] = retry[i] + 1
            /\ \A s \in Conn : Unwritten(s) /\ i \in conn[s].jobs => s = r
      BY <3>3 DEF ReportInv, ReportSteps
    <3>5. i = j
      BY <3>1, <3>4
    <3>6. /\ conn'[r].step = "complete" =>
               conn'[r].outcome = "completed" /\ conn'[r].next = "none"
          /\ conn'[r].step = "check" => conn'[r].outcome = "failed"
          /\ conn'[r].step = "fail" => conn'[r].outcome # "failed" /\ conn'[r].next = "failed"
      BY <3>2, <3>4 DEF Handling, DispatchAssumption
    <3>7. ASSUME NEW s \in Conn, s # r, conn'[s].step \in ReportSteps
          PROVE  conn[s].step \in ReportSteps /\ conn'[s] = conn[s]
      BY <3>2, <3>7
    <3>8. ASSUME NEW s \in Conn, Unwritten(s)' PROVE Unwritten(s)
      BY <3>2, <3>3, <3>8 DEF ReportSteps
    <3> QED
      BY <2>a, <2>b, <3>2, <3>4, <3>5, <3>6, <3>7, <3>8 DEF ReportInv
  <2>4. BatchInv'
    BY <2>a, <2>b DEF BatchInv, TypeOK
  <2>5. AttemptsAccounted'
    BY <1>9 DEF ReadJob, Handling, AttemptsAccounted
  <2>6. RetryPromiseKept'
    BY <1>9 DEF ReadJob, Handling, RetryPromiseKept, TypeOK, Request
  <2> QED
    BY <1>t, <2>1, <2>2, <2>3, <2>4, <2>5, <2>6 DEF IInv
<1>10. ASSUME NEW r \in Conn, CompleteJob(r) PROVE IInv'
  <2>1. CallInv'
    BY <1>10 DEF CompleteJob, UpdateJobCompleted, CallInv, TypeOK, PollSteps, ReportSteps
  <2>2. PollInv'
    BY <1>10 DEF CompleteJob, UpdateJobCompleted, PollInv, TypeOK, ReportInv, ReportSteps
  <2>3. ReportInv'
    <3>1. PICK j \in Job : conn[r].jobs = {j} /\ UpdateJobCompleted(j)
      BY <1>10 DEF CompleteJob, ReportInv, ReportSteps
    <3>2. \A s \in Conn : /\ conn'[s].jobs = conn[s].jobs /\ conn'[s].from = conn[s].from
                          /\ conn'[s].outcome = conn[s].outcome
                          /\ conn'[s].live = conn[s].live
                          /\ s # r => conn'[s] = conn[s]
                          /\ conn'[r].step = "ack"
      BY <1>10 DEF CompleteJob, TypeOK, Request
    <3>3. UNCHANGED todo /\ conn[r].step \in ReportSteps
      BY <1>10 DEF CompleteJob, ReportSteps
    <3>4. \A i \in Job : i # j => /\ status'[i] = status[i] /\ retry'[i] = retry[i]
                                  /\ execs'[i] = execs[i]
      BY <1>10, <3>1 DEF CompleteJob, UpdateJobCompleted, TypeOK, StoreTypeOK
    <3>5. ASSUME NEW s \in Conn, s # r, Unwritten(s)
          PROVE  j \notin conn[s].jobs
      BY <1>10, <3>1, <3>5 DEF ReportInv, ReportSteps, CompleteJob
    <3>6. ASSUME NEW s \in Conn, Unwritten(s)' PROVE s # r /\ Unwritten(s) /\ conn'[s] = conn[s]
      BY <3>2, <3>6
    <3>7. ASSUME NEW s \in Conn, s # r, conn[s].step \in ReportSteps, ~Unwritten(s)
          PROVE  conn[s].step = "ack"
      BY <3>7
    <3> QED
      BY <3>1, <3>2, <3>3, <3>4, <3>5, <3>6, <3>7 DEF ReportInv
  <2>4. BatchInv'
    BY <1>10 DEF CompleteJob, UpdateJobCompleted, BatchInv, TypeOK, ReportInv, ReportSteps
  <2>5. AttemptsAccounted'
    BY <1>10 DEF CompleteJob, UpdateJobCompleted, AttemptsAccounted, ReportInv, ReportSteps
  <2>6. RetryPromiseKept'
    BY <1>10
    DEF CompleteJob, UpdateJobCompleted, RetryPromiseKept, RetryScheduled, ReportInv,
        ReportSteps
  <2> QED
    BY <1>t, <2>1, <2>2, <2>3, <2>4, <2>5, <2>6 DEF IInv
<1>11. ASSUME NEW r \in Conn, CheckRetry(r) PROVE IInv'
  <2>a. PICK j \in conn[r].jobs :
           /\ conn' \in [Conn -> Request]
           /\ \A s \in Conn \ {r} : conn'[s] = conn[s]
           /\ conn'[r].step = "fail" /\ conn'[r].next = RetryDecision(j)
           /\ conn'[r].from = conn[r].from /\ conn'[r].live = conn[r].live
           /\ conn'[r].jobs = conn[r].jobs /\ conn'[r].outcome = conn[r].outcome
           /\ conn'[r].seen = conn[r].seen
    BY <1>11, CheckEffect
  <2>u. /\ conn[r].step = "check"
        /\ UNCHANGED <<status, retry, due, pc, todo, execs, faults>>
    BY <1>11 DEF CheckRetry
  <2>1. CallInv'
    BY <2>u, <1>f, <2>a DEF CallInv, PollSteps, ReportSteps
  <2>2. PollInv'
    BY <2>u, <1>f, <2>a DEF RetryDecision, PollInv, RetryPromiseKept
  <2>3. ReportInv'
    BY <2>u, <1>f, <2>a DEF ReportInv, ReportSteps, RetryDecision
  <2>4. BatchInv'
    BY <2>u, <1>f, <2>a DEF BatchInv, ReportSteps
  <2>5. AttemptsAccounted'
    BY <2>u, <1>f, <2>a DEF RetryDecision, AttemptsAccounted
  <2>6. RetryPromiseKept'
    BY <2>u, <1>f, <2>a DEF RetryDecision, RetryPromiseKept
  <2> QED
    BY <1>t, <2>1, <2>2, <2>3, <2>4, <2>5, <2>6 DEF IInv
<1>12. ASSUME NEW r \in Conn, FailJob(r) PROVE IInv'
  <2>1. CallInv'
    BY <1>12 DEF FailJob, UpdateJobFailed, CallInv, TypeOK, PollSteps, ReportSteps
  <2>2. PollInv'
    BY <1>12 DEF FailJob, UpdateJobFailed, PollInv, TypeOK, ReportInv, ReportSteps
  <2>3. ReportInv'
    <3>1. PICK j \in Job : conn[r].jobs = {j} /\ UpdateJobFailed(j, conn[r].next)
      BY <1>12 DEF FailJob, ReportInv, ReportSteps
    <3>2. \A s \in Conn : /\ conn'[s].jobs = conn[s].jobs /\ conn'[s].from = conn[s].from
                          /\ conn'[s].outcome = conn[s].outcome
                          /\ conn'[s].live = conn[s].live
                          /\ s # r => conn'[s] = conn[s]
                          /\ conn'[r].step = "ack"
      BY <1>12 DEF FailJob, TypeOK, Request
    <3>3. UNCHANGED todo /\ conn[r].step \in ReportSteps
      BY <1>12 DEF FailJob, ReportSteps
    <3>4. \A i \in Job : i # j => /\ status'[i] = status[i] /\ retry'[i] = retry[i]
                                  /\ execs'[i] = execs[i]
      BY <1>12, <3>1 DEF FailJob, UpdateJobFailed, TypeOK, StoreTypeOK
    <3>5. ASSUME NEW s \in Conn, s # r, Unwritten(s)
          PROVE  j \notin conn[s].jobs
      BY <1>12, <3>1, <3>5 DEF ReportInv, ReportSteps, FailJob
    <3>6. ASSUME NEW s \in Conn, Unwritten(s)' PROVE s # r /\ Unwritten(s) /\ conn'[s] = conn[s]
      BY <3>2, <3>6
    <3>7. ASSUME NEW s \in Conn, s # r, conn[s].step \in ReportSteps, ~Unwritten(s)
          PROVE  conn[s].step = "ack"
      BY <3>7
    <3> QED
      BY <3>1, <3>2, <3>3, <3>4, <3>5, <3>6, <3>7 DEF ReportInv
  <2>4. BatchInv'
    BY SMTT(30), <1>12 DEF FailJob, UpdateJobFailed, BatchInv, TypeOK, ReportInv, ReportSteps
  <2>5. AttemptsAccounted'
    BY <1>12
    DEF FailJob, UpdateJobFailed, AttemptsAccounted, Settled, TypeOK, StoreTypeOK,
        ReportInv, ReportSteps
  <2>6. RetryPromiseKept'
    BY <1>12
    DEF FailJob, UpdateJobFailed, RetryPromiseKept, RetryScheduled, ReportInv,
        ReportSteps
  <2> QED
    BY <1>t, <2>1, <2>2, <2>3, <2>4, <2>5, <2>6 DEF IInv
<1>13. ASSUME NEW r \in Conn, Acknowledge(r) PROVE IInv'
  <2>1. CallInv'
    BY <1>13 DEF Acknowledge, AfterReport, Free, CallInv, TypeOK, PollSteps, ReportSteps
  <2>2. PollInv'
    BY <1>13 DEF Acknowledge, AfterReport, Free, PollInv
  <2>3. ReportInv'
    BY <1>13 DEF Acknowledge, AfterReport, Free, ReportInv, TypeOK, CallInv, ReportSteps
  <2>4. BatchInv'
    BY <1>13 DEF Acknowledge, AfterReport, BatchInv, TypeOK
  <2>5. AttemptsAccounted'
    BY <1>13 DEF Acknowledge, AfterReport, AttemptsAccounted
  <2>6. RetryPromiseKept'
    BY <1>13 DEF Acknowledge, AfterReport, Free, RetryPromiseKept
  <2> QED
    BY <1>t, <2>1, <2>2, <2>3, <2>4, <2>5, <2>6 DEF IInv
<1>14. ASSUME NEW r \in Conn, Discard(r) PROVE IInv'
  <2>1. CallInv'
    BY <1>14 DEF Discard, CallInv, Free, TypeOK
  <2>2. PollInv'
    BY <1>14 DEF Discard, Free, PollInv
  <2>3. ReportInv'
    BY <1>14 DEF Discard, Free, ReportInv, ReportSteps
  <2>4. BatchInv'
    BY <1>14 DEF Discard, BatchInv, CallInv
  <2>5. AttemptsAccounted'
    BY <1>14 DEF Discard, AttemptsAccounted
  <2>6. RetryPromiseKept'
    BY <1>14 DEF Discard, Free, RetryPromiseKept
  <2> QED
    BY <1>t, <2>1, <2>2, <2>3, <2>4, <2>5, <2>6 DEF IInv
<1>15. ASSUME NEW p \in Proc, CallFails(p) PROVE IInv'
  <2>a. PICK r \in Serving(p) :
        /\ Abandon(r)
        /\ IF pc[p] = "polling"
           THEN pc' = [pc EXCEPT ![p] = "idle"] /\ UNCHANGED todo
           ELSE AfterReport(p, todo[p] \ conn[r].jobs)
    BY <1>15 DEF CallFails
  <2>b. r \in Conn /\ conn[r].from = p /\ conn[r].live
    BY DEF Serving
  <2>c. /\ \A s \in Conn \ {r} : conn'[s] = conn[s]
        /\ ~conn'[r].live
        /\ \/ conn'[r] = Free
           \/ /\ conn'[r].step = conn[r].step /\ conn'[r].from = conn[r].from
              /\ conn'[r].jobs = conn[r].jobs /\ conn'[r].outcome = conn[r].outcome
              /\ conn'[r].seen = conn[r].seen /\ conn'[r].next = conn[r].next
    BY <2>a, <2>b, AbandonEffect DEF TypeOK
  <2>d. /\ \A s \in Conn \ {r} : conn[s].live => conn[s].from # p
        /\ pc[p] # "polling" => conn[r].step \in ReportSteps
    BY <1>f, <1>w, <2>b DEF CallInv, Steps, PollSteps, ReportSteps
  <2>e. UNCHANGED <<status, retry, due, execs>>
    BY <1>15 DEF CallFails
  <2>f. /\ \A q \in Proc \ {p} : pc'[q] = pc[q] /\ todo'[q] = todo[q]
        /\ todo'[p] = IF pc[p] = "polling" THEN todo[p] ELSE todo[p] \ conn[r].jobs
        /\ pc'[p] = IF pc[p] = "polling" \/ todo'[p] = {} THEN "idle" ELSE "working"
    BY <2>a DEF AfterReport, TypeOK
  <2>1. CallInv'
    <3>1. Free.step = "free" /\ ~Free.live
      BY DEF Free
    <3>2. \A s \in Conn : conn'[s].live => s # r /\ conn'[s] = conn[s] /\ conn[s].from # p
      BY <2>c, <2>d
    <3>3. \A s \in Conn : conn'[s].live =>
              pc'[conn'[s].from] = pc[conn[s].from] /\ conn[s].from \in Proc
      BY <2>f, <3>2, <1>w
    <3>4. conn'[r] # Free => conn'[r].step = conn[r].step /\ conn'[r].from = conn[r].from
      BY <2>c
    <3> QED
      BY <2>b, <2>c, <3>1, <3>2, <3>3, <3>4, <1>w DEF CallInv
  <2>2. PollInv'
    BY <2>b, <2>c, <2>e DEF Free, PollInv
  <2>3. ReportInv'
    BY <2>b, <2>c, <2>d, <2>e, <2>f, <1>w DEF ReportInv, ReportSteps, Free
  <2>4. BatchInv'
    <3>1. CASE pc[p] = "polling"
      <4>1. todo[p] = {}
        BY <3>1 DEF BatchInv
      <4> QED
        BY <3>1, <4>1, <2>b, <2>c, <2>d, <2>e, <2>f DEF BatchInv
    <3>2. CASE pc[p] # "polling"
      BY <3>2, <2>b, <2>c, <2>d, <2>e, <2>f DEF BatchInv
    <3> QED
      BY <3>1, <3>2
  <2>5. AttemptsAccounted'
    BY <2>e DEF AttemptsAccounted
  <2>6. RetryPromiseKept'
    BY <2>c DEF Free, RetryPromiseKept, RetryScheduled
  <2> QED
    BY <1>t, <2>1, <2>2, <2>3, <2>4, <2>5, <2>6 DEF IInv
<1>16. ASSUME NEW p \in Proc, Crash(p) PROVE IInv'
  <2> DEFINE Left(s) == \/ conn'[s] = conn[s]
                        \/ conn'[s] = Free
                        \/ /\ conn[s].live /\ ~conn'[s].live
                           /\ conn'[s].step = conn[s].step /\ conn'[s].from = conn[s].from
                           /\ conn'[s].jobs = conn[s].jobs
                           /\ conn'[s].outcome = conn[s].outcome
                           /\ conn'[s].seen = conn[s].seen /\ conn'[s].next = conn[s].next
             Spared(s) == /\ conn'[s].live => conn'[s] = conn[s] /\ conn[s].from # p
                          /\ conn[s].live /\ conn[s].from # p => conn'[s] = conn[s]
  <2>a. \A s \in Conn : Left(s) /\ Spared(s)
    <3>1. CASE Serving(p) = {} /\ UNCHANGED conn
      BY <3>1 DEF Serving
    <3>2. ASSUME NEW r \in Serving(p), Abandon(r)
          PROVE  \A s \in Conn : Left(s) /\ Spared(s)
      <4>1. r \in Conn /\ conn[r].live /\ conn[r].from = p
        BY DEF Serving
      <4>2. \A s \in Conn \ {r} : conn[s].live => conn[s].from # p
        BY <4>1 DEF CallInv
      <4>3. Left(r) /\ Spared(r) /\ \A s \in Conn \ {r} : conn'[s] = conn[s]
        BY <3>2, <4>1, AbandonEffect DEF TypeOK
      <4> QED
        BY <4>2, <4>3
    <3> QED
      BY <1>16, <3>1, <3>2 DEF Crash
  <2>u. /\ pc' = [pc EXCEPT ![p] = "down"] /\ todo' = [todo EXCEPT ![p] = {}]
        /\ UNCHANGED <<status, retry, due, execs>>
    BY <1>16 DEF Crash
  <2>f. /\ \A q \in Proc \ {p} : pc'[q] = pc[q] /\ todo'[q] = todo[q]
        /\ pc'[p] = "down" /\ todo'[p] = {}
    BY <2>u DEF TypeOK
  <2>1. CallInv'
    <3>1. Free.step = "free" /\ ~Free.live
      BY DEF Free
    <3>2. \A s \in Conn : conn'[s].live => conn'[s] = conn[s] /\ conn[s].from # p
      BY <2>a
    <3>3. \A s \in Conn : conn'[s].live =>
              pc'[conn'[s].from] = pc[conn[s].from] /\ conn[s].from \in Proc
      BY <2>f, <3>2, <1>w
    <3>4. \A s \in Conn : conn'[s] # Free =>
              conn'[s].step = conn[s].step /\ conn'[s].from = conn[s].from
      BY <2>a
    <3>5. ASSUME NEW s \in Conn
          PROVE  /\ conn'[s].step = "free" => conn'[s] = Free
                 /\ conn'[s].step # "free" => conn'[s].from \in Proc
      BY <3>1, <3>4, <2>a, <1>w DEF CallInv
    <3>6. ASSUME NEW s \in Conn, conn'[s].live
          PROVE  /\ conn'[s].step \in PollSteps => pc'[conn'[s].from] = "polling"
                 /\ conn'[s].step \in ReportSteps => pc'[conn'[s].from] = "reporting"
                 /\ \A u \in Conn : conn'[u].live /\ conn'[u].from = conn'[s].from => u = s
      BY <3>2, <3>3, <3>6 DEF CallInv
    <3> QED
      BY <3>5, <3>6 DEF CallInv
  <2>2. PollInv'
    BY <2>a, <2>u DEF Free, PollInv
  <2>3. ReportInv'
    BY <2>a, <2>f, <2>u, <1>w DEF ReportInv, ReportSteps, Free
  <2>4. BatchInv'
    BY <2>a, <2>f, <2>u DEF BatchInv
  <2>5. AttemptsAccounted'
    BY <2>u DEF AttemptsAccounted
  <2>6. RetryPromiseKept'
    BY <2>a DEF Free, RetryPromiseKept, RetryScheduled
  <2> QED
    BY <1>t, <2>1, <2>2, <2>3, <2>4, <2>5, <2>6 DEF IInv
<1>17. ASSUME OrchestratorRestart PROVE IInv'
  <2>1. CallInv'
    BY <1>17
    DEF OrchestratorRestart, Free, Waiting, ReportedBy, Serving, CallInv, PollSteps,
        ReportSteps
  <2>2. PollInv'
    BY <1>17 DEF OrchestratorRestart, Free, Waiting, ReportedBy, Serving, PollInv
  <2>3. ReportInv'
    BY <1>17
    DEF OrchestratorRestart, Free, Waiting, ReportedBy, Serving, ReportInv, ReportSteps
  <2>4. BatchInv'
    BY <1>17
    DEF OrchestratorRestart, Waiting, ReportedBy, Serving, BatchInv, Request, CallInv
  <2>5. AttemptsAccounted'
    BY <1>17 DEF OrchestratorRestart, Waiting, ReportedBy, Serving, AttemptsAccounted
  <2>6. RetryPromiseKept'
    BY <1>17 DEF OrchestratorRestart, Free, Waiting, ReportedBy, Serving, RetryPromiseKept
  <2> QED
    BY <1>t, <2>1, <2>2, <2>3, <2>4, <2>5, <2>6 DEF IInv
<1>18. ASSUME UNCHANGED vars PROVE IInv'
  <2>1. CallInv'
    BY <1>18 DEF vars, CallInv
  <2>2. PollInv'
    BY <1>18 DEF vars, PollInv
  <2>3. ReportInv'
    BY <1>18 DEF vars, ReportInv
  <2>4. BatchInv'
    BY <1>18 DEF vars, BatchInv
  <2>5. AttemptsAccounted'
    BY <1>18 DEF vars, AttemptsAccounted
  <2>6. RetryPromiseKept'
    BY <1>18 DEF vars, RetryPromiseKept
  <2> QED
    BY <1>t, <2>1, <2>2, <2>3, <2>4, <2>5, <2>6 DEF IInv
<1> QED
    BY <1>1, <1>2, <1>3, <1>4, <1>5, <1>6, <1>7, <1>8, <1>9, <1>10, <1>11, <1>12, <1>13,
       <1>14, <1>15, <1>16, <1>17, <1>18
    DEF Next, AgentStep, ServeRequest, Fault

LEMMA InvInit == Init => IInv
<1> SUFFICES ASSUME Init PROVE IInv
    OBVIOUS
<1>1. TypeOK
    BY TypeInit
<1>2. /\ \A r \in Conn : conn[r] = Free
      /\ \A p \in Proc : todo[p] = {}
      /\ Free.step = "free" /\ ~Free.live
    BY DEF Init, Free
<1>3. CallInv /\ PollInv /\ ReportInv /\ RetryPromiseKept
    BY <1>2 DEF CallInv, PollInv, ReportInv, RetryPromiseKept, PollSteps, ReportSteps
<1>4. BatchInv
    BY <1>2 DEF BatchInv
<1>5. AttemptsAccounted
    BY JobStoreAssumption
    DEF Init, StoreInit, AttemptsAccounted, Settled, JobStoreAssumption
<1> QED
    BY <1>1, <1>3, <1>4, <1>5 DEF IInv

\* The invariant itself: with one process per agent id it holds whatever requests
\* are given up, and however long their handlers outlive them.
THEOREM InvCorrect == ASSUME OneProcessPerAgent PROVE Spec => []IInv
<1>1. Init => IInv
    BY InvInit
<1>2. IInv /\ [Next]_vars => IInv'
    BY InvStep
<1> QED
    BY <1>1, <1>2, PTL DEF Spec

\* With one process per agent id every execution of a job is paid for by its row,
\* and no job is retried more than max_retries times (AssignJobs, UpdateJobFailed,
\* executeJob): also when handlers run on after their agent gave them up.
THEOREM AttemptsCorrect == ASSUME OneProcessPerAgent PROVE Spec => []AttemptsAccounted
<1>1. IInv => AttemptsAccounted
    BY DEF IInv
<1> QED
    BY <1>1, InvCorrect, PTL

\* The answer retry_scheduled of ProcessJobResult, which comes from the first read
\* of the row, agrees with what UpdateJobFailed decides from the second.
THEOREM RetryPromiseCorrect == ASSUME OneProcessPerAgent PROVE Spec => []RetryPromiseKept
<1>1. IInv => RetryPromiseKept
    BY DEF IInv
<1> QED
    BY <1>1, InvCorrect, PTL

\* Whoever holds a job or carries it is alone, by the ownership of the jobs and
\* the attempts that a report and a response count differently.
LEMMA HolderInv ==
    ASSUME OneProcessPerAgent, IInv
    PROVE  SingleHolder
<1> SUFFICES ASSUME NEW j \in Job
             PROVE  /\ \A p, q \in Proc : InHand(p, j) /\ InHand(q, j) => p = q
                    /\ \A p \in Proc, r \in Conn : InHand(p, j) => ~InTransit(r, j)
                    /\ \A r, s \in Conn : InTransit(r, j) /\ InTransit(s, j) => r = s
  BY DEF SingleHolder
<1> DEFINE Answered(r) == conn[r].step = "deliver" /\ conn[r].live
           Orphan(r) == ~conn[r].live /\ Unwritten(r)
<1>0. retry[j] \in Nat
  BY DEF IInv, TypeOK, StoreTypeOK
<1>1. \A p \in Proc : InHand(p, j) =>
          owner[j] = agentId[p] /\ pc[p] \in {"working", "reporting"}
  BY DEF IInv, BatchInv, InHand
<1>2. \A r \in Conn : InTransit(r, j) => j \in conn[r].jobs /\ (Answered(r) \/ Orphan(r))
  BY DEF InTransit, Unwritten
<1>3. \A r \in Conn : j \in conn[r].jobs /\ Answered(r) =>
          /\ conn[r].live /\ conn[r].from \in Proc /\ execs[j] = retry[j]
          /\ owner[j] = agentId[conn[r].from] /\ pc[conn[r].from] = "polling"
  BY DEF IInv, CallInv, PollInv, PollSteps
<1>4. \A r \in Conn : j \in conn[r].jobs /\ Orphan(r) =>
          /\ execs[j] = retry[j] + 1
          /\ \A s \in Conn : Unwritten(s) /\ j \in conn[s].jobs => s = r
  BY DEF IInv, ReportInv, Unwritten
<1>5. ASSUME NEW p \in Proc, NEW r \in Conn, InHand(p, j), j \in conn[r].jobs, Orphan(r)
      PROVE  FALSE
  <2>1. PICK s \in Conn : /\ conn[s].live /\ conn[s].from = p
                         /\ conn[s].step \in ReportSteps /\ j \in conn[s].jobs
    BY <1>0, <1>4, <1>5 DEF IInv, BatchInv, InHand
  <2>2. r = s
    BY <1>5, <2>1 DEF IInv, ReportInv
  <2> QED
    BY <1>5, <2>1, <2>2
<1>6. ASSUME NEW p \in Proc, NEW q \in Proc, InHand(p, j), InHand(q, j)
      PROVE  p = q
  BY <1>1, <1>6 DEF OneProcessPerAgent
<1>7. ASSUME NEW p \in Proc, NEW r \in Conn, InHand(p, j), InTransit(r, j)
      PROVE  FALSE
  BY <1>1, <1>2, <1>3, <1>5, <1>7 DEF OneProcessPerAgent
<1>8. ASSUME NEW r \in Conn, NEW s \in Conn, InTransit(r, j), InTransit(s, j)
      PROVE  r = s
  <2>1. CASE Answered(r) /\ Answered(s)
    <3>1. conn[s].from = conn[r].from
      BY <1>2, <1>3, <1>8, <2>1 DEF OneProcessPerAgent
    <3> QED
      BY <1>2, <1>3, <1>8, <2>1, <3>1 DEF IInv, CallInv
  <2>2. CASE Orphan(r) /\ Orphan(s)
    BY <1>2, <1>4, <1>8, <2>2
  <2>3. ~(Answered(r) /\ Orphan(s)) /\ ~(Orphan(r) /\ Answered(s))
    BY <1>0, <1>2, <1>3, <1>4, <1>8
  <2> QED
    BY <1>2, <1>8, <2>1, <2>2, <2>3
<1> QED
  BY <1>6, <1>7, <1>8

\* And no job is with two agents, in two responses, with an agent and in a response,
\* or with an agent while a report of it that was given up has still to be written,
\* although a poll marks its jobs some steps after it selected them.
THEOREM SingleHolderCorrect == ASSUME OneProcessPerAgent PROVE Spec => []SingleHolder
BY HolderInv, InvCorrect, PTL

-----------------------------------------------------------------------------
(***************************************************************************)
(* With a cancelled request that does nothing more, every handler has an   *)
(* agent that waits for it, and a poll assigns only what nobody else could *)
(* have assigned since its SELECT.                                         *)
(***************************************************************************)

LEMMA PromptStep == SingleFlight /\ FlightInv /\ [Next]_vars => Prompt'
<1> USE JobStoreAssumption, DispatchAssumption
<1> SUFFICES ASSUME SingleFlight, FlightInv, [Next]_vars PROVE Prompt'
    OBVIOUS
<1>i. /\ TypeOK /\ CallInv /\ PollInv /\ ReportInv /\ Prompt
      /\ OneProcessPerAgent /\ ~Linger
    BY DEF FlightInv, IInv, SingleFlight
<1>c. /\ conn \in [Conn -> Request] /\ Free.step = "free"
      /\ \A r \in Conn : conn[r].jobs \subseteq Job
      /\ retry \in [Job -> Nat]
    BY <1>i DEF TypeOK, StoreTypeOK, Request, Free
<1>k. ASSUME UNCHANGED status, NEW r \in Conn, conn' = [conn EXCEPT ![r] = Free] PROVE Prompt'
  <2>1. \A s \in Conn : conn'[s].step = "free" \/ conn'[s] = conn[s]
    BY <1>c, <1>k
  <2> QED
    BY <1>i, <1>k, <2>1 DEF Prompt
<1>1. ASSUME UNCHANGED conn, \A j \in Job : status'[j] = status[j] \/ status[j] = "absent"
      PROVE  Prompt'
    BY <1>i, <1>c, <1>1 DEF Prompt
<1>2. CASE \E j \in Job : CreateJob(j) \/ TimePasses(j)
    BY <1>1, <1>2 DEF CreateJob, InsertJobs, TimePasses, BecomeDue
<1>3. ASSUME NEW p \in Proc, Poll(p) PROVE Prompt'
  <2>1. PICK r \in Conn : conn' = [conn EXCEPT ![r] = [Free EXCEPT !.step = "select",
                                            !.from = p, !.live = TRUE]]
    BY <1>3 DEF Poll
  <2>2. /\ conn'[r].step = "select" /\ conn'[r].live
        /\ \A s \in Conn \ {r} : conn'[s] = conn[s]
    BY <1>c, <2>1 DEF Free
  <2>3. UNCHANGED status
    BY <1>3 DEF Poll
  <2> QED
    BY <1>i, <2>2, <2>3 DEF Prompt
<1>4. ASSUME NEW p \in Proc, ExecuteJob(p) PROVE Prompt'
  <2>1. PICK r \in Conn, outcome \in Outcomes, j \in todo[p] : Executes(p, r, outcome, j)
    BY <1>4, <1>i, ExecuteEffect
  <2>2. UNCHANGED status
    BY <1>4 DEF ExecuteJob
  <2> QED
    BY <1>i, <2>1, <2>2 DEF Executes, Prompt
<1>5. ASSUME NEW r \in Conn, SelectJobs(r) PROVE Prompt'
  <2>1. /\ \A s \in Conn \ {r} : conn'[s] = conn[s]
        /\ conn'[r].live = conn[r].live
        /\ conn'[r].jobs \subseteq Eligible(agentId[conn[r].from])
    BY <1>5, <1>i, SelectEffect
  <2>2. conn[r].step = "select" /\ UNCHANGED status
    BY <1>5 DEF SelectJobs
  <2>3. \A j \in conn'[r].jobs : status[j] = "pending"
    BY <2>1 DEF Eligible
  <2> QED
    BY <1>i, <2>1, <2>2, <2>3 DEF Prompt
<1>6. ASSUME NEW r \in Conn, AssignSelected(r) PROVE Prompt'
  <2>1. /\ conn[r].step = "assign" /\ conn'[r].step = "deliver" /\ conn'[r].live = conn[r].live
        /\ \A s \in Conn \ {r} : conn'[s] = conn[s]
    BY <1>6, <1>c DEF AssignSelected, Request
  <2>2. \A j \in Job \ conn[r].jobs : status'[j] = status[j]
    BY <1>6 DEF AssignSelected, AssignJobs
  <2>3. ASSUME NEW s \in Conn \ {r}, conn[s].step = "assign", NEW j \in conn[s].jobs,
               j \in conn[r].jobs
        PROVE  FALSE
    <3>1. /\ conn[s].live /\ conn[r].live
          /\ conn[s].from \in Proc /\ conn[r].from \in Proc
      BY <1>i, <2>1, <2>3 DEF Prompt, CallInv
    <3>2. agentId[conn[s].from] = agentId[conn[r].from]
      BY <1>i, <2>1, <2>3, <3>1 DEF PollInv
    <3>3. conn[s].from = conn[r].from
      BY <1>i, <3>1, <3>2 DEF OneProcessPerAgent
    <3> QED
      BY <1>i, <3>1, <3>3 DEF CallInv
  <2> QED
    BY <1>i, <1>c, <2>1, <2>2, <2>3 DEF Prompt
<1>7. ASSUME NEW r \in Conn, Deliver(r) \/ Acknowledge(r) \/ Discard(r) PROVE Prompt'
    BY <1>k, <1>7 DEF Deliver, Acknowledge, Discard
<1>8. ASSUME NEW r \in Conn, ReadJob(r) PROVE Prompt'
  <2>1. /\ \A s \in Conn : conn'[s].live = conn[s].live
        /\ \A s \in Conn \ {r} : conn'[s] = conn[s]
        /\ conn[r].step = "read" /\ conn'[r].step # "assign"
        /\ UNCHANGED status
    BY <1>8, <1>c DEF ReadJob, Handling, Request
  <2> QED
    BY <1>i, <2>1 DEF Prompt
<1>9. ASSUME NEW r \in Conn, CheckRetry(r) PROVE Prompt'
  <2>1. /\ conn'[r].step = "fail" /\ conn'[r].live = conn[r].live
        /\ \A s \in Conn \ {r} : conn'[s] = conn[s]
    BY <1>9, <1>i, CheckEffect
  <2>2. conn[r].step = "check" /\ UNCHANGED status
    BY <1>9 DEF CheckRetry
  <2> QED
    BY <1>i, <2>1, <2>2 DEF Prompt
<1>10. ASSUME NEW r \in Conn, CompleteJob(r) \/ FailJob(r) PROVE Prompt'
  <2>1. PICK k \in conn[r].jobs : UpdateJobCompleted(k) \/ UpdateJobFailed(k, conn[r].next)
    BY <1>10 DEF CompleteJob, FailJob
  <2>2. /\ conn[r].step \in {"complete", "fail"} /\ conn'[r].step = "ack"
        /\ conn'[r].live = conn[r].live
        /\ \A s \in Conn \ {r} : conn'[s] = conn[s]
    BY <1>10, <1>c DEF CompleteJob, FailJob, Request
  <2>3. k \in Job /\ execs[k] = retry[k] + 1
    BY <1>i, <1>c, <2>2 DEF ReportInv, ReportSteps, Unwritten
  <2>4. \A j \in Job \ {k} : status'[j] = status[j]
    BY <1>i, <2>1, <2>3 DEF UpdateJobCompleted, UpdateJobFailed, TypeOK, StoreTypeOK
  <2>5. \A s \in Conn : conn[s].step = "assign" => k \notin conn[s].jobs
    BY <1>i, <1>c, <2>3 DEF Prompt, PollInv
  <2> QED
    BY <1>i, <1>c, <2>2, <2>4, <2>5 DEF Prompt
<1>11. ASSUME NEW p \in Proc, CallFails(p) \/ Crash(p) PROVE Prompt'
  <2>1. UNCHANGED status
    BY <1>11 DEF CallFails, Crash
  <2>2. \/ UNCHANGED conn
        \/ \E r \in Conn : conn' = [conn EXCEPT ![r] = Free]
    BY <1>i, <1>11 DEF CallFails, Crash, Abandon, Serving
  <2> QED
    BY <1>1, <1>k, <2>1, <2>2
<1>12. ASSUME NEW p \in Proc, Restart(p) PROVE Prompt'
    BY <1>1, <1>12 DEF Restart
<1>13. CASE OrchestratorRestart
    BY <1>13, <1>c DEF OrchestratorRestart, Prompt
<1>14. CASE UNCHANGED vars
    BY <1>1, <1>14 DEF vars
<1> QED
    BY <1>2, <1>3, <1>4, <1>5, <1>6, <1>7, <1>8, <1>9, <1>10, <1>11, <1>12, <1>13, <1>14
    DEF Next, AgentStep, ServeRequest, Fault

LEMMA FlightStep == SingleFlight /\ FlightInv /\ [Next]_vars => FlightInv'
BY InvStep, PromptStep DEF FlightInv, SingleFlight

LEMMA FlightInit == Init => FlightInv
BY InvInit DEF Init, FlightInv, Prompt, Free

\* Between the SELECT and the UPDATE of a poll nobody else assigns what it has
\* selected, when an agent id belongs to one process and a cancelled request
\* does nothing more: the lock the two statements do not take is not missed.
THEOREM FlightCorrect == ASSUME SingleFlight PROVE Spec => []FlightInv
<1>1. FlightInv /\ [Next]_vars => FlightInv'
    BY FlightStep
<1> QED
    BY <1>1, FlightInit, PTL DEF Spec
=============================================================================
