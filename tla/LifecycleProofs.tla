-------------------------- MODULE LifecycleProofs --------------------------
(***************************************************************************)
(* Dispatch implements JobLifecycle, for every set of jobs, agents and     *)
(* requests: with one process per agent id, and a cancelled request that   *)
(* does nothing more, whatever a handler, an agent or a fault does to a    *)
(* job is a move of the lifecycle or none.                                 *)
(***************************************************************************)
EXTENDS DispatchProofs

\* Who has a job: an agent, or a response on its way to one.
Has(j) ==
    \/ \E p \in Proc : j \in todo[p]
    \/ \E r \in Conn : j \in conn[r].jobs /\ conn[r].step = "deliver"

\* An agent has it, and its result is not written.
Awaited(j) == Has(j) /\ ~Written(j)

\* The report of a job that is assigned has not been written yet.
AckInv ==
    \A r \in Conn : conn[r].step = "ack" =>
        \A j \in conn[r].jobs : status[j] # "assigned"

LInv == FlightInv /\ AckInv

\* What one step may do to a job.
Untouched(j) ==
    /\ status'[j] = status[j] /\ retry'[j] = retry[j]
    /\ status[j] = "assigned" /\ Has(j)' => Has(j)
    /\ status[j] = "assigned" /\ Has(j) /\ ~Has(j)' => faults' > faults
    /\ status[j] = "cancelled" => (Picked(j)' => Picked(j)) /\ (Awaited(j)' => Awaited(j))
Inserted(j) == status[j] = "absent" /\ status'[j] = "pending" /\ retry'[j] = retry[j]
HandedOut(j) ==
    /\ Picked(j) /\ status[j] \in {"pending", "cancelled"}
    /\ status'[j] = "assigned" /\ retry'[j] = retry[j] /\ Has(j)'
Finished(j) ==
    /\ status[j] \in Out /\ Awaited(j)
    /\ status'[j] \in Settled /\ retry'[j] = retry[j]
PutBack(j) ==
    /\ status[j] \in Out /\ Awaited(j) /\ status'[j] = "pending"
    /\ retry[j] < MaxRetries /\ retry'[j] = retry[j] + 1
Moved(j) == Untouched(j) \/ Inserted(j) \/ HandedOut(j) \/ Finished(j) \/ PutBack(j)

LEMMA HeldIsHad == Prompt => \A j \in Job : Held(j) <=> Has(j)
BY DEF Prompt, Held, InHand, InTransit, Has, ReportSteps

LEMMA HeldIsHadNext == Prompt' => \A j \in Job : Held(j)' <=> Has(j)'
BY DEF Prompt, Held, InHand, InTransit, Has, ReportSteps

\* A poll that is about to assign a job is of the one agent that could have it,
\* and that one has nothing.
LEMMA PickedIsNotHad ==
    ASSUME SingleFlight, FlightInv, NEW j \in Job, Picked(j)
    PROVE  ~Has(j)
<1>1. PICK r \in Conn : conn[r].step = "assign" /\ j \in conn[r].jobs
    BY DEF Picked
<1>2. /\ conn[r].live /\ conn[r].from \in Proc /\ pc[conn[r].from] = "polling"
      /\ owner[j] = agentId[conn[r].from]
    BY <1>1 DEF FlightInv, IInv, Prompt, CallInv, PollInv, PollSteps
<1>3. ASSUME NEW p \in Proc, j \in todo[p] PROVE FALSE
  <2>1. owner[j] = agentId[p] /\ pc[p] \in {"working", "reporting"}
    BY <1>3 DEF FlightInv, IInv, BatchInv
  <2> QED
    BY <1>2, <2>1 DEF SingleFlight, OneProcessPerAgent
<1>4. ASSUME NEW s \in Conn, conn[s].step = "deliver", j \in conn[s].jobs PROVE FALSE
  <2>1. /\ conn[s].live /\ conn[s].from \in Proc
        /\ owner[j] = agentId[conn[s].from]
    BY <1>4 DEF FlightInv, IInv, Prompt, CallInv, PollInv
  <2>2. conn[s].from = conn[r].from
    BY <1>2, <2>1 DEF SingleFlight, OneProcessPerAgent
  <2>3. s = r
    BY <1>2, <2>1, <2>2 DEF FlightInv, IInv, CallInv
  <2> QED
    BY <1>1, <1>4, <2>3
<1> QED
    BY <1>3, <1>4 DEF Has

\* The job of a report is in its agent's batch.
LEMMA Reported ==
    ASSUME FlightInv, NEW r \in Conn, conn[r].step \in ReportSteps, NEW j \in conn[r].jobs
    PROVE  /\ j \in Job /\ Has(j) /\ conn[r].jobs = {j} /\ conn[r].live
           /\ conn[r].from \in Proc /\ j \in todo[conn[r].from]
           /\ conn[r].step # "ack" => status[j] \in Out /\ Awaited(j)
           /\ conn[r].step = "fail" => conn[r].next =
                IF conn[r].outcome = "failed" /\ retry[j] < MaxRetries
                THEN "pending" ELSE "failed"
<1>1. /\ j \in Job /\ conn[r].jobs = {j} /\ conn[r].live
      /\ conn[r].from \in Proc /\ j \in todo[conn[r].from]
      /\ conn[r].step # "ack" => status[j] \in Out
      /\ conn[r].step = "fail" => conn[r].next =
           IF conn[r].outcome = "failed" /\ retry[j] < MaxRetries
           THEN "pending" ELSE "failed"
    BY DEF FlightInv, IInv, Prompt, CallInv, ReportInv, ReportSteps, Unwritten
<1>2. Has(j)
    BY <1>1 DEF Has
<1>3. ASSUME conn[r].step # "ack", NEW s \in Conn, conn[s].step = "ack", j \in conn[s].jobs
      PROVE  FALSE
  <2>1. conn[s].live
    BY <1>3 DEF FlightInv, Prompt
  <2>2. \A t \in Conn : Unwritten(t) /\ j \in conn[t].jobs => t = s
    BY <1>3, <2>1 DEF FlightInv, IInv, ReportInv, ReportSteps
  <2> QED
    BY <1>3, <2>2 DEF Unwritten
<1> QED
    BY <1>1, <1>2, <1>3 DEF Awaited, Written

\* Nobody but the agent of a report that is written has its job.
LEMMA WrittenHolder ==
    ASSUME SingleFlight, FlightInv, NEW r \in Conn, conn[r].step = "ack",
           NEW j \in conn[r].jobs
    PROVE  /\ \A p \in Proc : j \in todo[p] => p = conn[r].from
           /\ \A s \in Conn : j \in conn[s].jobs => conn[s].step # "deliver"
<1>1. /\ j \in Job /\ conn[r].live /\ conn[r].from \in Proc /\ j \in todo[conn[r].from]
    BY Reported DEF ReportSteps
<1>2. owner[j] = agentId[conn[r].from]
    BY <1>1 DEF FlightInv, IInv, BatchInv
<1>3. ASSUME NEW p \in Proc, j \in todo[p] PROVE p = conn[r].from
    BY <1>1, <1>2, <1>3 DEF FlightInv, IInv, BatchInv, SingleFlight, OneProcessPerAgent
<1>4. ASSUME NEW s \in Conn, j \in conn[s].jobs, conn[s].step = "deliver" PROVE FALSE
  <2>1. conn[s].live /\ conn[s].from \in Proc /\ owner[j] = agentId[conn[s].from]
    BY <1>4 DEF FlightInv, IInv, Prompt, CallInv, PollInv
  <2>2. conn[s].from = conn[r].from
    BY <1>1, <1>2, <2>1 DEF SingleFlight, OneProcessPerAgent
  <2>3. s = r
    BY <1>1, <2>1, <2>2 DEF FlightInv, IInv, CallInv
  <2> QED
    BY <1>4, <2>3
<1> QED
    BY <1>3, <1>4

\* A step that moves no job from one holder to another.
Same(j) == (Has(j)' <=> Has(j)) /\ (Picked(j)' => Picked(j)) /\ (Written(j) => Written(j)')

LEMMA SameConn ==
    ASSUME NEW j \in Job, todo' = todo, conn' = conn
    PROVE  Same(j)
BY DEF Same, Has, Picked, Written

LEMMA SameHolders ==
    ASSUME NEW j \in Job, todo' = todo, NEW r \in Conn,
           \A s \in Conn \ {r} : conn'[s] = conn[s],
           conn[r].step \notin {"deliver", "ack"},
           conn'[r].step = "deliver" => conn'[r].jobs = {},
           conn'[r].step # "assign"
    PROVE  Same(j)
<1>1. Has(j)' <=> Has(j)
    BY DEF Has
<1>2. Picked(j)' => Picked(j)
    BY DEF Picked
<1>3. Written(j) => Written(j)'
    BY DEF Written
<1> QED
    BY <1>1, <1>2, <1>3 DEF Same

\* A step that takes jobs from their holders: a report that is over takes its own.
LEMMA Taken ==
    ASSUME UNCHANGED <<status, retry>>, NEW j \in Job,
           Has(j)' => Has(j), Picked(j)' => Picked(j),
           Written(j) /\ Has(j)' => Written(j)',
           \/ faults' > faults
           \/ status[j] = "assigned" /\ Has(j) => Has(j)'
    PROVE  Moved(j)
<1>1. Awaited(j)' => Awaited(j)
    BY DEF Awaited
<1> QED
    BY <1>1 DEF Moved, Untouched

-----------------------------------------------------------------------------
(* Every step of Dispatch moves every job by one of the five *)

LEMMA MovedStep ==
    ASSUME SingleFlight, LInv, [Next]_vars, NEW j \in Job
    PROVE  Moved(j)
<1> USE JobStoreAssumption, DispatchAssumption
<1>i. /\ FlightInv /\ IInv /\ Prompt /\ TypeOK /\ CallInv
      /\ PollInv /\ ReportInv /\ BatchInv /\ AckInv
    BY DEF LInv, FlightInv, IInv
<1>c. conn \in [Conn -> Request] /\ faults \in Nat
    BY <1>i DEF TypeOK
<1>s. ASSUME UNCHANGED <<status, retry>>, Same(j) PROVE Moved(j)
  <2>1. Awaited(j)' => Awaited(j)
    BY <1>s DEF Same, Awaited
  <2> QED
    BY <1>s, <2>1 DEF Same, Moved, Untouched
<1>1. CASE UNCHANGED vars
  <2>1. Same(j)
    BY <1>1, SameConn DEF vars
  <2> QED
    BY <1>1, <1>s, <2>1 DEF vars
<1>2. ASSUME NEW k \in Job, CreateJob(k) PROVE Moved(j)
  <2>1. Same(j)
    BY <1>2, SameConn DEF CreateJob
  <2>2. j # k => status'[j] = status[j]
    BY <1>2 DEF CreateJob, InsertJobs
  <2>3. j = k => status[j] = "absent" /\ status'[j] = "pending"
    BY <1>2 DEF CreateJob, InsertJobs
  <2>4. retry' = retry
    BY <1>2 DEF CreateJob, InsertJobs
  <2>5. Awaited(j)' => Awaited(j)
    BY <2>1 DEF Same, Awaited
  <2> QED
    BY <2>1, <2>2, <2>3, <2>4, <2>5 DEF Same, Moved, Untouched, Inserted
<1>3. ASSUME NEW k \in Job, TimePasses(k) PROVE Moved(j)
  <2>1. Same(j)
    BY <1>3, SameConn DEF TimePasses
  <2> QED
    BY <1>3, <1>s, <2>1 DEF TimePasses, BecomeDue
<1>4. ASSUME NEW p \in Proc, Poll(p) PROVE Moved(j)
  <2>1. PICK r \in Conn : /\ conn[r].step = "free"
                          /\ conn' = [conn EXCEPT ![r] = [Free EXCEPT !.step = "select",
                                            !.from = p, !.live = TRUE]]
    BY <1>4 DEF Poll
  <2>2. conn'[r].step = "select" /\ \A s \in Conn \ {r} : conn'[s] = conn[s]
    BY <2>1, <1>c DEF Free
  <2>3. Same(j)
    BY <1>4, <2>1, <2>2, SameHolders DEF Poll
  <2> QED
    BY <1>4, <1>s, <2>3 DEF Poll
<1>5. ASSUME NEW r \in Conn, SelectJobs(r) PROVE Moved(j)
  <2>1. /\ \A s \in Conn \ {r} : conn'[s] = conn[s]
        /\ conn'[r].step = "deliver" => conn'[r].jobs = {}
    BY <1>5, <1>i, SelectEffect
  <2>2. conn[r].step = "select" /\ todo' = todo /\ status' = status /\ retry' = retry
    BY <1>5 DEF SelectJobs
  <2>3. Has(j)' <=> Has(j)
    BY <2>1, <2>2 DEF Has
  <2>4. Awaited(j)' => Awaited(j)
    BY <2>1, <2>2, <2>3 DEF Awaited, Written
  <2>5. \A k \in conn'[r].jobs : status[k] = "pending"
    BY <1>5, <1>i, SelectEffect DEF Eligible
  <2>6. status[j] = "cancelled" /\ Picked(j)' => Picked(j)
    BY <2>1, <2>5 DEF Picked
  <2> QED
    BY <2>2, <2>3, <2>4, <2>6 DEF Moved, Untouched
<1>6. ASSUME NEW r \in Conn, AssignSelected(r) PROVE Moved(j)
  <2>1. /\ conn[r].step = "assign" /\ conn'[r].step = "deliver"
        /\ conn'[r].jobs = conn[r].jobs
        /\ \A s \in Conn \ {r} : conn'[s] = conn[s]
    BY <1>6, <1>c DEF AssignSelected, Request
  <2>2. CASE j \in conn[r].jobs
    <3>1. status[j] \in {"pending", "cancelled"} /\ Picked(j)
      BY <1>i, <2>1, <2>2 DEF Prompt, Picked
    <3>2. status'[j] = "assigned" /\ retry'[j] = retry[j]
      BY <1>6, <2>2, <3>1 DEF AssignSelected, AssignJobs
    <3>3. Has(j)'
      BY <2>1, <2>2 DEF Has
    <3> QED
      BY <3>1, <3>2, <3>3 DEF Moved, HandedOut
  <2>3. CASE j \notin conn[r].jobs
    <3>1. status'[j] = status[j] /\ retry'[j] = retry[j]
      BY <1>6, <2>3 DEF AssignSelected, AssignJobs
    <3>2. todo' = todo
      BY <1>6 DEF AssignSelected
    <3>3. (Has(j)' <=> Has(j)) /\ (Picked(j)' => Picked(j)) /\ (Awaited(j)' => Awaited(j))
      BY <2>1, <2>3, <3>2 DEF Has, Picked, Awaited, Written
    <3> QED
      BY <3>1, <3>3 DEF Moved, Untouched
  <2> QED
    BY <2>2, <2>3
<1>7. ASSUME NEW r \in Conn, Deliver(r) PROVE Moved(j)
  <2> DEFINE p == conn[r].from
  <2>1. p \in Proc /\ pc[p] = "polling" /\ conn[r].step = "deliver"
    BY <1>7, <1>i DEF Deliver, Prompt, CallInv, PollSteps
  <2>2. todo[p] = {}
    BY <1>i, <2>1 DEF BatchInv
  <2>3. /\ todo'[p] = conn[r].jobs /\ \A q \in Proc \ {p} : todo'[q] = todo[q]
        /\ conn'[r].step = "free" /\ \A s \in Conn \ {r} : conn'[s] = conn[s]
    BY <1>7, <1>i, <1>c, <2>1 DEF Deliver, TypeOK, Free
  <2> HIDE DEF p
  <2>4. Has(j)' <=> Has(j)
    BY <2>1, <2>2, <2>3 DEF Has
  <2>5. (Picked(j)' => Picked(j)) /\ (Written(j) => Written(j)')
    BY <2>1, <2>3 DEF Picked, Written
  <2> QED
    BY <1>7, <1>s, <2>4, <2>5 DEF Deliver, Same
<1>8. ASSUME NEW p \in Proc, ExecuteJob(p) PROVE Moved(j)
  <2>1. PICK r \in Conn, outcome \in Outcomes, k \in todo[p] : Executes(p, r, outcome, k)
    BY <1>8, <1>i, ExecuteEffect
  <2>2. /\ conn[r].step = "free" /\ conn'[r].step = "read"
        /\ \A s \in Conn \ {r} : conn'[s] = conn[s]
    BY <2>1 DEF Executes
  <2>3. Same(j)
    BY <1>8, <2>2, SameHolders DEF ExecuteJob
  <2> QED
    BY <1>8, <1>s, <2>3 DEF ExecuteJob
<1>9. ASSUME NEW r \in Conn, ReadJob(r) PROVE Moved(j)
  <2>1. PICK k \in conn[r].jobs :
            conn' = [conn EXCEPT
                ![r].seen = retry[k],
                ![r].next = IF Handling(conn[r].outcome) = "fail" THEN "failed" ELSE "none",
                ![r].step = IF status[k] = "absent" \/ owner[k] # agentId[conn[r].from]
                            THEN "ack" ELSE Handling(conn[r].outcome)]
    BY <1>9 DEF ReadJob
  <2>2. /\ conn[r].step = "read" /\ conn'[r].step \in {"ack", "complete", "check", "fail"}
        /\ \A s \in Conn \ {r} : conn'[s] = conn[s]
    BY <1>9, <1>c, <2>1 DEF ReadJob, Handling, Request
  <2>3. Same(j)
    BY <1>9, <2>2, SameHolders DEF ReadJob
  <2> QED
    BY <1>9, <1>s, <2>3 DEF ReadJob
<1>10. ASSUME NEW r \in Conn, CompleteJob(r) PROVE Moved(j)
  <2>1. PICK k \in conn[r].jobs : UpdateJobCompleted(k)
    BY <1>10 DEF CompleteJob
  <2>2. /\ conn[r].step = "complete" /\ conn'[r].step = "ack"
        /\ \A s \in Conn \ {r} : conn'[s] = conn[s]
    BY <1>10, <1>c DEF CompleteJob, Request
  <2>3. Same(j)
    BY <1>10, <2>2, SameHolders DEF CompleteJob
  <2>4. k \in Job /\ Awaited(k) /\ status[k] \in Out
    BY <1>i, <2>2, Reported DEF ReportSteps
  <2>5. retry' = retry /\ status'[k] = "completed" /\ (j # k => status'[j] = status[j])
    BY <1>i, <2>1, <2>4 DEF UpdateJobCompleted, TypeOK, StoreTypeOK
  <2>6. j # k => Untouched(j)
    BY <2>3, <2>5 DEF Same, Awaited, Untouched
  <2> QED
    BY <2>4, <2>5, <2>6 DEF Moved, Finished, Settled
<1>11. ASSUME NEW r \in Conn, CheckRetry(r) PROVE Moved(j)
  <2>1. conn[r].step = "check" /\ conn'[r].step = "fail"
        /\ \A s \in Conn \ {r} : conn'[s] = conn[s]
    BY <1>11, <1>i, CheckEffect DEF CheckRetry
  <2>2. Same(j)
    BY <1>11, <2>1, SameHolders DEF CheckRetry
  <2> QED
    BY <1>11, <1>s, <2>2 DEF CheckRetry
<1>12. ASSUME NEW r \in Conn, FailJob(r) PROVE Moved(j)
  <2>1. PICK k \in conn[r].jobs : UpdateJobFailed(k, conn[r].next)
    BY <1>12 DEF FailJob
  <2>2. /\ conn[r].step = "fail" /\ conn'[r].step = "ack"
        /\ \A s \in Conn \ {r} : conn'[s] = conn[s]
    BY <1>12, <1>c DEF FailJob, Request
  <2>3. Same(j)
    BY <1>12, <2>2, SameHolders DEF FailJob
  <2>4. /\ k \in Job /\ Awaited(k) /\ status[k] \in Out
        /\ conn[r].next \in {"pending", "failed"}
        /\ conn[r].next = "pending" => retry[k] < MaxRetries
    BY <1>i, <2>2, Reported DEF ReportSteps
  <2>5. /\ status'[k] = conn[r].next
        /\ retry'[k] = IF conn[r].next = "pending" THEN retry[k] + 1 ELSE retry[k]
        /\ j # k => status'[j] = status[j] /\ retry'[j] = retry[j]
    BY <1>i, <2>1, <2>4 DEF UpdateJobFailed, TypeOK, StoreTypeOK
  <2>6. j # k => Untouched(j)
    BY <2>3, <2>5 DEF Same, Awaited, Untouched
  <2> QED
    BY <2>4, <2>5, <2>6 DEF Moved, Finished, PutBack, Settled
<1>13. ASSUME NEW r \in Conn, Acknowledge(r) PROVE Moved(j)
  <2> DEFINE p == conn[r].from
  <2>1. conn[r].step = "ack" /\ p \in Proc
    BY <1>13, <1>i DEF Acknowledge, CallInv
  <2>2. /\ todo'[p] = todo[p] \ conn[r].jobs /\ \A q \in Proc \ {p} : todo'[q] = todo[q]
        /\ conn'[r].step = "free" /\ \A s \in Conn \ {r} : conn'[s] = conn[s]
    BY <1>13, <1>i, <1>c, <2>1 DEF Acknowledge, AfterReport, TypeOK, Free
  <2>3. j \in conn[r].jobs => status[j] # "assigned"
    BY <1>i, <2>1 DEF AckInv
  <2> HIDE DEF p
  <2>4. Has(j)' => Has(j)
    BY <2>1, <2>2 DEF Has
  <2>5. status[j] = "assigned" /\ Has(j) => Has(j)'
    BY <2>1, <2>2, <2>3 DEF Has
  <2>6. Picked(j)' => Picked(j)
    BY <2>2 DEF Picked
  <2>7. ASSUME Written(j), Has(j)' PROVE Written(j)'
    <3>1. CASE j \in conn[r].jobs
      BY <1>13, <1>i, <2>1, <2>2, <2>7, <3>1, WrittenHolder DEF Has, p
    <3>2. CASE j \notin conn[r].jobs
      BY <2>2, <2>7, <3>2 DEF Written
    <3> QED
      BY <3>1, <3>2
  <2> QED
    BY <1>13, <2>4, <2>5, <2>6, <2>7, Taken DEF Acknowledge
<1>14. ASSUME NEW r \in Conn, Discard(r) PROVE Moved(j)
    BY <1>14, <1>i DEF Discard, Prompt
<1>15. ASSUME NEW p \in Proc, CallFails(p) PROVE Moved(j)
  <2>1. PICK r \in Serving(p) :
            /\ Abandon(r)
            /\ IF pc[p] = "polling"
               THEN pc' = [pc EXCEPT ![p] = "idle"] /\ UNCHANGED todo
               ELSE AfterReport(p, todo[p] \ conn[r].jobs)
    BY <1>15 DEF CallFails
  <2>2. conn' = [conn EXCEPT ![r] = Free] /\ r \in Conn
    BY <2>1 DEF Abandon, SingleFlight, Serving
  <2>3. \A s \in Conn : conn'[s].step = "deliver" => conn'[s] = conn[s]
    BY <1>c, <2>2 DEF Free
  <2>4. \A q \in Proc : todo'[q] \subseteq todo[q]
    BY <1>i, <2>1 DEF AfterReport, TypeOK
  <2>5. Has(j)' => Has(j)
    BY <2>3, <2>4 DEF Has
  <2>6. faults' > faults
    BY <1>15, <1>c DEF CallFails
  <2>7. Picked(j)' => Picked(j)
    BY <1>c, <2>2 DEF Picked, Free
  <2>8. ASSUME Written(j), Has(j)' PROVE Written(j)'
    <3>1. CASE conn[r].step = "ack" /\ j \in conn[r].jobs
      <4>1. conn[r].from = p /\ p \in Proc /\ pc[p] = "reporting"
        BY <1>i, <2>1, <3>1 DEF Serving, CallInv, ReportSteps
      <4>2. j \notin todo'[p]
        BY <1>i, <2>1, <3>1, <4>1 DEF AfterReport, TypeOK
      <4>3. \A s \in Conn : j \in conn'[s].jobs => conn'[s].step # "deliver"
        BY <1>i, <2>2, <2>3, <3>1, WrittenHolder
      <4>4. \A q \in Proc : j \in todo'[q] => q = p
        BY <1>i, <2>2, <2>4, <3>1, <4>1, WrittenHolder
      <4> QED
        BY <2>8, <4>2, <4>3, <4>4 DEF Has
    <3>2. CASE ~(conn[r].step = "ack" /\ j \in conn[r].jobs)
      BY <1>c, <2>2, <2>8, <3>2 DEF Written
    <3> QED
      BY <3>1, <3>2
  <2> QED
    BY <1>15, <2>5, <2>6, <2>7, <2>8, Taken DEF CallFails
<1>16. ASSUME NEW p \in Proc, Crash(p) PROVE Moved(j)
  <2>1. conn' = conn \/ \E r \in Serving(p) : conn' = [conn EXCEPT ![r] = Free]
    BY <1>16 DEF Crash, Abandon, SingleFlight
  <2>2. \A s \in Conn : conn'[s].step = "deliver" => conn'[s] = conn[s]
    BY <1>c, <2>1 DEF Free, Serving
  <2>3. /\ todo'[p] = {} /\ \A q \in Proc : todo'[q] \subseteq todo[q]
    BY <1>i, <1>16 DEF Crash, TypeOK
  <2>4. Has(j)' => Has(j)
    BY <2>2, <2>3 DEF Has
  <2>5. faults' > faults
    BY <1>16, <1>c DEF Crash
  <2>6. Picked(j)' => Picked(j)
    BY <1>c, <2>1 DEF Picked, Free, Serving
  <2>7. ASSUME Written(j), Has(j)' PROVE Written(j)'
    <3>1. PICK s \in Conn : conn[s].step = "ack" /\ j \in conn[s].jobs
      BY <2>7 DEF Written
    <3>2. CASE conn'[s] = conn[s]
      BY <3>1, <3>2 DEF Written
    <3>3. CASE conn'[s] # conn[s]
      <4>1. conn[s].from = p
        BY <1>c, <2>1, <3>3 DEF Serving
      <4>2. \A q \in Proc : j \notin todo'[q]
        BY <1>i, <2>3, <3>1, <4>1, WrittenHolder
      <4>3. \A t \in Conn : j \in conn'[t].jobs => conn'[t].step # "deliver"
        BY <1>i, <2>2, <3>1, WrittenHolder
      <4> QED
        BY <2>7, <4>2, <4>3 DEF Has
    <3> QED
      BY <3>2, <3>3
  <2> QED
    BY <1>16, <2>4, <2>5, <2>6, <2>7, Taken DEF Crash
<1>17. ASSUME NEW p \in Proc, Restart(p) PROVE Moved(j)
  <2>1. Same(j)
    BY <1>17, SameConn DEF Restart
  <2> QED
    BY <1>17, <1>s, <2>1 DEF Restart
<1>18. ASSUME OrchestratorRestart PROVE Moved(j)
  <2>1. \A s \in Conn : conn'[s].step = "free"
    BY <1>18 DEF OrchestratorRestart, Free
  <2>2. \A q \in Proc : todo'[q] = todo[q] \ ReportedBy(q)
    BY <1>18 DEF OrchestratorRestart
  <2>3. Has(j)' => Has(j)
    BY <2>1, <2>2 DEF Has
  <2>4. faults' > faults
    BY <1>18, <1>c DEF OrchestratorRestart
  <2>5. ~Picked(j)'
    BY <2>1 DEF Picked
  <2>6. ASSUME Written(j), Has(j)' PROVE FALSE
    <3>1. PICK s \in Conn : conn[s].step = "ack" /\ j \in conn[s].jobs
      BY <2>6 DEF Written
    <3>2. PICK q \in Proc : j \in todo'[q]
      BY <2>1, <2>6 DEF Has
    <3>3. conn[s].from = q /\ conn[s].live
      BY <1>i, <2>2, <3>1, <3>2, WrittenHolder DEF Prompt
    <3>4. j \in ReportedBy(q)
      BY <3>1, <3>3 DEF ReportedBy, Serving, ReportSteps
    <3> QED
      BY <2>2, <3>2, <3>4
  <2> QED
    BY <1>18, <2>3, <2>4, <2>5, <2>6, Taken DEF OrchestratorRestart
<1> QED
  <2>1. CASE Next
    <3> HIDE DEF Moved
    <3> QED
      BY <2>1, <1>2, <1>3, <1>4, <1>5, <1>6, <1>7, <1>8, <1>9, <1>10, <1>11, <1>12,
         <1>13, <1>14, <1>15, <1>16, <1>17, <1>18
         DEF Next, AgentStep, ServeRequest, Fault
  <2> QED
    BY <1>1, <2>1

-----------------------------------------------------------------------------
(* The invariant *)

LEMMA AckStep ==
    ASSUME SingleFlight, LInv, [Next]_vars, FlightInv'
    PROVE  AckInv'
<1> USE JobStoreAssumption, DispatchAssumption
<1>i. /\ FlightInv /\ IInv /\ Prompt /\ TypeOK /\ CallInv
      /\ PollInv /\ ReportInv /\ BatchInv /\ AckInv
    BY DEF LInv, FlightInv, IInv
<1>c. conn \in [Conn -> Request] /\ conn' \in [Conn -> Request] /\ faults \in Nat
    BY <1>i DEF FlightInv, IInv, TypeOK
<1> SUFFICES ASSUME NEW s \in Conn, conn'[s].step = "ack", NEW j \in conn'[s].jobs
             PROVE  status'[j] # "assigned"
    BY DEF AckInv
<1>0. j \in Job
    BY <1>c DEF Request
<1>1. CASE conn'[s] = conn[s]
  <2>1. conn[s].step = "ack" /\ j \in conn[s].jobs /\ status[j] # "assigned"
    BY <1>i, <1>1 DEF AckInv
  <2>2. j \in todo[conn[s].from] /\ conn[s].from \in Proc
    BY <1>i, <2>1, Reported DEF ReportSteps
  <2>3. ~HandedOut(j)
    BY <1>i, <1>0, <2>2, PickedIsNotHad DEF HandedOut, Has
  <2>4. Moved(j)
    BY <1>0, MovedStep
  <2> QED
    BY <2>1, <2>3, <2>4 DEF Moved, Untouched, Inserted, Finished, PutBack, Settled
<1>2. CASE conn'[s] # conn[s]
  <2>1. CASE UNCHANGED vars
    BY <1>2, <2>1 DEF vars
  <2>2. ASSUME NEW k \in Job, CreateJob(k) \/ TimePasses(k) PROVE FALSE
    BY <1>2, <2>2 DEF CreateJob, TimePasses
  <2>3. ASSUME NEW p \in Proc, Poll(p) PROVE FALSE
    BY <1>2, <1>c, <2>3 DEF Poll, Free
  <2>4. ASSUME NEW p \in Proc, ExecuteJob(p) PROVE FALSE
    BY <1>2, <1>i, <2>4, ExecuteEffect DEF Executes
  <2>5. ASSUME NEW r \in Conn, SelectJobs(r) PROVE FALSE
    BY <1>2, <1>i, <2>5, SelectEffect
  <2>6. ASSUME NEW r \in Conn, AssignSelected(r) PROVE FALSE
    BY <1>2, <1>c, <2>6 DEF AssignSelected, Request
  <2>7. ASSUME NEW r \in Conn, Deliver(r) PROVE FALSE
    BY <1>2, <1>c, <2>7 DEF Deliver, Free
  <2>8. ASSUME NEW r \in Conn, ReadJob(r) PROVE FALSE
    <3>1. PICK k \in conn[r].jobs :
            conn' = [conn EXCEPT
                ![r].seen = retry[k],
                ![r].next = IF Handling(conn[r].outcome) = "fail" THEN "failed" ELSE "none",
                ![r].step = IF status[k] = "absent" \/ owner[k] # agentId[conn[r].from]
                            THEN "ack" ELSE Handling(conn[r].outcome)]
      BY <2>8 DEF ReadJob
    <3>2. conn[r].step = "read"
      BY <2>8 DEF ReadJob
    <3>3. status[k] \in Out /\ k \in todo[conn[r].from] /\ conn[r].from \in Proc
      BY <1>i, <3>2, Reported DEF ReportSteps
    <3>4. owner[k] = agentId[conn[r].from]
      BY <1>i, <3>3 DEF BatchInv
    <3>5. s = r /\ conn'[r].step = Handling(conn[r].outcome)
      BY <1>2, <1>c, <3>1, <3>3, <3>4 DEF Request, Out
    <3> QED
      BY <3>5 DEF Handling
  <2>9. ASSUME NEW r \in Conn, CompleteJob(r) PROVE status'[j] # "assigned"
    <3>1. conn[r].step = "complete" /\ s = r /\ conn'[r].jobs = conn[r].jobs
      BY <1>2, <1>c, <2>9 DEF CompleteJob, Request
    <3>2. conn[r].jobs = {j}
      BY <1>i, <3>1, Reported DEF ReportSteps
    <3> QED
      BY <1>i, <1>0, <2>9, <3>2 DEF CompleteJob, UpdateJobCompleted, TypeOK, StoreTypeOK
  <2>10. ASSUME NEW r \in Conn, CheckRetry(r) PROVE FALSE
    BY <1>2, <1>i, <2>10, CheckEffect
  <2>11. ASSUME NEW r \in Conn, FailJob(r) PROVE status'[j] # "assigned"
    <3>1. conn[r].step = "fail" /\ s = r /\ conn'[r].jobs = conn[r].jobs
      BY <1>2, <1>c, <2>11 DEF FailJob, Request
    <3>2. conn[r].jobs = {j} /\ conn[r].next \in {"pending", "failed"}
      BY <1>i, <3>1, Reported DEF ReportSteps
    <3> QED
      BY <1>i, <1>0, <2>11, <3>2 DEF FailJob, UpdateJobFailed, TypeOK, StoreTypeOK
  <2>12. ASSUME NEW r \in Conn, Acknowledge(r) \/ Discard(r) PROVE FALSE
    BY <1>2, <1>c, <2>12 DEF Acknowledge, Discard, Free
  <2>13. ASSUME NEW p \in Proc, CallFails(p) \/ Crash(p) PROVE FALSE
    <3>1. conn' = conn \/ \E r \in Conn : conn' = [conn EXCEPT ![r] = Free]
      BY <2>13 DEF CallFails, Crash, Abandon, SingleFlight, Serving
    <3> QED
      BY <1>2, <1>c, <3>1 DEF Free
  <2>14. ASSUME NEW p \in Proc, Restart(p) PROVE FALSE
    BY <1>2, <2>14 DEF Restart
  <2>15. ASSUME OrchestratorRestart PROVE FALSE
    BY <2>15 DEF OrchestratorRestart, Free
  <2> QED
    BY <2>1, <2>2, <2>3, <2>4, <2>5, <2>6, <2>7, <2>8, <2>9, <2>10, <2>11, <2>12,
       <2>13, <2>14, <2>15 DEF Next, AgentStep, ServeRequest, Fault
<1> QED
    BY <1>1, <1>2

LEMMA LInvStep == SingleFlight /\ LInv /\ [Next]_vars => LInv'
BY FlightStep, AckStep DEF LInv

LEMMA LInvInit == Init => LInv
BY FlightInit DEF Init, StoreInit, LInv, AckInv, Free

LEMMA LInvCorrect == ASSUME SingleFlight PROVE Spec => []LInv
<1>1. LInv /\ [Next]_vars => LInv'
    BY LInvStep
<1> QED
    BY <1>1, LInvInit, PTL DEF Spec

-----------------------------------------------------------------------------
(* The theorems *)

\* A job becomes stuck in assigned only in the step of a fault: no interleaving
\* of the two statements of a poll with the reports of other agents loses one.
THEOREM StuckOnlyByFaultCorrect == ASSUME SingleFlight PROVE Spec => StuckOnlyByFault
<1>1. LInv /\ LInv' /\ [Next]_vars =>
        [\A j \in Job : Stuck(j)' /\ ~Stuck(j) => faults' > faults]_vars
  <2> SUFFICES ASSUME LInv, LInv', [Next]_vars, NEW j \in Job, Stuck(j)', ~Stuck(j)
               PROVE  faults' > faults
    OBVIOUS
  <2>1. (Held(j) <=> Has(j)) /\ (Held(j)' <=> Has(j)')
    BY HeldIsHad, HeldIsHadNext DEF LInv, FlightInv
  <2>2. status'[j] = "assigned" /\ ~Has(j)' /\ (status[j] = "assigned" => Has(j))
    BY <2>1 DEF Stuck
  <2> QED
    BY <2>2, MovedStep DEF Moved, Untouched, Inserted, HandedOut, Finished, PutBack, Settled
<1> QED
    BY <1>1, LInvCorrect, PTL DEF Spec, StuckOnlyByFault

\* What the lifecycle sees of a job.
PhaseOf(j) ==
    CASE status[j] = "absent"    -> "none"
      [] status[j] = "pending"   -> "waiting"
      [] status[j] = "assigned"  -> IF Has(j) THEN "out" ELSE "lost"
      [] status[j] = "cancelled" -> IF Picked(j) THEN "picked"
                                    ELSE IF Awaited(j) THEN "recalled" ELSE "cancelled"
      [] OTHER                   -> status[j]

LEMMA PhaseIs ==
    ASSUME LInv, NEW j \in Job
    PROVE  Phase(j) = PhaseOf(j)
BY HeldIsHad DEF LInv, FlightInv, Phase, CancelledPhase, PhaseOf, Awaited

LEMMA PhaseIsNext ==
    ASSUME LInv', NEW j \in Job
    PROVE  Phase(j)' = PhaseOf(j)'
BY HeldIsHadNext DEF LInv, FlightInv, Phase, CancelledPhase, PhaseOf, Awaited

\* The move of the lifecycle that a move of the rows is.
PhaseMoved(j) ==
    \/ <<Phase(j), Phase(j)'>> \in Lifecycle!Moves /\ retry'[j] = retry[j]
    \/ /\ Phase(j) \in {"out", "recalled"} /\ Phase(j)' = "waiting"
       /\ retry[j] < MaxRetries /\ retry'[j] = retry[j] + 1
    \/ Phase(j)' = Phase(j) /\ retry'[j] = retry[j]

LEMMA PhaseStep ==
    ASSUME SingleFlight, LInv, LInv', NEW j \in Job, Moved(j)
    PROVE  PhaseMoved(j)
<1>1. Phase(j) = PhaseOf(j) /\ Phase(j)' = PhaseOf(j)'
    BY PhaseIs, PhaseIsNext
<1>2. Picked(j) => ~Has(j)
    BY PickedIsNotHad DEF LInv
<1>3. CASE Untouched(j)
  <2>1. CASE status[j] = "assigned"
    BY <1>1, <1>3, <2>1 DEF Untouched, PhaseOf, PhaseMoved, Lifecycle!Moves
  <2>2. CASE status[j] = "cancelled"
    BY <1>1, <1>2, <1>3, <2>2 DEF Untouched, Awaited, PhaseOf, PhaseMoved, Lifecycle!Moves
  <2>3. CASE status[j] \notin {"assigned", "cancelled"}
    BY <1>1, <1>3, <2>3 DEF Untouched, PhaseOf, PhaseMoved
  <2> QED
    BY <2>1, <2>2, <2>3
<1>4. CASE Inserted(j)
    BY <1>1, <1>4 DEF Inserted, PhaseOf, PhaseMoved, Lifecycle!Moves
<1>5. CASE HandedOut(j)
    BY <1>1, <1>5 DEF HandedOut, PhaseOf, PhaseMoved, Lifecycle!Moves
<1>6. CASE Finished(j)
  <2>1. Phase(j) \in {"out", "recalled"} /\ Phase(j)' = status'[j]
    BY <1>1, <1>2, <1>6 DEF Finished, Awaited, Out, Settled, PhaseOf
  <2> QED
    BY <1>6, <2>1 DEF Finished, Settled, PhaseMoved, Lifecycle!Moves
<1>7. CASE PutBack(j)
  <2>1. Phase(j) \in {"out", "recalled"} /\ Phase(j)' = "waiting"
    BY <1>1, <1>2, <1>7 DEF PutBack, Awaited, Out, PhaseOf
  <2> QED
    BY <1>7, <2>1 DEF PutBack, PhaseMoved
<1> QED
    BY <1>3, <1>4, <1>5, <1>6, <1>7 DEF Moved

LEMMA PhaseType ==
    ASSUME LInv, NEW j \in Job
    PROVE  Phase(j) \in Lifecycle!Phases
<1>1. status[j] \in JobStatus \cup {"absent"}
    BY DEF LInv, FlightInv, IInv, TypeOK, StoreTypeOK
<1> QED
    BY <1>1, PhaseIs DEF JobStatus, PhaseOf, Lifecycle!Phases

LEMMA PhaseTypeNext ==
    ASSUME LInv', NEW j \in Job
    PROVE  Phase(j)' \in Lifecycle!Phases
<1>1. status'[j] \in JobStatus \cup {"absent"}
    BY DEF LInv, FlightInv, IInv, TypeOK, StoreTypeOK
<1> QED
    BY <1>1, PhaseIsNext DEF JobStatus, PhaseOf, Lifecycle!Phases

\* The protocol of the handlers and the agents implements the lifecycle of a
\* job that ProcessJobResult and GetNextJobs promise: a job goes out only from
\* waiting, comes back only from the agent that has it, at most max_retries
\* times, and a final result is final.
THEOREM LifecycleCorrect == ASSUME SingleFlight PROVE Spec => ImplementsLifecycle
<1> USE JobStoreAssumption, DispatchAssumption
<1>1. Init => Lifecycle!Init
  <2> SUFFICES ASSUME Init PROVE Lifecycle!Init
    OBVIOUS
  <2>1. \A j \in Job : Phase(j) = "none"
    BY DEF Init, StoreInit, Phase
  <2> QED
    BY <2>1 DEF Lifecycle!Init, Init, StoreInit
<1>2. SingleFlight /\ LInv /\ LInv' /\ [Next]_vars => Lifecycle!Next
  <2> SUFFICES ASSUME SingleFlight, LInv, LInv', [Next]_vars PROVE Lifecycle!Next
    OBVIOUS
  <2>1. /\ [j \in Job |-> Phase(j)]' \in [Job -> Lifecycle!Phases]
        /\ retry' \in [Job -> Nat]
    BY PhaseTypeNext DEF LInv, FlightInv, IInv, TypeOK, StoreTypeOK
  <2>2. ASSUME NEW j \in Job
        PROVE  Lifecycle!Move(j) \/ Lifecycle!Requeue(j) \/ Lifecycle!Rest(j)
    <3>1. PhaseMoved(j)
      BY MovedStep, PhaseStep
    <3> QED
      BY <3>1 DEF PhaseMoved, Lifecycle!Move, Lifecycle!Requeue, Lifecycle!Rest
  <2> QED
    BY <2>1, <2>2 DEF Lifecycle!Next
<1> QED
    BY <1>1, <1>2, LInvCorrect, PTL DEF Spec, ImplementsLifecycle, Lifecycle!Spec

-----------------------------------------------------------------------------
(* With handlers that outlive their request *)

\* A poll that nobody waits for any more still assigns what it selected.
Abandoned(j) ==
    /\ \E r \in Conn : conn[r].step = "assign" /\ ~conn[r].live /\ j \in conn[r].jobs
    /\ status'[j] = "assigned"

LEMMA FinalStep ==
    ASSUME IInv, [Next]_vars, NEW j \in Job, status[j] \in Settled
    PROVE  status'[j] = status[j] \/ Abandoned(j)
<1> USE JobStoreAssumption
<1>i. /\ TypeOK /\ PollInv /\ ReportInv
      /\ status \in [Job -> JobStatus \cup {"absent"}]
    BY DEF IInv, TypeOK, StoreTypeOK
<1>1. ASSUME NEW k \in Job, CreateJob(k) PROVE status'[j] = status[j]
    BY <1>1 DEF CreateJob, InsertJobs, Settled
<1>2. ASSUME NEW r \in Conn, AssignSelected(r) PROVE status'[j] = status[j] \/ Abandoned(j)
  <2>1. conn[r].step = "assign" /\ AssignJobs(conn[r].jobs)
    BY <1>2 DEF AssignSelected
  <2>2. CASE j \in conn[r].jobs
    <3>1. ~conn[r].live
      BY <1>i, <2>1, <2>2 DEF PollInv, Out, Settled
    <3>2. status'[j] = "assigned"
      BY <2>1, <2>2 DEF AssignJobs, Settled
    <3> QED
      BY <2>1, <2>2, <3>1, <3>2 DEF Abandoned
  <2>3. CASE j \notin conn[r].jobs
    BY <2>1, <2>3 DEF AssignJobs
  <2> QED
    BY <2>2, <2>3
<1>3. ASSUME NEW r \in Conn, CompleteJob(r) \/ FailJob(r) PROVE status'[j] = status[j]
  <2>1. PICK k \in conn[r].jobs : UpdateJobCompleted(k) \/ UpdateJobFailed(k, conn[r].next)
    BY <1>3 DEF CompleteJob, FailJob
  <2>2. status[k] \in Out
    BY <1>i, <1>3 DEF ReportInv, ReportSteps, Unwritten, CompleteJob, FailJob
  <2>3. k # j
    BY <2>2 DEF Out, Settled
  <2> QED
    BY <1>i, <2>1, <2>3 DEF UpdateJobCompleted, UpdateJobFailed
<1>4. CASE \/ UNCHANGED vars \/ \E k \in Job : TimePasses(k)
           \/ \E p \in Proc : Poll(p) \/ ExecuteJob(p) \/ Restart(p) \/ CallFails(p) \/ Crash(p)
           \/ OrchestratorRestart
  <2>1. status' = status
    BY ZenonT(60), <1>4
       DEF vars, TimePasses, BecomeDue, Poll, ExecuteJob, Restart, CallFails, Crash,
       OrchestratorRestart
  <2> QED
    BY <2>1
<1>5. CASE \E r \in Conn : \/ SelectJobs(r) \/ Deliver(r) \/ ReadJob(r) \/ CheckRetry(r)
                           \/ Acknowledge(r) \/ Discard(r)
    BY <1>5 DEF SelectJobs, Deliver, ReadJob, CheckRetry, Acknowledge, Discard
<1> QED
    BY <1>1, <1>2, <1>3, <1>4, <1>5 DEF Next, AgentStep, ServeRequest, Fault

\* Handlers that outlive their request may write, but a final result is safe from
\* every one but a poll that nobody waits for any more.
THEOREM FinalUnlessAbandoned ==
    ASSUME OneProcessPerAgent
    PROVE  Spec => [][\A j \in Job : status[j] \in Settled =>
                        status'[j] = status[j] \/ Abandoned(j)]_vars
<1>1. IInv /\ [Next]_vars =>
        [\A j \in Job : status[j] \in Settled => status'[j] = status[j] \/ Abandoned(j)]_vars
    BY FinalStep
<1> QED
    BY <1>1, InvCorrect, PTL DEF Spec
=============================================================================
