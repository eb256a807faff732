------------------------------ MODULE JobStore ------------------------------
(***************************************************************************)
(* The jobs table of the orchestrator's SQLite database and the statements *)
(* that internal/orchestrator/storage/jobs.go runs on it.                  *)
(*                                                                         *)
(* SQLite runs one statement, or one transaction, atomically: each         *)
(* operator below is exactly one of them, so that the modules built on     *)
(* this one decide what may happen BETWEEN two statements of a handler.    *)
(* A row is split into one function per column that a decision reads.      *)
(* Columns nothing decides on (parameters, result, timestamps) are left    *)
(* out; priority DESC, scheduled_at ASC is the single order Rank.          *)
(***************************************************************************)
EXTENDS Naturals, FiniteSets

CONSTANTS Job,         \* the job ids that may be inserted
          Agent,       \* the agent ids
          owner,       \* owner[j] is the agent_id column, written once
          MaxRetries,  \* the max_retries column; 3 wherever the code inserts
          Rank         \* Rank[j]: place in "priority DESC, scheduled_at ASC"

ASSUME JobStoreAssumption ==
    /\ owner \in [Job -> Agent]
    /\ MaxRetries \in Nat
    /\ Rank \in [Job -> Nat]

VARIABLES status,  \* the status column; "absent" when there is no row
          retry,   \* the retry_count column
          due      \* the jobs whose scheduled_at has been reached

store == <<status, retry, due>>

\* The statuses a row takes.  "running" is not one of them: UpdateJobStarted,
\* the one statement that writes it, has no caller.
JobStatus == {"pending", "assigned", "completed", "failed", "cancelled"}

\* What a result report leaves a job in for good.
Settled == {"completed", "failed"}

StoreTypeOK ==
    /\ status \in [Job -> JobStatus \cup {"absent"}]
    /\ retry \in [Job -> Nat]
    /\ due \in SUBSET Job

StoreInit ==
    /\ status = [j \in Job |-> "absent"]
    /\ retry = [j \in Job |-> 0]
    /\ due = {}

-----------------------------------------------------------------------------
(* Statements *)

\* CreateJob (one row) and CreateJobBatch (all rows in one transaction).  The
\* id is a primary key: a row that exists makes the whole insert fail.
InsertJobs(js) ==
    /\ \A j \in js : status[j] = "absent"
    /\ status' = [j \in Job |-> IF j \in js THEN "pending" ELSE status[j]]
    /\ UNCHANGED <<retry, due>>

\* The passing of time: a job's scheduled_at is reached.  scheduled_at is never
\* written again, not even when a failed job goes back to pending.
BecomeDue(j) ==
    /\ status[j] # "absent"
    /\ j \notin due
    /\ due' = due \cup {j}
    /\ UNCHANGED <<status, retry>>

\* ORDER BY ... LIMIT n over the set S.  SQLite leaves the order of equal rows
\* open, so there may be several answers.
Top(S, n) ==
    {T \in SUBSET S :
        /\ Cardinality(T) = IF Cardinality(S) < n THEN Cardinality(S) ELSE n
        /\ \A t \in T, u \in S \ T : Rank[t] <= Rank[u]}

\* Mutant: the WHERE clause forgets agent_id.
EligibleOfAnyone(a) == {j \in due : status[j] = "pending"}

\* Mutant: the WHERE clause lets through every job that is not settled yet.
EligibleUnsettled(a) ==
    {j \in due : owner[j] = a /\ status[j] \notin Settled \cup {"absent", "cancelled"}}

\* Mutant: the WHERE clause filters out successes and forgets failures.
EligibleAgain(a) ==
    {j \in due : owner[j] = a /\ status[j] \in {"pending", "failed"}}

\* Mutant: the last retry is never handed out.
EligibleBeforeLastRetry(a) ==
    {j \in due : owner[j] = a /\ status[j] = "pending" /\ retry[j] < MaxRetries}

\* The WHERE clause of GetNextJobsForAgent.
Eligible(a) == {j \in due : owner[j] = a /\ status[j] = "pending"}

\* AssignJobs marks jobs as assigned, all in one transaction.  The statement is
\* UPDATE ... WHERE id = ?: it does not look at the status it overwrites.
AssignJobs(js) ==
    /\ status' = [j \in Job |-> IF j \in js /\ status[j] # "absent"
                                THEN "assigned" ELSE status[j]]
    /\ UNCHANGED <<retry, due>>

\* UpdateJobCompleted, again whatever the status was.
UpdateJobCompleted(j) ==
    /\ status' = [status EXCEPT ![j] = "completed"]
    /\ UNCHANGED <<retry, due>>

\* Mutant: the branch of the last failure sets no status.
RetryDecisionUnset(j) == IF retry[j] < MaxRetries THEN "pending" ELSE "none"

\* UpdateJobFailed, first half: the row is read again to choose the status.
RetryDecision(j) == IF retry[j] < MaxRetries THEN "pending" ELSE "failed"

\* Mutant: the retry is not counted.
UpdateJobFailedUncounted(j, next) ==
    /\ status' = [status EXCEPT ![j] = next]
    /\ UNCHANGED <<retry, due>>

\* UpdateJobFailed, second half: the UPDATE with the status chosen before and
\* retry_count = retry_count + 1 when that status is pending.
UpdateJobFailed(j, next) ==
    /\ status' = [status EXCEPT ![j] = next]
    /\ retry' = [retry EXCEPT ![j] = IF next = "pending" THEN @ + 1 ELSE @]
    /\ UNCHANGED due
=============================================================================
