------------------------------ MODULE Activity ------------------------------
(***************************************************************************)
(* The agent's simulation handlers (agent/actions/file_activity.go,        *)
(* process_activity.go, email_traffic.go, browsing.go).  Each repeats a    *)
(* random operation until its count or its duration is reached or its      *)
(* context ends, cleans up, and reports what it did.                       *)
(***************************************************************************)
EXTENDS Integers, FiniteSets

CONSTANTS MaxCount,    \* bound on file_count, spawn_count and email_count
          Size,        \* the values of file_size_kb_min and file_size_kb_max
          DefaultSize  \* what file_size_kb_max is by default

ASSUME ActivityAssumption ==
    /\ MaxCount \in Nat \ {0}
    /\ Size \subseteq Int
    /\ DefaultSize \in Nat \ {0}

VARIABLES act,  \* the handler that runs
          there \* what it has put on the machine: files, processes, mails

actVars == <<act, there>>

SimulationActions == {"simulate_file_activity", "simulate_process_activity",
                      "simulate_email_traffic", "simulate_browsing"}

\* preserve: preserve_files.  lo, hi: file_size_kb_min and file_size_kb_max.
\* apart: a process is started by cmd /C start, which leaves it on its own.
\* todo: the iterations left.  mine: what the handler remembers to have made.
\* made, undone, failed: the counters of its report, whatever they count.
\* meddled: a removal failed or somebody else made one, a write broke off
\* half-way, a mail was taken without an answer (history).
NoAct == [action |-> "none", preserve |-> FALSE, lo |-> 1, hi |-> DefaultSize, apart |-> FALSE,
          step |-> "idle", todo |-> 0, next |-> 1, mine |-> {},
          made |-> 0, undone |-> 0, failed |-> 0, meddled |-> FALSE]

Thing == 1..MaxCount
Act == [action : SimulationActions \cup {"none"},
        preserve : BOOLEAN, lo : Size \cup {1}, hi : Size \cup {DefaultSize}, apart : BOOLEAN,
        step : {"idle", "loop", "cleanup", "completed", "failed", "panic"},
        todo : 0..MaxCount, next : 1..(MaxCount + 1), mine : SUBSET Thing,
        made : 0..MaxCount, undone : 0..MaxCount, failed : 0..MaxCount, meddled : BOOLEAN]

ActTypeOK == act \in Act /\ there \in SUBSET Thing
ActInit == act = NoAct /\ there = {}

-----------------------------------------------------------------------------
(* The course of a handler *)

\* What is missing, or 0, has its default.
OrSize(size, default) == IF size = 0 THEN default ELSE size

\* The parameters are read: without a required one, or with a directory or a
\* process that is not allowed, nothing is done.
BeginAct(a) ==
    /\ act.step = "idle"
    /\ \E n \in 1..MaxCount, keep, apart, ok \in BOOLEAN, lo, hi \in Size \cup {0} :
        /\ keep \/ lo # 0 \/ hi # 0 => a = "simulate_file_activity"
        /\ apart => a = "simulate_process_activity"
        /\ act' = IF ok
                   THEN [NoAct EXCEPT !.action = a, !.preserve = keep, !.apart = apart,
                                      !.lo = OrSize(lo, 1), !.hi = OrSize(hi, DefaultSize),
                                      !.todo = n, !.step = "loop"]
                   ELSE [NoAct EXCEPT !.action = a, !.step = "failed"]
    /\ UNCHANGED there

InLoop(a) == act.action = a /\ act.step = "loop" /\ act.todo > 0
\* Mutant: a turn is not counted.
TurnUncounted(r) == r

Turn(r) == [r EXCEPT !.todo = @ - 1]
Did(r) == act' = Turn(r)

\* The count or the duration is reached, or the context ends first.
LeaveLoop ==
    /\ act.step = "loop"
    /\ act' = [act EXCEPT !.step = "cleanup", !.todo = 0]
    /\ UNCHANGED there

-----------------------------------------------------------------------------
(* simulate_file_activity *)

Made(r) == [r EXCEPT !.made = @ + 1, !.next = @ + 1, !.mine = @ \cup {r.next}]

\* createFile; a write that fails may leave a part of the file.
CreateFile ==
    /\ InLoop("simulate_file_activity")
    /\ \E size \in act.lo..act.hi : size >= 0
    /\ \/ Did(Made(act)) /\ there' = there \cup {act.next}
       \/ Did([act EXCEPT !.next = @ + 1, !.meddled = TRUE])
          /\ there' \in {there, there \cup {act.next}}

\* Intn(max - min + 1) with max < min, and a negative size: nothing recovers.
SizePanic ==
    /\ InLoop("simulate_file_activity")
    /\ act.hi < act.lo \/ \E size \in act.lo..act.hi : size < 0
    /\ act' = [act EXCEPT !.step = "panic"]
    /\ UNCHANGED there

\* "modify" and "read" leave the set of files as it is, and so does any
\* operation that finds no file, or fails.
TouchFile ==
    /\ InLoop("simulate_file_activity")
    /\ Did(act)
    /\ UNCHANGED there

\* Mutant: the removed file is not forgotten.
ForgetNot(r, f) == [r EXCEPT !.undone = @ + 1]

\* "Remove from tracking"
Forget(r, f) == [r EXCEPT !.undone = @ + 1, !.mine = @ \ {f}]

DeleteFile ==
    /\ InLoop("simulate_file_activity")
    /\ ~act.preserve
    /\ \E f \in act.mine :
        IF f \in there
        THEN \/ Did(Forget(act, f)) /\ there' = there \ {f}
             \/ Did([act EXCEPT !.meddled = TRUE]) /\ UNCHANGED there
        ELSE Did(act) /\ UNCHANGED there

\* The file has a new name, and the list of files as well: one and the same here.
RenameFile ==
    /\ InLoop("simulate_file_activity")
    /\ act.mine # {}
    /\ Did(act)
    /\ UNCHANGED there

\* os.Remove of every file that is remembered; each counts as deleted.
CleanFiles ==
    /\ act.action = "simulate_file_activity"
    /\ act.step = "cleanup"
    /\ IF act.preserve
       THEN act' = [act EXCEPT !.step = "completed"] /\ UNCHANGED there
       ELSE \E stuck \in SUBSET (there \cap act.mine) :
            /\ there' = there \ (act.mine \ stuck)
            /\ act' = [act EXCEPT !.step = "completed", !.undone = @ + Cardinality(act.mine),
                                  !.meddled = @ \/ stuck # {}]

\* Somebody removes a file, or a process ends by itself.
Disappear ==
    /\ act.step \in {"loop", "cleanup"}
    /\ act.action \in {"simulate_file_activity", "simulate_process_activity"}
    /\ \E f \in there : there' = there \ {f}
    /\ act' = [act EXCEPT !.meddled = TRUE]

-----------------------------------------------------------------------------
(* simulate_process_activity *)

\* A process that does not start is passed over.
SpawnProcess ==
    /\ InLoop("simulate_process_activity")
    /\ \/ Did(Made(act)) /\ there' = there \cup {act.next}
       \/ Did(act) /\ UNCHANGED there

\* Kill, of the processes that were started; of cmd where that was started.
KillProcesses ==
    /\ act.action = "simulate_process_activity"
    /\ act.step = "cleanup"
    /\ \E killed \in SUBSET act.mine :
        /\ there' = IF act.apart THEN there ELSE there \ killed
        /\ act' = [act EXCEPT !.step = "completed", !.undone = Cardinality(killed),
                              !.meddled = @ \/ killed # act.mine]

-----------------------------------------------------------------------------
(* simulate_email_traffic and simulate_browsing *)

\* smtp.SendMail: the server may have taken a mail whose sending fails.
SendEmail ==
    /\ InLoop("simulate_email_traffic")
    /\ \/ Did([act EXCEPT !.made = @ + 1, !.next = @ + 1]) /\ there' = there \cup {act.next}
       \/ Did([act EXCEPT !.failed = @ + 1, !.next = @ + 1])
          /\ there' \in {there, there \cup {act.next}}

\* No recipients, or an action other than "send": nothing leaves the agent.
SendNothing ==
    /\ InLoop("simulate_email_traffic")
    /\ Did(act)
    /\ UNCHANGED there

\* A page is loaded for the URL, and one for a link that is clicked; only time
\* ends this loop.
VisitURL ==
    /\ InLoop("simulate_browsing")
    /\ Did([act EXCEPT !.made = @ + 1])
    /\ UNCHANGED there

\* These two have nothing to clean up.
EndSimulation ==
    /\ act.action \in {"simulate_email_traffic", "simulate_browsing"}
    /\ act.step = "cleanup"
    /\ act' = [act EXCEPT !.step = "completed"]
    /\ UNCHANGED there

ActEnded == act.step \in {"completed", "failed"}
EndAct == act' = NoAct /\ there' = {}

ActStep ==
    \/ LeaveLoop \/ Disappear
    \/ CreateFile \/ SizePanic \/ TouchFile \/ DeleteFile \/ RenameFile \/ CleanFiles
    \/ SpawnProcess \/ KillProcesses
    \/ SendEmail \/ SendNothing \/ VisitURL \/ EndSimulation

-----------------------------------------------------------------------------
(* Properties *)

\* The report agrees with the machine: as many files are left as were created
\* and not deleted, every process that was started was terminated, no mail that
\* is called sent is missing and none arrived that is in neither count.
ActReportTrue ==
    act.step = "completed" =>
        CASE act.action = "simulate_file_activity" ->
                act.meddled \/ act.made = act.undone + Cardinality(there)
          [] act.action = "simulate_process_activity" -> act.meddled \/ act.made = act.undone
          [] act.action = "simulate_email_traffic" ->
                act.made <= Cardinality(there) /\ Cardinality(there) <= act.made + act.failed
          [] OTHER -> there = {}

\* Nothing is left of a handler that ended, by whatever way: only what it was
\* told to preserve, what somebody meddled with, and a program that Windows
\* started apart from the process that is killed.
ActLeavesNothing ==
    ActEnded /\ act.action # "simulate_email_traffic" =>
        there = {} \/ act.preserve \/ act.meddled \/ act.apart
=============================================================================
