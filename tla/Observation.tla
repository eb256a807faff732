----------------------------- MODULE Observation -----------------------------
(***************************************************************************)
(* The agent's observation handlers (agent/actions/observe_process.go,     *)
(* observe_file.go, observe_user.go, capture_powershell.go), and what the  *)
(* orchestrator makes of their reports for the scoring engine              *)
(* (scoring/forwarder.go).                                                 *)
(*                                                                         *)
(* A handler asks a tool, or the file system, in one or more steps; the    *)
(* machine it asks about changes meanwhile.                                *)
(***************************************************************************)
EXTENDS Naturals, Sequences, SequencesExt

CONSTANTS Owner,     \* the users with a directory below C:\Users
          Self,      \* the one the agent runs as
          MaxLines,  \* the handler's max_lines
          MaxHistory \* bound on the lines of a history file

ASSUME ObservationAssumption ==
    /\ Self \in Owner
    /\ MaxLines \in Nat \ {0}
    /\ MaxHistory \in Nat

VARIABLES probe,   \* the handler that runs
          world,   \* the state of the thing it observes
          history  \* history[u]: u's commands, TRUE for one the pattern matches

probeVars == <<probe, world, history>>

\* The states of a thing: file contents are the expected ones or not.
States == [observe_process_state |-> {"running", "not_running"},
           observe_file_state |-> {"deleted", "directory", "same", "changed"},
           observe_user_state |-> {"enabled", "disabled", "unknown"},
           capture_powershell_history |-> {"none"}]
ObservationActions == DOMAIN States

\* What expected_state may say, and its default.
Expected == [observe_process_state |-> {"running", "not_running"},
             observe_file_state |-> {"exists", "deleted", "modified"},
             observe_user_state |-> {"enabled", "disabled"},
             capture_powershell_history |-> {"all_users", "current_user"}]
Default == [observe_process_state |-> "not_running",
            observe_file_state |-> "deleted",
            observe_user_state |-> "disabled",
            capture_powershell_history |-> "all_users"]

NoProbe == [action |-> "none", expected |-> "none", hashed |-> FALSE, odd |-> FALSE,
            step |-> "idle", seen |-> "none", files |-> {}, matches |-> FALSE,
            faulty |-> FALSE, held |-> FALSE, due |-> FALSE]

\* hashed: an expected_hash is given.  odd: the process is one the tools do not
\* find by its name.  files: the history files still to be read.  History
\* variables: a tool failed (faulty); the expected state was there at some time
\* (held); a match was within reach when the capture began (due).
Probe ==
    [action : ObservationActions \cup {"none"},
     expected : (UNION {Expected[a] : a \in ObservationActions}) \cup {"none", "bad"},
     hashed : BOOLEAN, odd : BOOLEAN,
     step : {"idle", "ask", "fallback", "hash", "read", "completed", "failed"},
     seen : {"running", "not_running", "exists", "deleted", "modified",
             "enabled", "disabled", "none"},
     files : SUBSET Owner, matches : BOOLEAN,
     faulty : BOOLEAN, held : BOOLEAN, due : BOOLEAN]

ProbeTypeOK ==
    /\ probe \in Probe
    /\ world \in UNION {States[a] : a \in ObservationActions}
    /\ DOMAIN history = Owner
    /\ \A u \in Owner : history[u] \in Seq(BOOLEAN) /\ Len(history[u]) <= MaxHistory

ProbeInit ==
    /\ probe = NoProbe
    /\ world = "none"
    /\ history = [u \in Owner |-> <<>>]

-----------------------------------------------------------------------------
(* Parameters *)

OrDefault(value, default) == IF value = "missing" THEN default ELSE value

Holds(p, w) ==
    CASE p.expected = "exists" -> w \in {"directory", "same", "changed"}
      [] p.expected = "modified" -> p.hashed /\ w = "changed"
      [] OTHER -> w = p.expected

\* The history files of a scope.
Scope(e) == IF e = "all_users" THEN Owner ELSE {Self}

\* The parameters are read; one that has no meaning ends the handler (for a
\* capture "expected" is the scope, and a bad one a pattern that does not
\* compile).  The machine is in any state; a missing history file is an empty one.
BeginProbe(a) ==
    /\ probe.step = "idle"
    /\ IF a = "capture_powershell_history"
       THEN history' \in [Owner -> BoundedSeq(BOOLEAN, MaxHistory)]
       ELSE UNCHANGED history
    /\ \E e \in Expected[a] \cup {"missing", "bad"}, h, o \in BOOLEAN, w \in States[a] :
        /\ h => a = "observe_file_state"
        /\ o => a = "observe_process_state"
        /\ world' = w
        /\ LET p == [NoProbe EXCEPT !.action = a, !.expected = OrDefault(e, Default[a]),
                                    !.hashed = h, !.odd = o,
                                    !.step = IF e = "bad" THEN "failed" ELSE "ask"]
           IN probe' = [p EXCEPT !.held = Holds(p, w),
                                 !.due = \E u \in Scope(p.expected) :
                                            \E i \in DOMAIN history'[u] :
                                                i <= MaxLines /\ history'[u][i]]

\* The machine changes under the handler.
Change ==
    /\ probe.step \in {"ask", "fallback", "hash"}
    /\ \E w \in States[probe.action] :
        /\ world' = w
        /\ probe' = [probe EXCEPT !.held = @ \/ Holds(probe, w)]
    /\ UNCHANGED history

Type ==
    /\ probe.action = "capture_powershell_history"
    /\ probe.step \in {"ask", "read"}
    /\ \E u \in Owner, l \in BOOLEAN :
        /\ Len(history[u]) < MaxHistory
        /\ history' = [history EXCEPT ![u] = Append(@, l)]
    /\ UNCHANGED <<probe, world>>

-----------------------------------------------------------------------------
(* Handlers *)

At(a, s) == probe.action = a /\ probe.step = s
Saw(s) == probe' = [probe EXCEPT !.step = "completed", !.seen = s,
                                 !.matches = (s = probe.expected)]
SawDespite(s) == probe' = [probe EXCEPT !.step = "completed", !.seen = s, !.faulty = TRUE,
                                        !.matches = (s = probe.expected)]
FailProbe == probe' = [probe EXCEPT !.step = "failed"]
Look == UNCHANGED <<world, history>>

Listed == IF probe.odd THEN "not_running" ELSE world

\* tasklist: its errors are not, and no line is no process.
CheckProcessWindows ==
    /\ At("observe_process_state", "ask")
    /\ Saw(Listed) \/ SawDespite("not_running")
    /\ Look

\* pgrep -x: exit status 1 is "no process"; after another error ps is asked.
CheckProcessUnix ==
    /\ At("observe_process_state", "ask")
    /\ \/ Saw(Listed)
       \/ probe' = [probe EXCEPT !.step = "fallback", !.faulty = TRUE]
    /\ Look

\* ps aux: any line that contains the name, unless it contains "grep" as well.
CheckProcessPsAux ==
    /\ At("observe_process_state", "fallback")
    /\ Saw(world) \/ Saw("running") \/ Saw("not_running") \/ FailProbe
    /\ Look

\* os.Stat: whatever its error is, the file is "deleted".
StatFile ==
    /\ At("observe_file_state", "ask")
    /\ \/ world = "deleted" /\ Saw("deleted")
       \/ SawDespite("deleted")
       \/ /\ world # "deleted"
          /\ IF probe.hashed /\ world # "directory"
             THEN probe' = [probe EXCEPT !.step = "hash"] ELSE Saw("exists")
    /\ Look

\* computeFileHash opens the file anew; its error leaves it at "exists".
HashFile ==
    /\ At("observe_file_state", "hash")
    /\ \/ world = "changed" /\ Saw("modified")
       \/ world = "same" /\ Saw("exists")
       \/ Saw("exists")
    /\ Look

\* Get-ADUser: an error, an answer that is no JSON and UserNotFound all fail.
QueryADUser ==
    /\ At("observe_user_state", "ask")
    /\ (world # "unknown" /\ Saw(world)) \/ FailProbe
    /\ Look

\* findHistoryFiles: those of all users, or the agent's own; one that os.Stat has
\* an error for is not missed.
FindHistoryFiles ==
    /\ At("capture_powershell_history", "ask")
    /\ \/ LET all == {u \in Scope(probe.expected) : history[u] # <<>>}
          IN \E some \in SUBSET all :
                probe' = [probe EXCEPT !.step = "read", !.files = some,
                                       !.faulty = @ \/ some # all]
       \/ FailProbe
    /\ Look

\* Mutant: the last lines are read when there are more than max_lines.
SearchLast(u) ==
    \E i \in DOMAIN history[u] : i + MaxLines > Len(history[u]) /\ history[u][i]

\* searchHistoryFile: the first max_lines lines.
SearchHistoryFile(u) == \E i \in DOMAIN history[u] : i <= MaxLines /\ history[u][i]

\* A file that cannot be read to its end is skipped with what was found in it.
ReadHistoryFile ==
    /\ At("capture_powershell_history", "read")
    /\ \E u \in probe.files :
        probe' = [probe EXCEPT !.files = @ \ {u}, !.matches = @ \/ SearchHistoryFile(u)]
        \/ probe' = [probe EXCEPT !.files = @ \ {u}, !.faulty = TRUE]
    /\ Look

\* The context is looked at before each file.
CaptureEnds ==
    /\ At("capture_powershell_history", "read")
    /\ \/ probe.files = {} /\ probe' = [probe EXCEPT !.step = "completed"]
       \/ probe.files # {} /\ FailProbe
    /\ Look

ProbeEnded == probe.step \in {"completed", "failed"}
EndProbe == probe' = NoProbe /\ world' = "none" /\ history' = [u \in Owner |-> <<>>]

ProbeStep ==
    \/ CheckProcessWindows \/ CheckProcessUnix \/ CheckProcessPsAux
    \/ StatFile \/ HashFile \/ QueryADUser
    \/ FindHistoryFiles \/ ReadHistoryFile \/ CaptureEnds
    \/ Change \/ Type

-----------------------------------------------------------------------------
(* ForwardJobResult *)

\* mapActionToEventType, for the actions isObservationAction names that an
\* agent has a handler of.
EventType(p) ==
    IF p.step = "failed" THEN "orchestrator.verification_failed"
    ELSE IF p.action = "capture_powershell_history"
    THEN IF p.matches THEN "response.action_applied" ELSE "response.no_action_detected"
    ELSE IF p.matches THEN "state.verified" ELSE "state.check_failed"

\* What the scoring engine is told is so: a state it hears is verified was there
\* while the handler looked, a response it hears is applied is in a history, and
\* one it hears is missing was not within reach of the capture: however the
\* machine changes between the steps, unless a tool failed.
EventIsTrue ==
    ProbeEnded =>
        /\ EventType(probe) = "state.verified" => probe.held \/ probe.faulty \/ probe.odd
        /\ EventType(probe) = "response.action_applied" =>
            \E u \in Owner : \E i \in DOMAIN history[u] : history[u][i]
        /\ EventType(probe) = "response.no_action_detected" =>
            probe.faulty \/ ~probe.due
=============================================================================
