-------------------------- MODULE PlannedRunProofs --------------------------
(***************************************************************************)
(* Proofs about PlannedRun, from a scenario to what an agent reports: for  *)
(* every set of agents, drafts, mails, users and threads.  Each handler of *)
(* the agent has an invariant of its own, which its steps preserve and     *)
(* nobody else's touch; the executor and the pipeline are put on top.      *)
(***************************************************************************)
EXTENDS PlannedRun, FiniteSetTheorems, TLAPS

(* Observation *)

\* What a probe does with its variables, or somebody else with his.
ProbeMove ==
    \/ \E a \in ObservationActions : BeginProbe(a)
    \/ ProbeStep
    \/ EndProbe
    \/ UNCHANGED probeVars

\* A match in the history of one of the users U, within reach of a capture.
InReach(U) == \E u \in U : \E i \in DOMAIN history[u] : i <= MaxLines /\ history[u][i]

\* A handler observes the thing its action is about, and is where its action goes.
OnCourse ==
    probe.step # "idle" =>
        /\ probe.action \in ObservationActions
        /\ probe.expected \in Expected[probe.action] \cup {"bad"}
        /\ probe.step # "failed" => probe.expected # "bad"
        /\ world \in States[probe.action]
        /\ probe.step = "fallback" => probe.action = "observe_process_state" /\ probe.faulty
        /\ probe.step = "hash" => probe.action = "observe_file_state" /\ probe.hashed
        /\ probe.step = "read" => probe.action = "capture_powershell_history"

\* While a handler looks at a state, it was there if it is; a file that is about
\* to be hashed has been seen to exist; a match says that the state was there.
StateHeld ==
    /\ probe.step \in {"ask", "fallback", "hash"} => (Holds(probe, world) => probe.held)
    /\ probe.step = "hash" /\ probe.expected = "exists" => probe.held
    /\ probe.step = "completed" /\ probe.action # "capture_powershell_history" =>
        (probe.matches => probe.held \/ probe.faulty \/ probe.odd)

\* A match of a capture is in a history, since nobody removes a line; one that was
\* due is still ahead, was found or was in a file that could not be read.
MatchDue ==
    probe.action = "capture_powershell_history" =>
        /\ probe.matches =>
            \E u \in Owner : \E i \in DOMAIN history[u] : history[u][i]
        /\ probe.step = "ask" /\ probe.due => InReach(Scope(probe.expected))
        /\ probe.step = "read" /\ probe.due =>
            probe.matches \/ probe.faulty \/ InReach(probe.files)
        /\ probe.step = "completed" /\ probe.due => probe.matches \/ probe.faulty

ProbeInv ==
    /\ ProbeTypeOK
    /\ OnCourse
    /\ StateHeld
    /\ MatchDue

-----------------------------------------------------------------------------
(* Simulation *)

ActMove ==
    \/ \E a \in SimulationActions : BeginAct(a)
    \/ ActStep
    \/ EndAct
    \/ UNCHANGED actVars

\* The counters stay within what the iterations left allow, and what is on the
\* machine has a number that was given out.
Counted ==
    /\ act.step # "idle" => act.action \in SimulationActions
    /\ act.step \in {"loop", "cleanup"} => /\ act.made + act.failed + act.todo <= MaxCount
                                           /\ act.next + act.todo <= MaxCount + 1
    /\ act.step \in {"idle", "failed"} => there = {}
    /\ there \cup act.mine \subseteq 1..(act.next - 1)

\* A file or a process is either remembered or counted as deleted, and it is there
\* exactly if it is remembered, unless somebody meddled.
Remembered ==
    act.action \in {"simulate_file_activity", "simulate_process_activity"} =>
        /\ act.step \in {"loop", "cleanup"} =>
            /\ act.made = act.undone + Cardinality(act.mine)
            /\ act.action = "simulate_process_activity" => act.undone = 0
            /\ act.meddled \/ there = act.mine
        /\ act.step = "completed" =>
            /\ act.action = "simulate_file_activity" =>
                act.meddled \/ act.made = act.undone + Cardinality(there)
            /\ act.action = "simulate_process_activity" =>
                act.meddled \/ act.made = act.undone
            /\ there = {} \/ act.preserve \/ act.meddled \/ act.apart

\* The mails that arrived are those called sent, and some of those that failed.
MailsCounted ==
    /\ act.action = "simulate_email_traffic" =>
        act.made <= Cardinality(there) /\ Cardinality(there) <= act.made + act.failed
    /\ act.action = "simulate_browsing" => there = {}

\* What makes Intn panic, or the making of a file of a negative size.
PanicIsSized == act.step = "panic" => act.hi < act.lo \/ act.lo < 0

ActInv ==
    /\ ActTypeOK
    /\ Counted
    /\ Remembered
    /\ MailsCounted
    /\ PanicIsSized

-----------------------------------------------------------------------------
(* Mail *)

MailMove == BeginMail \/ MailStep \/ EndMail \/ ProcessDies \/ UNCHANGED mailVars

\* The handler's record, with its domain.
MailRecord ==
    [op : Operation \cup {"none", "unknown"}, backend : {"none", "imap", "outlook"},
     filter : SUBSET Part, byId : BOOLEAN, max : 1..MaxResults,
     saves : BOOLEAN, runs : BOOLEAN, step : MailSteps,
     found : SUBSET Mail, msg : Mail \cup {0},
     infos : Seq(Name), todo : SUBSET Nat, saved : Seq(Name), started : SUBSET Name,
     unrestricted : BOOLEAN, edited : BOOLEAN]

MailTypes ==
    /\ mail \in MailRecord
    /\ mail.todo \subseteq DOMAIN mail.infos
    /\ mail.started \subseteq ToSet(mail.saved)
    /\ box \in SUBSET Mail
    /\ attached \in [Mail -> Seq(Name)]
    /\ \A m \in Mail : IsSubSeqOf(attached[m], Attached[m])
    /\ conn \in SUBSET {"client", "unknown", "app", "ns"}
    /\ files \in SUBSET File
    /\ com \in [Thread -> 0..MaxApartments]

\* An operation is under way only if the configuration allows it.
Allowed ==
    /\ mail.step \in {"connect", "create", "dispatch"} => mail.op # "none"
    /\ mail.step \in {"find", "read", "again", "save", "start"} =>
           /\ mail.op \in Operation
           /\ mail.op \in {"extract", "execute"} => mail.saves
           /\ mail.op = "execute" => mail.runs
           /\ mail.step \in {"again", "save"} => mail.op \in {"extract", "execute"}
           /\ mail.step = "start" => mail.op = "execute"

\* What is found satisfies the filter, and is no more than was asked for.
Found ==
    /\ \A m \in mail.found :
        mail.filter \cap (IF mail.unrestricted THEN {"attachment"} ELSE Part)
            \subseteq Sat[mail.backend][m]
    /\ Cardinality(mail.found) <= Limit

\* As long as nobody takes an attachment out, the index still names what was
\* listed under it; hence what is saved was allowed.
StillListed ==
    /\ mail.step = "save" /\ ~mail.edited =>
        \A i \in DOMAIN mail.infos :
            i \in DOMAIN attached[mail.msg] => attached[mail.msg][i] = mail.infos[i]
    /\ \A f \in files : f.name \in AllowedAttachment \/ mail.edited
    /\ \A f \in files : f.outside => f.name \in Climbing
    /\ files # {} => mail.saves
    /\ mail.started \subseteq AllowedExecutable
    /\ mail.started # {} => mail.runs

Clean ==
    /\ mail.step = "idle" => conn = {} /\ files = {}
    /\ MailHoldsNothing

MailInv ==
    /\ MailTypes
    /\ Allowed
    /\ Found
    /\ StillListed
    /\ Clean

-----------------------------------------------------------------------------
(* Executor *)

JobRecord ==
    [action : Registered \cup {"none", "unknown"}, runAs : User \cup {"self"},
     step : {"idle", "handler", "completed", "failed", "dead"}, strayed : SUBSET {"as", "com"}]

ExecTypes ==
    /\ job \in JobRecord
    /\ on \in Thread
    /\ as \in SUBSET Thread
    /\ tokens \in SUBSET User

\* Only a handler run for a user has a token, his, and only its own thread
\* impersonates, unless it changed it.
Impersonating ==
    /\ tokens \subseteq {job.runAs}
    /\ job.step # "handler" \/ job.runAs = "self" =>
        tokens = {} /\ (as = {} \/ "as" \in job.strayed)
    /\ as \subseteq {on} \/ "as" \in job.strayed
    /\ job.step = "dead" => as = {} /\ (act.step = "panic" \/ mail.step = "panic")

ExecInv == ExecTypes /\ Impersonating

\* Only the handler of the job's action is under way, and none without a job.
OneHandler ==
    /\ job.step = "idle" => probe.step = "idle" /\ act.step = "idle" /\ mail.step = "idle"
    /\ probe.step # "idle" => job.action \in ObservationActions
    /\ act.step # "idle" => job.action \in SimulationActions
    /\ mail.step # "idle" => job.action = "email_receive"
    /\ job.step \in {"completed", "failed"} => mail.step \in {"idle", "completed", "failed"}

\* COM is initialised on the thread of a handler that is at work in Outlook, and
\* once, unless its goroutine changed its thread there; a dead process has none.
Apartments ==
    /\ job.step = "dead" => com = NoApartment
    /\ \/ "com" \in job.strayed
       \/ \A t \in Thread : com[t] # 0 => t = on /\ com[t] = 1 /\ InOutlook

AgentInv == ExecInv /\ OneHandler /\ Apartments /\ ProbeInv /\ ActInv /\ MailInv

-----------------------------------------------------------------------------
(* Pipeline *)

PipeRecord ==
    [step : {"idle", "refused", "valid", "failed", "compiled", "running"},
     steps : BoundedSeq(Drafts, MaxSteps), jobs : SUBSET [step : Nat, agent : Agent],
     errors : SUBSET Nat, online : SUBSET Agent]

PipeTypes ==
    /\ pipe \in PipeRecord
    /\ pipe.errors \subseteq DOMAIN pipe.steps
    /\ \A j \in pipe.jobs : j.step \in DOMAIN pipe.steps

\* What is compiled and delivered has been validated.
Validated ==
    pipe.step \in {"valid", "compiled"} =>
        \A i \in DOMAIN pipe.steps : ValidateStep(pipe.steps[i])

PipeInv ==
    /\ PipeTypes
    /\ Validated
    /\ CompiledAsAsked

\* The job of a compiled scenario has an action the validator allows and sizes that
\* are not below 1, until it is reported.
Carried ==
    pipe.step = "running" =>
        /\ job.step # "idle"
        /\ job.action \in AllowedActions
        /\ act.lo >= 1

RunInv ==
    /\ AgentInv
    /\ PipeInv
    /\ Carried
-----------------------------------------------------------------------------
(* Observation: the invariant *)

\* A bounded sequence is a sequence, and no longer than its bound.
LEMMA BoundedSeqType ==
    ASSUME NEW S, NEW n \in Nat, NEW s \in BoundedSeq(S, n)
    PROVE  s \in Seq(S) /\ Len(s) <= n /\ DOMAIN s = 1..Len(s)
<1>1. PICK m \in 0..n : s \in [1..m -> S]
    BY DEF BoundedSeq, SeqOf
<1>2. s \in Seq(S) /\ Len(s) = m
    BY <1>1
<1> QED
    BY <1>1, <1>2

\* Whether a state is the one that is asked for is a matter of yes or no.
LEMMA HoldsType == \A p, w : Holds(p, w) \in BOOLEAN
<1> SUFFICES ASSUME NEW p, NEW w PROVE Holds(p, w) \in BOOLEAN
    OBVIOUS
<1>1. CASE p.expected = "exists"
    BY <1>1 DEF Holds
<1>2. CASE p.expected = "modified"
    BY <1>2 DEF Holds
<1>3. CASE p.expected # "exists" /\ p.expected # "modified"
    BY <1>3 DEF Holds
<1> QED
    BY <1>1, <1>2, <1>3

\* What a probe may be asked to expect, and the fields of its record.
ExpectedStates == (UNION {Expected[a] : a \in ObservationActions}) \cup {"none", "bad"}

LEMMA ProbeFields ==
    Probe = [action : ObservationActions \cup {"none"}, expected : ExpectedStates,
             hashed : BOOLEAN, odd : BOOLEAN,
             step : {"idle", "ask", "fallback", "hash", "read", "completed", "failed"},
             seen : {"running", "not_running", "exists", "deleted", "modified",
                     "enabled", "disabled", "none"},
             files : SUBSET Owner, matches : BOOLEAN,
             faulty : BOOLEAN, held : BOOLEAN, due : BOOLEAN]
BY DEF Probe, ExpectedStates

\* The record of no probe.
LEMMA NoProbeType == NoProbe \in Probe
    BY DEF NoProbe, Probe

\* The parameters a probe begins with.
LEMMA ProbeBegins ==
    ASSUME ProbeInv, NEW a \in ObservationActions, BeginProbe(a)
    PROVE  ProbeInv'
<1> USE ObservationAssumption
<1>0. ProbeTypeOK
    BY DEF ProbeInv
<1>1. PICK e \in Expected[a] \cup {"missing", "bad"}, h \in BOOLEAN, o \in BOOLEAN, w \in States[a] :
        /\ h => a = "observe_file_state"
        /\ o => a = "observe_process_state"
        /\ world' = w
        /\ LET p == [NoProbe EXCEPT !.action = a, !.expected = OrDefault(e, Default[a]),
                                    !.hashed = h, !.odd = o,
                                    !.step = IF e = "bad" THEN "failed" ELSE "ask"]
           IN probe' = [p EXCEPT !.held = Holds(p, w),
                                 !.due = \E u \in Scope(p.expected) :
                                            \E i \in DOMAIN history'[u] :
                                                i <= MaxLines /\ history'[u][i]]
    BY Zenon DEF BeginProbe
<1> DEFINE x == OrDefault(e, Default[a])
           p == [NoProbe EXCEPT !.action = a, !.expected = x, !.hashed = h, !.odd = o,
                                !.step = IF e = "bad" THEN "failed" ELSE "ask"]
<1>2. /\ DOMAIN history' = Owner
      /\ \A u \in Owner : history'[u] \in Seq(BOOLEAN) /\ Len(history'[u]) <= MaxHistory
  <2>1. CASE a = "capture_powershell_history"
    <3>1. history' \in [Owner -> BoundedSeq(BOOLEAN, MaxHistory)]
      BY <2>1 DEF BeginProbe
    <3> QED
      BY <3>1, BoundedSeqType
  <2>2. CASE a # "capture_powershell_history"
    BY <1>0, <2>2 DEF BeginProbe, ProbeTypeOK
  <2> QED
    BY <2>1, <2>2
<1>3. /\ x \in Expected[a] \cup {"bad"} /\ (e # "bad" => x \in Expected[a])
      /\ a \in {"observe_process_state", "observe_file_state", "observe_user_state",
                "capture_powershell_history"}
      /\ "bad" \notin Expected[a]
    BY DEF OrDefault, Default, Expected, ObservationActions, States
<1>4. /\ probe'.action = a /\ probe'.expected = x /\ probe'.hashed = h /\ probe'.odd = o
      /\ probe'.step = IF e = "bad" THEN "failed" ELSE "ask"
      /\ probe'.seen = "none" /\ probe'.files = {} /\ probe'.matches = FALSE
      /\ probe'.faulty = FALSE /\ probe'.held = Holds(p, w)
      /\ probe'.due = \E u \in Scope(x) : \E i \in DOMAIN history'[u] :
                        i <= MaxLines /\ history'[u][i]
    BY <1>1 DEF NoProbe
<1>5. x \in ExpectedStates
    BY <1>3 DEF ExpectedStates
<1>6. Holds(p, w) = Holds(probe, world)' /\ Holds(p, w) \in BOOLEAN
  <2>1. p.expected = x /\ p.hashed = h
    BY DEF NoProbe
  <2> HIDE DEF p, x
  <2>2. Holds(p, w) = Holds(probe, world)'
    BY <1>1, <1>4, <2>1 DEF Holds
  <2> QED
    BY <2>2, HoldsType
<1>7. ProbeTypeOK'
  <2>1. probe' \in Probe
    <3>1. NoProbe \in Probe
      BY NoProbeType
    <3> DEFINE d == \E u \in Scope(x) : \E i \in DOMAIN history'[u] :
                        i <= MaxLines /\ history'[u][i]
    <3>2. p \in Probe
      <4> DEFINE st == IF e = "bad" THEN "failed" ELSE "ask"
      <4>1. st \in {"ask", "failed"}
        OBVIOUS
      <4>2. p = [NoProbe EXCEPT !.action = a, !.expected = x, !.hashed = h, !.odd = o,
                                !.step = st]
        OBVIOUS
      <4> HIDE DEF p, x, st
      <4> QED
        BY ZenonT(30), <3>1, <1>5, <4>1, <4>2, ProbeFields
    <3>3. p.expected = x
      BY DEF NoProbe
    <3>4. d \in BOOLEAN
      OBVIOUS
    <3>5. probe' = [p EXCEPT !.held = Holds(p, w), !.due = d]
      BY <1>1, <3>3
    <3> HIDE DEF d, p, x
    <3> QED
      BY <3>2, <3>4, <3>5, <1>6 DEF Probe
  <2>2. world' \in UNION {States[b] : b \in ObservationActions}
    BY <1>1
  <2> QED
    BY <1>2, <2>1, <2>2 DEF ProbeTypeOK
<1>8. OnCourse'
    BY <1>1, <1>3, <1>4 DEF OnCourse
<1>9. StateHeld'
    BY <1>3, <1>4, <1>6 DEF StateHeld
<1>10. MatchDue'
    BY <1>4 DEF MatchDue, InReach
<1> QED
    BY <1>7, <1>8, <1>9, <1>10 DEF ProbeInv

\* What a step makes of a probe that is on its way.
LEMMA ProbeSteps ==
    ASSUME ProbeInv, ProbeStep
    PROVE  ProbeInv'
<1> USE ObservationAssumption
<1>0. /\ ProbeTypeOK /\ OnCourse /\ StateHeld /\ MatchDue
      /\ probe \in Probe
      /\ DOMAIN history = Owner
    BY DEF ProbeInv, ProbeTypeOK
<1>1. ASSUME At("observe_process_state", "ask") \/ At("observe_process_state", "fallback")
             \/ At("observe_file_state", "ask") \/ At("observe_file_state", "hash")
             \/ At("observe_user_state", "ask"),
             Look,
             NEW s \in {"running", "not_running", "exists", "deleted", "modified",
                        "enabled", "disabled"},
             \/ Saw(s) /\ (s = probe.expected => probe.held \/ probe.faulty \/ probe.odd)
             \/ SawDespite(s)
      PROVE  ProbeInv'
  <2>1. /\ probe' \in Probe
        /\ probe'.step = "completed" /\ probe'.action = probe.action
        /\ probe'.expected = probe.expected /\ probe'.held = probe.held
        /\ probe'.odd = probe.odd /\ (probe.faulty => probe'.faulty)
        /\ probe'.matches => probe'.held \/ probe'.faulty \/ probe'.odd
        /\ probe.action # "capture_powershell_history"
        /\ probe.step \in {"ask", "fallback", "hash"}
        /\ world' = world /\ history' = history
    <3> DEFINE m == s = probe.expected
    <3>1. /\ m \in BOOLEAN
          /\ probe.action # "capture_powershell_history"
          /\ probe.step \in {"ask", "fallback", "hash"}
          /\ world' = world /\ history' = history
      BY <1>1 DEF At, Look
    <3>2. CASE Saw(s) /\ (s = probe.expected => probe.held \/ probe.faulty \/ probe.odd)
      <4>1. /\ probe' = [probe EXCEPT !.step = "completed", !.seen = s, !.matches = m]
            /\ m => probe.held \/ probe.faulty \/ probe.odd
        BY <3>2 DEF Saw
      <4> HIDE DEF m
      <4> QED
        BY ZenonT(30), <1>0, <1>1, <3>1, <4>1, ProbeFields
    <3>3. CASE SawDespite(s)
      <4>1. probe' = [probe EXCEPT !.step = "completed", !.seen = s, !.faulty = TRUE,
                                   !.matches = m]
        BY <3>3 DEF SawDespite
      <4> HIDE DEF m
      <4> QED
        BY ZenonT(30), <1>0, <1>1, <3>1, <4>1, ProbeFields
    <3> QED
      BY <1>1, <3>2, <3>3
  <2>2. ProbeTypeOK'
    BY <1>0, <2>1 DEF ProbeTypeOK
  <2>3. OnCourse'
    BY <1>0, <2>1 DEF OnCourse
  <2>4. StateHeld' /\ MatchDue'
    BY <2>1 DEF StateHeld, MatchDue
  <2> QED
    BY <2>2, <2>3, <2>4 DEF ProbeInv
<1>2. ASSUME FailProbe, Look, probe.step # "idle", probe.expected # "bad"
      PROVE  ProbeInv'
  <2>1. /\ probe' \in Probe
        /\ probe'.step = "failed" /\ probe'.action = probe.action
        /\ probe'.expected = probe.expected /\ probe'.matches = probe.matches
        /\ world' = world /\ history' = history
    BY <1>0, <1>2, ProbeFields DEF FailProbe, Look
  <2>2. ProbeTypeOK'
    BY <1>0, <2>1 DEF ProbeTypeOK
  <2>3. OnCourse'
    BY <1>0, <1>2, <2>1 DEF OnCourse
  <2>4. StateHeld' /\ MatchDue'
    BY <1>0, <2>1 DEF StateHeld, MatchDue
  <2> QED
    BY <2>2, <2>3, <2>4 DEF ProbeInv
<1>3. CASE CheckProcessWindows
  <2>1. Listed \in {"running", "not_running"}
        /\ (Listed = probe.expected => probe.held \/ probe.faulty \/ probe.odd)
    BY <1>0, <1>3 DEF Listed, CheckProcessWindows, At, OnCourse, StateHeld, Holds, States
  <2> QED
    BY <1>1, <1>3, <2>1 DEF CheckProcessWindows
<1>4. CASE CheckProcessUnix
  <2>1. Listed \in {"running", "not_running"}
        /\ (Listed = probe.expected => probe.held \/ probe.faulty \/ probe.odd)
    BY <1>0, <1>4 DEF Listed, CheckProcessUnix, At, OnCourse, StateHeld, Holds, States
  <2>2. CASE Saw(Listed)
    BY <1>1, <1>4, <2>1, <2>2 DEF CheckProcessUnix
  <2>3. CASE probe' = [probe EXCEPT !.step = "fallback", !.faulty = TRUE]
    <3>1. /\ probe' \in Probe
          /\ probe'.step = "fallback" /\ probe'.faulty /\ probe'.action = "observe_process_state"
          /\ probe'.expected = probe.expected /\ probe'.held = probe.held
          /\ probe'.hashed = probe.hashed
          /\ probe.step = "ask" /\ probe.action = "observe_process_state"
          /\ world' = world /\ history' = history
      BY <1>0, <1>4, <2>3, ProbeFields DEF CheckProcessUnix, Look, At
    <3>2. ProbeTypeOK'
      BY <1>0, <3>1 DEF ProbeTypeOK
    <3>3. OnCourse'
      BY <1>0, <3>1 DEF OnCourse
    <3>4. StateHeld' /\ MatchDue'
      BY <1>0, <3>1 DEF StateHeld, MatchDue, Holds
    <3> QED
      BY <3>2, <3>3, <3>4 DEF ProbeInv
  <2> QED
    BY <1>4, <2>2, <2>3 DEF CheckProcessUnix
<1>5. CASE CheckProcessPsAux
  <2>1. /\ world \in {"running", "not_running"} /\ probe.faulty
        /\ probe.expected # "bad" /\ probe.step # "idle" /\ Look
    BY <1>0, <1>5 DEF CheckProcessPsAux, At, OnCourse, States
  <2> QED
    BY <1>1, <1>2, <1>5, <2>1 DEF CheckProcessPsAux
<1>6. CASE StatFile
  <2>1. /\ world \in {"deleted", "directory", "same", "changed"} /\ Look
        /\ world = "deleted" /\ probe.expected = "deleted" => probe.held
        /\ world # "deleted" /\ probe.expected = "exists" => probe.held
    BY <1>0, <1>6 DEF StatFile, At, OnCourse, StateHeld, Holds, States
  <2>2. CASE probe' = [probe EXCEPT !.step = "hash"] /\ probe.hashed /\ world # "deleted"
    <3>1. /\ probe' \in Probe
          /\ probe'.step = "hash" /\ probe'.action = "observe_file_state"
          /\ probe'.expected = probe.expected /\ probe'.held = probe.held
          /\ probe'.hashed = probe.hashed /\ probe.hashed
          /\ probe.step = "ask" /\ probe.action = "observe_file_state"
          /\ world' = world /\ history' = history
      BY <1>0, <1>6, <2>2, ProbeFields DEF StatFile, Look, At
    <3>2. ProbeTypeOK'
      BY <1>0, <3>1 DEF ProbeTypeOK
    <3>3. OnCourse'
      BY <1>0, <3>1 DEF OnCourse
    <3>4. StateHeld' /\ MatchDue'
      BY <1>0, <2>1, <2>2, <3>1 DEF StateHeld, MatchDue, Holds
    <3> QED
      BY <3>2, <3>3, <3>4 DEF ProbeInv
  <2>3. CASE world = "deleted" /\ Saw("deleted")
    BY <1>1, <1>6, <2>1, <2>3 DEF StatFile
  <2>4. CASE SawDespite("deleted")
    BY <1>1, <1>6, <2>1, <2>4 DEF StatFile
  <2>5. CASE world # "deleted" /\ Saw("exists")
    BY <1>1, <1>6, <2>1, <2>5 DEF StatFile
  <2> QED
    BY <1>6, <2>2, <2>3, <2>4, <2>5 DEF StatFile
<1>7. CASE HashFile
  <2>1. /\ Look
        /\ world = "changed" /\ probe.expected = "modified" => probe.held
        /\ probe.expected = "exists" => probe.held
    BY <1>0, <1>7 DEF HashFile, At, OnCourse, StateHeld, Holds
  <2> QED
    BY <1>1, <1>7, <2>1 DEF HashFile
<1>8. CASE QueryADUser
  <2>1. /\ world \in {"enabled", "disabled", "unknown"} /\ Look
        /\ world = probe.expected => probe.held
        /\ probe.expected # "bad" /\ probe.step # "idle"
    BY <1>0, <1>8 DEF QueryADUser, At, OnCourse, StateHeld, Holds, States
  <2> QED
    BY <1>1, <1>2, <1>8, <2>1 DEF QueryADUser
<1>9. CASE FindHistoryFiles
  <2> DEFINE F == {u \in Scope(probe.expected) : history[u] # <<>>}
  <2>1. F \subseteq Owner
    BY DEF Scope
  <2>2. ASSUME NEW some \in SUBSET F,
               probe' = [probe EXCEPT !.step = "read", !.files = some,
                                      !.faulty = @ \/ some # F]
        PROVE  ProbeInv'
    <3>0. /\ probe.step = "ask" /\ probe.action = "capture_powershell_history"
          /\ world' = world /\ history' = history
          /\ some \subseteq Owner /\ (probe.faulty \/ some # F) \in BOOLEAN
      BY <2>1, <1>9 DEF FindHistoryFiles, Look, At
    <3>1. /\ probe' \in Probe
          /\ probe'.step = "read" /\ probe'.action = "capture_powershell_history"
          /\ probe'.expected = probe.expected /\ probe'.files = some
          /\ probe'.due = probe.due /\ probe'.matches = probe.matches
          /\ some # F => probe'.faulty
      <4> DEFINE missed == probe.faulty \/ some # F
      <4>1. missed \in BOOLEAN /\ (some # F => missed)
        BY <3>0
      <4>2. probe' = [probe EXCEPT !.step = "read", !.files = some, !.faulty = missed]
        BY <2>2
      <4> HIDE DEF F, missed
      <4>3. /\ probe' \in Probe
            /\ probe'.step = "read" /\ probe'.action = probe.action
            /\ probe'.expected = probe.expected /\ probe'.files = some
            /\ probe'.due = probe.due /\ probe'.matches = probe.matches
            /\ probe'.faulty = missed
        BY <1>0, <3>0, <4>1, <4>2, ProbeFields
      <4> QED
        BY <3>0, <4>1, <4>3
    <3>2. ProbeTypeOK'
      BY <1>0, <3>0, <3>1 DEF ProbeTypeOK
    <3>3. OnCourse'
      BY <1>0, <3>0, <3>1 DEF OnCourse
    <3>4. StateHeld'
      BY <3>1 DEF StateHeld
    <3>5. some = F => (InReach(Scope(probe.expected)) => InReach(some)')
      BY <3>0 DEF InReach
    <3>6. MatchDue'
      BY <1>0, <3>0, <3>1, <3>5 DEF MatchDue, InReach
    <3> QED
      BY <3>2, <3>3, <3>4, <3>6 DEF ProbeInv
  <2>3. CASE FailProbe
    BY <1>0, <1>2, <1>9, <2>3 DEF FindHistoryFiles, At, OnCourse
  <2> QED
    BY <1>9, <2>2, <2>3 DEF FindHistoryFiles
<1>10. CASE ReadHistoryFile
  <2>1. PICK u \in probe.files :
            \/ probe' = [probe EXCEPT !.files = @ \ {u}, !.matches = @ \/ SearchHistoryFile(u)]
            \/ probe' = [probe EXCEPT !.files = @ \ {u}, !.faulty = TRUE]
    BY <1>10, Zenon DEF ReadHistoryFile
  <2>2. /\ SearchHistoryFile(u) \in BOOLEAN /\ u \in Owner
        /\ probe.files \ {u} \subseteq Owner
    BY <1>0, <2>1 DEF SearchHistoryFile, Probe
  <2>3. /\ probe' \in Probe
        /\ probe'.step = "read" /\ probe'.action = "capture_powershell_history"
        /\ probe'.expected = probe.expected /\ probe'.files = probe.files \ {u}
        /\ probe'.due = probe.due
        /\ probe'.matches => probe.matches \/ SearchHistoryFile(u)
        /\ probe.matches => probe'.matches
        /\ probe.faulty => probe'.faulty
        /\ SearchHistoryFile(u) => probe'.matches \/ probe'.faulty
        /\ probe.step = "read" /\ probe.action = "capture_powershell_history"
        /\ world' = world /\ history' = history
    <3>1. At("capture_powershell_history", "read") /\ Look
      BY <1>10 DEF ReadHistoryFile
    <3>2. /\ probe.step = "read" /\ probe.action = "capture_powershell_history"
          /\ world' = world /\ history' = history
      BY <3>1 DEF Look, At
    <3> HIDE DEF SearchHistoryFile
    <3>3. CASE probe' = [probe EXCEPT !.files = @ \ {u}, !.matches = @ \/ SearchHistoryFile(u)]
      BY <1>0, <2>2, <3>2, <3>3, ProbeFields
    <3>4. CASE probe' = [probe EXCEPT !.files = @ \ {u}, !.faulty = TRUE]
      BY <1>0, <2>2, <3>2, <3>4, ProbeFields
    <3> QED
      BY <2>1, <3>3, <3>4
  <2>4. ProbeTypeOK'
    BY <1>0, <2>3 DEF ProbeTypeOK
  <2>5. OnCourse'
    BY <1>0, <2>3 DEF OnCourse
  <2>6. StateHeld'
    BY <2>3 DEF StateHeld
  <2>7. InReach(probe.files) => SearchHistoryFile(u) \/ InReach(probe.files)'
    BY <2>3 DEF InReach, SearchHistoryFile
  <2>8. SearchHistoryFile(u) => \E v \in Owner : \E i \in DOMAIN history[v] : history[v][i]
    BY <2>2 DEF SearchHistoryFile
  <2>9. MatchDue'
    BY <1>0, <2>3, <2>7, <2>8 DEF MatchDue
  <2> QED
    BY <2>4, <2>5, <2>6, <2>9 DEF ProbeInv
<1>11. CASE CaptureEnds
  <2>1. CASE probe.files = {} /\ probe' = [probe EXCEPT !.step = "completed"]
    <3>1. /\ probe' \in Probe
          /\ probe'.step = "completed" /\ probe'.action = "capture_powershell_history"
          /\ probe'.expected = probe.expected /\ probe.files = {}
          /\ probe'.due = probe.due /\ probe'.matches = probe.matches
          /\ probe'.faulty = probe.faulty
          /\ probe.step = "read" /\ probe.action = "capture_powershell_history"
          /\ world' = world /\ history' = history
      BY <1>0, <1>11, <2>1, ProbeFields DEF CaptureEnds, Look, At
    <3>2. ProbeTypeOK'
      BY <1>0, <3>1 DEF ProbeTypeOK
    <3>3. OnCourse'
      BY <1>0, <3>1 DEF OnCourse
    <3>4. StateHeld'
      BY <3>1 DEF StateHeld
    <3>5. MatchDue'
      BY <1>0, <3>1 DEF MatchDue, InReach
    <3> QED
      BY <3>2, <3>3, <3>4, <3>5 DEF ProbeInv
  <2>2. CASE FailProbe
    BY <1>0, <1>2, <1>11, <2>2 DEF CaptureEnds, At, OnCourse
  <2> QED
    BY <1>11, <2>1, <2>2 DEF CaptureEnds
<1>12. CASE Change
  <2>1. PICK w \in States[probe.action] :
            world' = w /\ probe' = [probe EXCEPT !.held = @ \/ Holds(probe, w)]
    BY <1>12 DEF Change
  <2>2. Holds(probe, w) \in BOOLEAN
    BY HoldsType
  <2>3. /\ probe' \in Probe
        /\ probe'.step = probe.step /\ probe'.action = probe.action
        /\ probe'.expected = probe.expected /\ probe'.hashed = probe.hashed
        /\ probe'.matches = probe.matches /\ probe'.due = probe.due
        /\ probe'.faulty = probe.faulty
        /\ probe'.held = (probe.held \/ Holds(probe, w))
        /\ probe.step \in {"ask", "fallback", "hash"}
        /\ history' = history
    <3>1. probe.step \in {"ask", "fallback", "hash"} /\ history' = history
      BY <1>12 DEF Change
    <3> QED
      BY <1>0, <2>1, <2>2, <3>1 DEF Probe
  <2>4. Holds(probe, world)' = Holds(probe, w)
    BY <2>1, <2>3 DEF Holds
  <2>5. probe.action \in ObservationActions
    BY <1>0, <2>3 DEF OnCourse
  <2>6. ProbeTypeOK'
    BY <1>0, <2>1, <2>3, <2>5 DEF ProbeTypeOK
  <2>7. OnCourse'
    BY <1>0, <2>1, <2>3 DEF OnCourse
  <2>8. StateHeld'
    BY <1>0, <2>3, <2>4 DEF StateHeld
  <2>9. MatchDue'
    BY <1>0, <2>3 DEF MatchDue, InReach
  <2> QED
    BY <2>6, <2>7, <2>8, <2>9 DEF ProbeInv
<1>13. CASE Type
  <2>1. PICK u \in Owner, l \in BOOLEAN :
            Len(history[u]) < MaxHistory /\ history' = [history EXCEPT ![u] = Append(@, l)]
    BY <1>13 DEF Type
  <2>2. /\ probe.action = "capture_powershell_history" /\ probe.step \in {"ask", "read"}
        /\ probe' = probe /\ world' = world
    BY <1>13 DEF Type
  <2>3. history[u] \in Seq(BOOLEAN) /\ Len(history[u]) <= MaxHistory
    BY <1>0 DEF ProbeTypeOK
  <2>4. /\ DOMAIN history' = Owner
        /\ history'[u] = Append(history[u], l)
        /\ \A v \in Owner \ {u} : history'[v] = history[v]
    BY <1>0, <2>1
  <2>5. \A v \in Owner : \A i \in DOMAIN history[v] :
            i \in DOMAIN history'[v] /\ history'[v][i] = history[v][i]
    BY SMTT(30), <2>3, <2>4
  <2>6. ProbeTypeOK'
    <3>1. history'[u] \in Seq(BOOLEAN) /\ Len(history'[u]) <= MaxHistory
      BY <2>1, <2>3, <2>4
    <3> QED
      BY <1>0, <2>2, <2>4, <3>1 DEF ProbeTypeOK
  <2>7. OnCourse'
    BY <1>0, <2>2 DEF OnCourse
  <2>8. StateHeld'
    BY <1>0, <2>2 DEF StateHeld, Holds
  <2>9. MatchDue'
    <3>1. Scope(probe.expected) \subseteq Owner /\ probe.files \subseteq Owner
      BY <1>0 DEF Scope, Probe
    <3>2. ASSUME NEW U \in SUBSET Owner, InReach(U)
          PROVE  \E v \in U : \E i \in DOMAIN history'[v] : i <= MaxLines /\ history'[v][i]
      BY <2>5, <3>2 DEF InReach
    <3>3. probe.matches => \E v \in Owner : \E i \in DOMAIN history'[v] : history'[v][i]
      BY <1>0, <2>2, <2>5 DEF MatchDue
    <3>4. InReach(Scope(probe.expected)) => InReach(Scope(probe.expected))'
      BY <2>2, <3>1, <3>2 DEF InReach
    <3>5. InReach(probe.files) => InReach(probe.files)'
      BY <2>2, <3>1, <3>2 DEF InReach
    <3> QED
      BY <1>0, <2>2, <3>3, <3>4, <3>5 DEF MatchDue
  <2> QED
    BY <2>6, <2>7, <2>8, <2>9 DEF ProbeInv
<1> QED
    BY <1>3, <1>4, <1>5, <1>6, <1>7, <1>8, <1>9, <1>10, <1>11, <1>12, <1>13 DEF ProbeStep

\* Without a handler all is as the invariant says.
LEMMA ProbeIdle ==
    /\ ProbeInit => ProbeInv
    /\ EndProbe => ProbeInv'
<1> USE ObservationAssumption
<1>1. /\ NoProbe \in Probe
      /\ NoProbe.step = "idle" /\ NoProbe.action = "none" /\ NoProbe.matches = FALSE
    BY NoProbeType DEF NoProbe
<1>2. "none" \in UNION {States[a] : a \in ObservationActions}
    BY DEF States, ObservationActions
<1>3. /\ DOMAIN [u \in Owner |-> <<>>] = Owner
      /\ \A u \in Owner : /\ [v \in Owner |-> <<>>][u] \in Seq(BOOLEAN)
                          /\ Len([v \in Owner |-> <<>>][u]) <= MaxHistory
    OBVIOUS
<1>4. ASSUME ProbeInit PROVE ProbeInv
    BY <1>1, <1>2, <1>3, <1>4
    DEF ProbeInit, ProbeInv, ProbeTypeOK, OnCourse, StateHeld, MatchDue
<1>5. ASSUME EndProbe PROVE ProbeInv'
    BY <1>1, <1>2, <1>3, <1>5
    DEF EndProbe, ProbeInv, ProbeTypeOK, OnCourse, StateHeld, MatchDue
<1> QED
    BY <1>4, <1>5

\* Whatever happens to a probe preserves its invariant.
LEMMA ProbeMoves ==
    ASSUME ProbeInv, ProbeMove
    PROVE  ProbeInv'
<1>1. CASE UNCHANGED probeVars
  <2>1. /\ ProbeTypeOK' = ProbeTypeOK /\ OnCourse' = OnCourse
        /\ StateHeld' = StateHeld /\ MatchDue' = MatchDue
    BY <1>1 DEF probeVars, ProbeTypeOK, OnCourse, StateHeld, MatchDue, InReach, Holds
  <2> QED
    BY <2>1 DEF ProbeInv
<1> QED
    BY <1>1, ProbeBegins, ProbeSteps, ProbeIdle DEF ProbeMove

\* What the invariant says of a probe that has ended.
LEMMA ProbeEvents == ProbeInv => EventIsTrue
<1> SUFFICES ASSUME ProbeInv, ProbeEnded PROVE EventIsTrue
    BY DEF EventIsTrue
<1>1. probe.step \in {"completed", "failed"} /\ OnCourse /\ StateHeld /\ MatchDue
    BY DEF ProbeEnded, ProbeInv
<1>2. CASE probe.step = "failed"
    BY <1>2 DEF EventIsTrue, EventType
<1>3. CASE probe.step = "completed" /\ probe.action = "capture_powershell_history"
    BY <1>1, <1>3 DEF EventIsTrue, EventType, MatchDue
<1>4. CASE probe.step = "completed" /\ probe.action # "capture_powershell_history"
    BY <1>1, <1>4 DEF EventIsTrue, EventType, StateHeld
<1> QED
    BY <1>1, <1>2, <1>3, <1>4

-----------------------------------------------------------------------------
(* Simulation: the invariant *)

\* How many things there are: all sets of them are finite.
LEMMA Things ==
    ASSUME NEW S \in SUBSET Thing
    PROVE  /\ IsFiniteSet(S) /\ Cardinality(S) \in Nat
           /\ \A T \in SUBSET S : Cardinality(T) <= Cardinality(S)
           /\ \A x \in Thing \ S : Cardinality(S \cup {x}) = Cardinality(S) + 1
           /\ \A x \in S : Cardinality(S \ {x}) = Cardinality(S) - 1
           /\ Cardinality({}) = 0
<1> USE ActivityAssumption
<1>1. IsFiniteSet(Thing)
    BY FS_Interval DEF Thing
<1>2. IsFiniteSet(S) /\ Cardinality(S) \in Nat
    BY <1>1, FS_Subset, FS_CardinalityType
<1> QED
    BY <1>2, FS_Subset, FS_AddElement, FS_RemoveElement, FS_EmptySet

\* The record of no handler.
LEMMA NoActType ==
    /\ NoAct \in Act
    /\ NoAct.step = "idle" /\ NoAct.action = "none" /\ NoAct.mine = {} /\ NoAct.next = 1
<1> USE ActivityAssumption
<1>1. NoAct \in Act
    BY DEF NoAct, Act, Thing
<1> QED
    BY <1>1 DEF NoAct

\* The parameters a simulation begins with.
LEMMA ActBegins ==
    ASSUME ActInv, NEW a \in SimulationActions, BeginAct(a)
    PROVE  ActInv'
<1> USE ActivityAssumption
<1>0. ActTypeOK /\ act.step = "idle" /\ there = {} /\ there' = {}
    BY DEF ActInv, BeginAct, Counted
<1>1. PICK n \in 1..MaxCount, keep, apart, ok \in BOOLEAN, lo, hi \in Size \cup {0} :
        /\ keep \/ lo # 0 \/ hi # 0 => a = "simulate_file_activity"
        /\ apart => a = "simulate_process_activity"
        /\ act' = IF ok
                  THEN [NoAct EXCEPT !.action = a, !.preserve = keep, !.apart = apart,
                                     !.lo = OrSize(lo, 1), !.hi = OrSize(hi, DefaultSize),
                                     !.todo = n, !.step = "loop"]
                  ELSE [NoAct EXCEPT !.action = a, !.step = "failed"]
    BY Zenon DEF BeginAct
<1>2. OrSize(lo, 1) \in Size \cup {1} /\ OrSize(hi, DefaultSize) \in Size \cup {DefaultSize}
    BY DEF OrSize
<1>3. /\ act' \in Act
      /\ act'.action = a /\ act'.step \in {"loop", "failed"}
      /\ act'.made = 0 /\ act'.failed = 0 /\ act'.undone = 0 /\ act'.next = 1
      /\ act'.mine = {} /\ act'.todo \in 0..MaxCount
  <2>1. NoAct \in Act /\ NoAct.made = 0 /\ NoAct.failed = 0 /\ NoAct.undone = 0
        /\ NoAct.next = 1 /\ NoAct.mine = {} /\ NoAct.todo = 0
    BY NoActType DEF NoAct
  <2> DEFINE l == OrSize(lo, 1)
             u == OrSize(hi, DefaultSize)
  <2>2. /\ l \in Size \cup {1} /\ u \in Size \cup {DefaultSize} /\ n \in 0..MaxCount
        /\ act' = IF ok
                  THEN [NoAct EXCEPT !.action = a, !.preserve = keep, !.apart = apart,
                                     !.lo = l, !.hi = u, !.todo = n, !.step = "loop"]
                  ELSE [NoAct EXCEPT !.action = a, !.step = "failed"]
    BY <1>1, <1>2
  <2> HIDE DEF NoAct, l, u
  <2>3. CASE ok
    BY ZenonT(30), <2>1, <2>2, <2>3 DEF Act
  <2>4. CASE ~ok
    BY <2>1, <2>2, <2>4 DEF Act
  <2> QED
    BY <2>3, <2>4
<1>4. ActTypeOK'
    BY <1>0, <1>3 DEF ActTypeOK
<1>5. Counted'
    BY <1>0, <1>3 DEF Counted
<1>6. Remembered' /\ MailsCounted' /\ PanicIsSized'
    BY <1>0, <1>3, FS_EmptySet DEF Remembered, MailsCounted, PanicIsSized, SimulationActions
<1> QED
    BY <1>4, <1>5, <1>6 DEF ActInv

\* What a step makes of a handler that is on its way.
LEMMA ActSteps ==
    ASSUME ActInv, ActStep
    PROVE  ActInv'
<1> USE ActivityAssumption
<1>0. /\ ActTypeOK /\ Counted /\ Remembered /\ MailsCounted /\ PanicIsSized
      /\ act \in Act /\ there \in SUBSET Thing
      /\ act.mine \in SUBSET Thing /\ Cardinality(there) \in Nat /\ Cardinality(act.mine) \in Nat
      /\ act.made \in 0..MaxCount /\ act.undone \in 0..MaxCount /\ act.failed \in 0..MaxCount
      /\ act.todo \in 0..MaxCount /\ act.next \in 1..(MaxCount + 1)
  <2>1. act \in Act /\ there \in SUBSET Thing /\ act.mine \in SUBSET Thing
    BY DEF ActInv, ActTypeOK, Act
  <2> QED
    BY <2>1, Things DEF ActInv, Act
\* Nothing but the iterations left, and "meddled".
<1>1. ASSUME act' = [act EXCEPT !.todo = @ - 1], act.todo > 0, act.step = "loop", there' = there
      PROVE  ActInv'
  <2>1. /\ act' \in Act
        /\ act'.step = "loop" /\ act'.action = act.action /\ act'.made = act.made
        /\ act'.undone = act.undone /\ act'.failed = act.failed /\ act'.next = act.next
        /\ act'.mine = act.mine /\ act'.meddled = act.meddled /\ act'.todo = act.todo - 1
    BY <1>0, <1>1 DEF Act
  <2>2. ActTypeOK' /\ Counted'
    BY <1>0, <1>1, <2>1 DEF ActTypeOK, Counted, SimulationActions
  <2>3. Remembered' /\ MailsCounted' /\ PanicIsSized'
    BY <1>0, <1>1, <2>1 DEF Remembered, MailsCounted, PanicIsSized
  <2> QED
    BY <2>2, <2>3 DEF ActInv
<1>2. CASE LeaveLoop
  <2>1. /\ act' \in Act
        /\ act'.step = "cleanup" /\ act'.action = act.action /\ act'.made = act.made
        /\ act'.undone = act.undone /\ act'.failed = act.failed /\ act'.next = act.next
        /\ act'.mine = act.mine /\ act'.meddled = act.meddled /\ act'.todo = 0
        /\ act.step = "loop" /\ there' = there
    <3>1. /\ act.step = "loop" /\ there' = there
          /\ act' = [act EXCEPT !.step = "cleanup", !.todo = 0] /\ 0 \in 0..MaxCount
      BY <1>2 DEF LeaveLoop
    <3> QED
      BY <1>0, <3>1 DEF Act
  <2>2. ActTypeOK' /\ Counted'
    BY <1>0, <2>1 DEF ActTypeOK, Counted, SimulationActions
  <2>3. Remembered' /\ MailsCounted' /\ PanicIsSized'
    BY <1>0, <2>1 DEF Remembered, MailsCounted, PanicIsSized
  <2> QED
    BY <2>2, <2>3 DEF ActInv
<1>3. CASE Disappear
  <2>1. /\ act' \in Act
        /\ act'.step = act.step /\ act'.action = act.action /\ act'.made = act.made
        /\ act'.undone = act.undone /\ act'.failed = act.failed /\ act'.next = act.next
        /\ act'.mine = act.mine /\ act'.meddled /\ act'.todo = act.todo
        /\ act.step \in {"loop", "cleanup"} /\ there' \subseteq there
        /\ act.action \in {"simulate_file_activity", "simulate_process_activity"}
    BY <1>0, <1>3 DEF Act, Disappear
  <2>2. ActTypeOK' /\ Counted'
    BY <1>0, <2>1 DEF ActTypeOK, Counted, SimulationActions
  <2>3. Remembered' /\ MailsCounted' /\ PanicIsSized'
    BY <1>0, <2>1 DEF Remembered, MailsCounted, PanicIsSized
  <2> QED
    BY <2>2, <2>3 DEF ActInv
\* A file or a process is made, and remembered.
<1>4. ASSUME Did(Made(act)), there' = there \cup {act.next}, act.todo > 0, act.step = "loop",
             act.action \in {"simulate_file_activity", "simulate_process_activity"}
      PROVE  ActInv'
  <2>1. /\ act.next \in Thing /\ act.next \notin act.mine /\ act.next \notin there
        /\ act.made + 1 \in 0..MaxCount /\ act.next + 1 \in 1..(MaxCount + 1)
        /\ act.todo - 1 \in 0..MaxCount
    BY <1>0, <1>4 DEF Counted, Thing
  <2>2. /\ act' \in Act
        /\ act'.step = "loop" /\ act'.action = act.action /\ act'.made = act.made + 1
        /\ act'.undone = act.undone /\ act'.failed = act.failed /\ act'.next = act.next + 1
        /\ act'.mine = act.mine \cup {act.next} /\ act'.meddled = act.meddled
        /\ act'.todo = act.todo - 1
    BY <1>0, <1>4, <2>1 DEF Act, Did, Turn, Made
  <2>3. Cardinality(act.mine \cup {act.next}) = Cardinality(act.mine) + 1
    BY <1>0, <2>1, Things
  <2>4. ActTypeOK' /\ Counted'
    BY <1>0, <1>4, <2>1, <2>2 DEF ActTypeOK, Counted, SimulationActions
  <2>5. Remembered' /\ MailsCounted' /\ PanicIsSized'
    BY <1>0, <1>4, <2>2, <2>3 DEF Remembered, MailsCounted, PanicIsSized
  <2> QED
    BY <2>4, <2>5 DEF ActInv
<1>5. CASE CreateFile
  <2>1. /\ act.action = "simulate_file_activity" /\ act.step = "loop" /\ act.todo > 0
    BY <1>5 DEF CreateFile, InLoop
  <2>2. CASE Did(Made(act)) /\ there' = there \cup {act.next}
    BY <1>4, <2>1, <2>2
  <2>3. CASE Did([act EXCEPT !.next = @ + 1, !.meddled = TRUE])
             /\ there' \in {there, there \cup {act.next}}
    <3>1. /\ act.next \in Thing /\ act.next + 1 \in 1..(MaxCount + 1)
          /\ act.todo - 1 \in 0..MaxCount
      BY <1>0, <2>1 DEF Counted, Thing
    <3>2. /\ act' \in Act
          /\ act'.step = "loop" /\ act'.action = act.action /\ act'.made = act.made
          /\ act'.undone = act.undone /\ act'.failed = act.failed /\ act'.next = act.next + 1
          /\ act'.mine = act.mine /\ act'.meddled /\ act'.todo = act.todo - 1
      BY <1>0, <2>1, <2>3, <3>1 DEF Act, Did, Turn
    <3>3. ActTypeOK' /\ Counted'
      BY <1>0, <2>1, <2>3, <3>1, <3>2 DEF ActTypeOK, Counted, SimulationActions
    <3>4. Remembered' /\ MailsCounted' /\ PanicIsSized'
      BY <1>0, <2>1, <3>2 DEF Remembered, MailsCounted, PanicIsSized
    <3> QED
      BY <3>3, <3>4 DEF ActInv
  <2> QED
    BY <1>5, <2>2, <2>3 DEF CreateFile
<1>6. CASE SizePanic
  <2>1. /\ act' \in Act
        /\ act'.step = "panic" /\ act'.action = "simulate_file_activity"
        /\ act'.next = act.next /\ act'.mine = act.mine /\ there' = there
        /\ act'.lo = act.lo /\ act'.hi = act.hi
    BY <1>0, <1>6 DEF Act, SizePanic, InLoop
  <2>2. act.lo \in Int /\ act.hi \in Int
    <3>1. act.lo \in Size \cup {1} /\ act.hi \in Size \cup {DefaultSize}
      BY <1>0 DEF Act
    <3>2. Size \cup {1} \subseteq Int /\ Size \cup {DefaultSize} \subseteq Int
      BY ActivityAssumption
    <3> QED
      BY <3>1, <3>2, Zenon
  <2>3. act.hi < act.lo \/ act.lo < 0
    BY <1>6, <2>2 DEF SizePanic
  <2>4. ActTypeOK' /\ Counted'
    BY <1>0, <2>1 DEF ActTypeOK, Counted, SimulationActions
  <2>5. Remembered' /\ MailsCounted' /\ PanicIsSized'
    BY <2>1, <2>3 DEF Remembered, MailsCounted, PanicIsSized
  <2> QED
    BY <2>4, <2>5 DEF ActInv
<1>7. CASE TouchFile \/ RenameFile \/ SendNothing
  BY <1>1, <1>7 DEF TouchFile, RenameFile, SendNothing, InLoop, Did, Turn
<1>8. CASE DeleteFile
  <2>1. /\ act.action = "simulate_file_activity" /\ act.step = "loop" /\ act.todo > 0
    BY <1>8 DEF DeleteFile, InLoop
  <2>2. PICK f \in act.mine :
        IF f \in there
        THEN \/ Did(Forget(act, f)) /\ there' = there \ {f}
             \/ Did([act EXCEPT !.meddled = TRUE]) /\ UNCHANGED there
        ELSE Did(act) /\ UNCHANGED there
    BY <1>8 DEF DeleteFile
  <2>3. CASE Did(Forget(act, f)) /\ there' = there \ {f}
    <3>1. Cardinality(act.mine \ {f}) = Cardinality(act.mine) - 1
      BY <1>0, Things
    <3>2. /\ act.undone + 1 \in 0..MaxCount /\ act.todo - 1 \in 0..MaxCount
          /\ act.mine \ {f} \subseteq Thing
      <4>1. Cardinality(act.mine \ {f}) \in Nat
        BY <1>0, Things
      <4> QED
        BY <1>0, <2>1, <3>1, <4>1 DEF Remembered
    <3>3. /\ act' \in Act
          /\ act'.step = "loop" /\ act'.action = act.action /\ act'.made = act.made
          /\ act'.undone = act.undone + 1 /\ act'.failed = act.failed /\ act'.next = act.next
          /\ act'.mine = act.mine \ {f} /\ act'.meddled = act.meddled
          /\ act'.todo = act.todo - 1
      BY <1>0, <2>1, <2>3, <3>2 DEF Act, Did, Turn, Forget
    <3>4. ActTypeOK' /\ Counted'
      BY <1>0, <2>1, <2>3, <3>3 DEF ActTypeOK, Counted, SimulationActions
    <3>5. Remembered' /\ MailsCounted' /\ PanicIsSized'
      BY <1>0, <2>1, <2>3, <3>1, <3>3 DEF Remembered, MailsCounted, PanicIsSized
    <3> QED
      BY <3>4, <3>5 DEF ActInv
  <2>4. CASE Did([act EXCEPT !.meddled = TRUE]) /\ UNCHANGED there
    <3>1. /\ act' \in Act
          /\ act'.step = "loop" /\ act'.action = act.action /\ act'.made = act.made
          /\ act'.undone = act.undone /\ act'.failed = act.failed /\ act'.next = act.next
          /\ act'.mine = act.mine /\ act'.meddled /\ act'.todo = act.todo - 1
      <4>1. act.todo - 1 \in 0..MaxCount
        BY <1>0, <2>1
      <4> QED
        BY <1>0, <2>1, <2>4, <4>1 DEF Act, Did, Turn
    <3>2. ActTypeOK' /\ Counted'
      BY <1>0, <2>1, <2>4, <3>1 DEF ActTypeOK, Counted, SimulationActions
    <3>3. Remembered' /\ MailsCounted' /\ PanicIsSized'
      BY <1>0, <2>1, <2>4, <3>1 DEF Remembered, MailsCounted, PanicIsSized
    <3> QED
      BY <3>2, <3>3 DEF ActInv
  <2>5. CASE Did(act) /\ UNCHANGED there
    BY <1>1, <2>1, <2>5 DEF Did, Turn
  <2> QED
    BY <2>2, <2>3, <2>4, <2>5
<1>9. CASE CleanFiles
  <2>1. /\ act.action = "simulate_file_activity" /\ act.step = "cleanup"
        /\ act.made = act.undone + Cardinality(act.mine)
        /\ act.meddled \/ there = act.mine
    BY <1>0, <1>9 DEF CleanFiles, Remembered
  <2>2. CASE act.preserve /\ act' = [act EXCEPT !.step = "completed"] /\ UNCHANGED there
    <3>1. /\ act' \in Act
          /\ act'.step = "completed" /\ act'.action = act.action /\ act'.made = act.made
          /\ act'.undone = act.undone /\ act'.next = act.next
          /\ act'.mine = act.mine /\ act'.meddled = act.meddled /\ act'.preserve
      BY <1>0, <2>2 DEF Act
    <3>2. ActTypeOK' /\ Counted'
      BY <1>0, <2>1, <2>2, <3>1 DEF ActTypeOK, Counted, SimulationActions
    <3>3. Remembered' /\ MailsCounted' /\ PanicIsSized'
      BY <2>1, <2>2, <3>1 DEF Remembered, MailsCounted, PanicIsSized
    <3> QED
      BY <3>2, <3>3 DEF ActInv
  <2>3. CASE ~act.preserve
    <3>1. PICK stuck \in SUBSET (there \cap act.mine) :
            /\ there' = there \ (act.mine \ stuck)
            /\ act' = [act EXCEPT !.step = "completed", !.undone = @ + Cardinality(act.mine),
                                  !.meddled = @ \/ stuck # {}]
      BY <1>9, <2>3 DEF CleanFiles
    <3>2. act.undone + Cardinality(act.mine) \in 0..MaxCount
      BY <1>0, <2>1
    <3>3. /\ act' \in Act
          /\ act'.step = "completed" /\ act'.action = act.action /\ act'.made = act.made
          /\ act'.undone = act.made /\ act'.next = act.next
          /\ act'.mine = act.mine /\ act'.meddled = (act.meddled \/ stuck # {})
      BY <1>0, <2>1, <3>1, <3>2 DEF Act
    <3>4. act'.meddled \/ there' = {}
      BY <2>1, <3>1, <3>3
    <3>5. ActTypeOK' /\ Counted'
      BY <1>0, <2>1, <3>1, <3>3 DEF ActTypeOK, Counted, SimulationActions
    <3>6. Remembered' /\ MailsCounted' /\ PanicIsSized'
      <4>1. act'.meddled \/ Cardinality(there') = 0
        BY <3>4, FS_EmptySet
      <4> QED
        BY <1>0, <2>1, <3>3, <3>4, <4>1 DEF Remembered, MailsCounted, PanicIsSized
    <3> QED
      BY <3>5, <3>6 DEF ActInv
  <2> QED
    BY <1>9, <2>2, <2>3 DEF CleanFiles
<1>10. CASE SpawnProcess
  BY <1>1, <1>4, <1>10 DEF SpawnProcess, InLoop, Did, Turn
<1>11. CASE KillProcesses
  <2>1. /\ act.action = "simulate_process_activity" /\ act.step = "cleanup"
        /\ act.made = Cardinality(act.mine)
        /\ act.meddled \/ there = act.mine
    BY <1>0, <1>11 DEF KillProcesses, Remembered
  <2>2. PICK killed \in SUBSET act.mine :
        /\ there' = IF act.apart THEN there ELSE there \ killed
        /\ act' = [act EXCEPT !.step = "completed", !.undone = Cardinality(killed),
                              !.meddled = @ \/ killed # act.mine]
    BY <1>11 DEF KillProcesses
  <2>3. Cardinality(killed) \in 0..MaxCount
    BY <1>0, <2>1, Things
  <2>4. /\ act' \in Act
        /\ act'.step = "completed" /\ act'.action = act.action /\ act'.made = act.made
        /\ act'.undone = Cardinality(killed) /\ act'.next = act.next /\ act'.apart = act.apart
        /\ act'.mine = act.mine /\ act'.meddled = (act.meddled \/ killed # act.mine)
    BY ZenonT(30), <1>0, <2>2, <2>3 DEF Act
  <2>5. act'.meddled \/ act'.apart \/ there' = {}
    BY <2>1, <2>2, <2>4
  <2>6. ActTypeOK' /\ Counted'
    BY <1>0, <2>1, <2>2, <2>4 DEF ActTypeOK, Counted, SimulationActions
  <2>7. Remembered' /\ MailsCounted' /\ PanicIsSized'
    BY <2>1, <2>4, <2>5 DEF Remembered, MailsCounted, PanicIsSized
  <2> QED
    BY <2>6, <2>7 DEF ActInv
<1>12. CASE SendEmail
  <2>1. /\ act.action = "simulate_email_traffic" /\ act.step = "loop" /\ act.todo > 0
        /\ act.next \in Thing /\ act.next \notin there
        /\ act.made + 1 \in 0..MaxCount /\ act.failed + 1 \in 0..MaxCount
        /\ act.next + 1 \in 1..(MaxCount + 1) /\ act.todo - 1 \in 0..MaxCount
    BY <1>0, <1>12 DEF SendEmail, InLoop, Counted, Thing
  <2>2. Cardinality(there \cup {act.next}) = Cardinality(there) + 1
    BY <1>0, <2>1, Things
  <2>3. CASE Did([act EXCEPT !.made = @ + 1, !.next = @ + 1]) /\ there' = there \cup {act.next}
    <3>1. /\ act' \in Act
          /\ act'.step = "loop" /\ act'.action = act.action /\ act'.made = act.made + 1
          /\ act'.failed = act.failed /\ act'.next = act.next + 1
          /\ act'.mine = act.mine /\ act'.todo = act.todo - 1
      BY <1>0, <2>1, <2>3 DEF Act, Did, Turn
    <3>2. ActTypeOK' /\ Counted'
      BY <1>0, <2>1, <2>3, <3>1 DEF ActTypeOK, Counted, SimulationActions
    <3>3. Remembered' /\ MailsCounted' /\ PanicIsSized'
      BY <1>0, <2>1, <2>2, <2>3, <3>1 DEF Remembered, MailsCounted, PanicIsSized
    <3> QED
      BY <3>2, <3>3 DEF ActInv
  <2>4. CASE Did([act EXCEPT !.failed = @ + 1, !.next = @ + 1])
             /\ there' \in {there, there \cup {act.next}}
    <3>1. /\ act' \in Act
          /\ act'.step = "loop" /\ act'.action = act.action /\ act'.made = act.made
          /\ act'.failed = act.failed + 1 /\ act'.next = act.next + 1
          /\ act'.mine = act.mine /\ act'.todo = act.todo - 1
      BY <1>0, <2>1, <2>4 DEF Act, Did, Turn
    <3>2. ActTypeOK' /\ Counted'
      BY <1>0, <2>1, <2>4, <3>1 DEF ActTypeOK, Counted, SimulationActions
    <3>3. Remembered' /\ MailsCounted' /\ PanicIsSized'
      <4>1. Cardinality(there') \in {Cardinality(there), Cardinality(there) + 1}
        BY <2>2, <2>4
      <4> QED
        BY <1>0, <2>1, <3>1, <4>1 DEF Remembered, MailsCounted, PanicIsSized
    <3> QED
      BY <3>2, <3>3 DEF ActInv
  <2> QED
    BY <1>12, <2>3, <2>4 DEF SendEmail
<1>13. CASE VisitURL
  <2>1. /\ act.action = "simulate_browsing" /\ act.step = "loop" /\ act.todo > 0
        /\ act.made + 1 \in 0..MaxCount /\ act.todo - 1 \in 0..MaxCount
        /\ there' = there
    BY <1>0, <1>13 DEF VisitURL, InLoop, Counted
  <2>2. /\ act' \in Act
        /\ act'.step = "loop" /\ act'.action = act.action /\ act'.made = act.made + 1
        /\ act'.failed = act.failed /\ act'.next = act.next
        /\ act'.mine = act.mine /\ act'.todo = act.todo - 1
    BY <1>0, <1>13, <2>1 DEF Act, Did, Turn, VisitURL
  <2>3. ActTypeOK' /\ Counted'
    BY <1>0, <2>1, <2>2 DEF ActTypeOK, Counted, SimulationActions
  <2>4. Remembered' /\ MailsCounted' /\ PanicIsSized'
    BY <1>0, <2>1, <2>2 DEF Remembered, MailsCounted, PanicIsSized
  <2> QED
    BY <2>3, <2>4 DEF ActInv
<1>14. CASE EndSimulation
  <2>1. /\ act' \in Act
        /\ act'.step = "completed" /\ act'.action = act.action /\ act'.made = act.made
        /\ act'.failed = act.failed /\ act'.next = act.next /\ act'.mine = act.mine
        /\ act.action \in {"simulate_email_traffic", "simulate_browsing"}
        /\ there' = there
    BY <1>0, <1>14 DEF Act, EndSimulation
  <2>2. ActTypeOK' /\ Counted'
    BY <1>0, <2>1 DEF ActTypeOK, Counted, SimulationActions
  <2>3. Remembered' /\ MailsCounted' /\ PanicIsSized'
    BY <1>0, <2>1 DEF Remembered, MailsCounted, PanicIsSized
  <2> QED
    BY <2>2, <2>3 DEF ActInv
<1> QED
    BY <1>2, <1>3, <1>5, <1>6, <1>7, <1>8, <1>9, <1>10, <1>11, <1>12, <1>13, <1>14 DEF ActStep

\* Without a handler all is as the invariant says.
LEMMA ActIdle ==
    /\ ActInit => ActInv
    /\ EndAct => ActInv'
<1> USE ActivityAssumption
<1>1. ASSUME ActInit PROVE ActInv
    BY <1>1, NoActType
    DEF ActInit, ActInv, ActTypeOK, Counted, Remembered, MailsCounted, PanicIsSized
<1>2. ASSUME EndAct PROVE ActInv'
    BY <1>2, NoActType
    DEF EndAct, ActInv, ActTypeOK, Counted, Remembered, MailsCounted, PanicIsSized
<1> QED
    BY <1>1, <1>2

\* Whatever happens to a simulation preserves its invariant.
LEMMA ActMoves ==
    ASSUME ActInv, ActMove
    PROVE  ActInv'
<1>1. CASE UNCHANGED actVars
    BY <1>1 DEF actVars, ActInv, ActTypeOK, Counted, Remembered, MailsCounted, PanicIsSized
<1> QED
    BY <1>1, ActBegins, ActSteps, ActIdle DEF ActMove

\* What the invariant says of the report of a handler, and of what it leaves.
LEMMA ActReports == ActInv => ActReportTrue /\ ActLeavesNothing
<1> SUFFICES ASSUME ActInv PROVE ActReportTrue /\ ActLeavesNothing
    OBVIOUS
<1>1. /\ Counted /\ Remembered /\ MailsCounted
      /\ act.action \in SimulationActions \cup {"none"}
    BY DEF ActInv, ActTypeOK, Act
<1>2. ActReportTrue
  <2> SUFFICES ASSUME act.step = "completed" PROVE ActReportTrue
    BY DEF ActReportTrue
  <2>1. CASE act.action = "simulate_file_activity"
    BY <1>1, <2>1 DEF ActReportTrue, Remembered
  <2>2. CASE act.action = "simulate_process_activity"
    BY <1>1, <2>2 DEF ActReportTrue, Remembered
  <2>3. CASE act.action = "simulate_email_traffic"
    BY <1>1, <2>3 DEF ActReportTrue, MailsCounted
  <2>4. CASE act.action = "simulate_browsing"
    BY <1>1, <2>4 DEF ActReportTrue, MailsCounted
  <2> QED
    BY <1>1, <2>1, <2>2, <2>3, <2>4 DEF SimulationActions, Counted
<1>3. ActLeavesNothing
    BY <1>1 DEF ActLeavesNothing, ActEnded, Counted, Remembered, MailsCounted, SimulationActions
<1> QED
    BY <1>2, <1>3

-----------------------------------------------------------------------------
(* Mail: the invariant *)

\* The newest n of some mails are no more than n: each is told from the others by
\* the number of those that are newer.
LEMMA NewestBound ==
    ASSUME NEW M \in SUBSET Mail, NEW n \in Nat
    PROVE  /\ Newest(M, n) \subseteq M
           /\ IsFiniteSet(M)
           /\ \A F \in SUBSET Newest(M, n) : Cardinality(F) <= n
<1> USE MailAssumption
<1> DEFINE N == Newest(M, n)
           newer(m) == {k \in M : k > m}
           f == [m \in N |-> Cardinality(newer(m))]
<1>1. IsFiniteSet(M)
    BY FS_Subset
<1>2. N \subseteq M /\ IsFiniteSet(N) /\ Cardinality(N) \in Nat
    BY <1>1, FS_Subset, FS_CardinalityType DEF Newest
<1>3. \A m \in M : IsFiniteSet(newer(m)) /\ Cardinality(newer(m)) \in Nat
    BY <1>1, FS_Subset, FS_CardinalityType
<1>4. f \in [N -> 0..(n - 1)]
    <2>1. \A m \in N : Cardinality(newer(m)) < n
        BY DEF Newest
    <2> HIDE DEF newer, N
    <2> QED
        BY <1>2, <1>3, <2>1
<1>5. \A x, y \in N : x < y => f[x] # f[y]
    <2> SUFFICES ASSUME NEW x \in N, NEW y \in N, x < y PROVE f[x] # f[y]
        OBVIOUS
    <2>1. x \in Nat /\ y \in Nat /\ x \in M /\ y \in M
        BY <1>2
    <2>0. \A k \in M : k \in Nat
        BY MailAssumption
    <2>2. newer(y) \in SUBSET newer(x) /\ y \in newer(x) /\ y \notin newer(y)
        <3>1. ASSUME NEW k \in newer(y) PROVE k \in newer(x)
            <4>1. k \in M /\ k > y
                OBVIOUS
            <4>2. k > x
                BY <2>0, <2>1, <4>1
            <4> QED
                BY <4>1, <4>2
        <3>2. y \in newer(x) /\ y \notin newer(y)
            BY <2>1
        <3> QED
            BY <3>1, <3>2
    <2>3. Cardinality(newer(x)) # Cardinality(newer(y))
        BY <1>3, <2>1, <2>2, FS_Subset
    <2> QED
        BY <2>3
<1>6. Cardinality(N) <= n
    <2> DEFINE T == 0..(n - 1)
    <2>1. IsFiniteSet(T) /\ Cardinality(T) = n
        BY FS_Interval
    <2>2. SUFFICES ASSUME n < Cardinality(N) PROVE FALSE
        BY <1>2
    <2> HIDE DEF f, N, T
    <2>3. PICK x, y \in N : x # y /\ f[x] = f[y]
        <3>1. f \in [N -> T] /\ IsFiniteSet(N) /\ Cardinality(T) < Cardinality(N)
            BY <1>2, <1>4, <2>1, <2>2 DEF T
        <3> QED
            BY <2>1, <3>1, FS_PigeonHole
    <2>4. x \in Nat /\ y \in Nat
        BY <1>2
    <2> QED
        BY <1>5, <2>3, <2>4
<1>7. \A F \in SUBSET N : Cardinality(F) <= n
    BY <1>2, <1>6, FS_Subset, FS_CardinalityType
<1> QED
    BY <1>1, <1>2, <1>7

\* Taking an element out of a sequence.
LEMMA RemoveAtFacts ==
    ASSUME NEW S, NEW s \in Seq(S), NEW i \in DOMAIN s
    PROVE  /\ RemoveAt(s, i) \in Seq(S)
           /\ Len(RemoveAt(s, i)) = Len(s) - 1
           /\ \A k \in 1..(Len(s) - 1) :
                RemoveAt(s, i)[k] = s[IF k < i THEN k ELSE k + 1]
<1> DEFINE p == SubSeq(s, 1, i - 1)
           q == SubSeq(s, i + 1, Len(s))
<1>1. i \in 1..Len(s) /\ Len(s) \in Nat
    OBVIOUS
<1>2. p \in Seq(S) /\ Len(p) = i - 1 /\ \A k \in 1..(i - 1) : p[k] = s[k]
    BY <1>1
<1>3. q \in Seq(S) /\ Len(q) = Len(s) - i /\ \A k \in 1..(Len(s) - i) : q[k] = s[k + i]
    BY <1>1
<1>4. RemoveAt(s, i) = p \o q
    BY DEF RemoveAt
<1> HIDE DEF p, q
<1>5. p \o q \in Seq(S) /\ Len(p \o q) = Len(s) - 1
    BY <1>1, <1>2, <1>3
<1>6. ASSUME NEW k \in 1..(Len(s) - 1)
      PROVE  (p \o q)[k] = s[IF k < i THEN k ELSE k + 1]
  <2>1. CASE k < i
    BY <1>1, <1>2, <1>3, <2>1
  <2>2. CASE ~(k < i)
    <3>1. (p \o q)[k] = q[k - (i - 1)]
      BY SMTT(30), <1>1, <1>2, <1>3, <2>2
    <3>2. k - (i - 1) \in 1..(Len(s) - i) /\ (k - (i - 1)) + i = k + 1
      BY <1>1, <2>2
    <3> QED
      BY <1>3, <2>2, <3>1, <3>2
  <2> QED
    BY <2>1, <2>2
<1> QED
    BY <1>4, <1>5, <1>6

\* What is left of the attachments is in their order.
LEMMA SubSeqOf ==
    ASSUME NEW S, NEW t \in Seq(S)
    PROVE  /\ IsSubSeqOf(t, t)
           /\ \A s \in Seq(S) : IsSubSeqOf(s, t) =>
                \A i \in DOMAIN s : IsSubSeqOf(RemoveAt(s, i), t)
<1>1. IsSubSeqOf(t, t)
  <2> DEFINE f == [i \in DOMAIN t |-> i]
  <2>1. f \in [DOMAIN t -> DOMAIN t] /\ \A i \in DOMAIN t : f[i] = i
    OBVIOUS
  <2> HIDE DEF f
  <2> QED
    BY <2>1 DEF IsSubSeqOf
<1>2. ASSUME NEW s \in Seq(S), IsSubSeqOf(s, t), NEW i \in DOMAIN s
      PROVE  IsSubSeqOf(RemoveAt(s, i), t)
  <2> DEFINE r == RemoveAt(s, i)
             g == [k \in DOMAIN r |-> IF k < i THEN k ELSE k + 1]
  <2>1. PICK f \in [DOMAIN s -> DOMAIN t] :
            /\ \A j, k \in DOMAIN s : j < k => f[j] < f[k]
            /\ \A j \in DOMAIN s : s[j] = t[f[j]]
    BY <1>2 DEF IsSubSeqOf
  <2>2. /\ DOMAIN s = 1..Len(s) /\ Len(s) \in Nat /\ i \in 1..Len(s)
        /\ DOMAIN r = 1..(Len(s) - 1)
        /\ \A k \in DOMAIN r : r[k] = s[IF k < i THEN k ELSE k + 1]
    <3>1. /\ RemoveAt(s, i) \in Seq(S) /\ Len(RemoveAt(s, i)) = Len(s) - 1
          /\ \A k \in 1..(Len(s) - 1) : RemoveAt(s, i)[k] = s[IF k < i THEN k ELSE k + 1]
      BY RemoveAtFacts
    <3>2. DOMAIN s = 1..Len(s) /\ Len(s) \in Nat
      OBVIOUS
    <3>3. DOMAIN r = 1..Len(r)
      BY <3>1
    <3> QED
      BY <3>1, <3>2, <3>3
  <2> HIDE DEF r
  <2>3. /\ g \in [DOMAIN r -> DOMAIN s]
        /\ \A j, k \in DOMAIN r : j < k => g[j] < g[k]
        /\ \A k \in DOMAIN r : r[k] = s[g[k]]
    BY <2>2
  <2> HIDE DEF g
  <2> DEFINE h == [k \in DOMAIN r |-> f[g[k]]]
  <2>4. /\ h \in [DOMAIN r -> DOMAIN t]
        /\ \A k \in DOMAIN r : h[k] = f[g[k]]
    BY <2>1, <2>3
  <2> HIDE DEF h
  <2>5. \A j, k \in DOMAIN r : j < k => h[j] < h[k]
    BY <2>1, <2>3, <2>4
  <2>6. \A k \in DOMAIN r : r[k] = t[h[k]]
    BY <2>1, <2>3, <2>4
  <2>7. IsSubSeqOf(r, t)
    BY <2>4, <2>5, <2>6 DEF IsSubSeqOf
  <2> QED
    BY <2>7 DEF r
<1> QED
    BY <1>1, <1>2

\* The listing of the attachments of a mail.
LEMMA ListingFacts ==
    ASSUME MailTypes, NEW m \in Mail, NEW l \in Listing(m)
    PROVE  /\ l \in Seq(Name)
           /\ \A i \in DOMAIN l : i \in DOMAIN attached[m] /\ l[i] = attached[m][i]
<1>1. attached[m] \in Seq(Name)
    BY DEF MailTypes
<1>2. CASE l = attached[m]
    BY <1>1, <1>2
<1>3. CASE l \in Prefixes(attached[m])
  <2>1. PICK n \in 0..Len(attached[m]) : l = SubSeq(attached[m], 1, n)
    BY <1>3 DEF Prefixes
  <2> QED
    BY <1>1, <2>1
<1> QED
    BY <1>2, <1>3 DEF Listing

\* Where the file of an attachment is written.
LEMMA PathOfType ==
    ASSUME NEW name \in Name
    PROVE  /\ PathOf(name) \in File /\ PathOf(name).name = name
           /\ PathOf(name).outside => name \in Climbing
<1>1. PathOf(name).name = name /\ (PathOf(name).outside <=> name \in Climbing)
    BY Zenon DEF PathOf
<1>2. PathOf(name) \in File
  <2>1. (name \in Climbing) \in BOOLEAN
    OBVIOUS
  <2> QED
    BY <2>1 DEF PathOf, File
<1> QED
    BY <1>1, <1>2, Zenon

\* The record of no handler.
LEMMA NoMailType ==
    /\ NoMail \in MailRecord
    /\ NoMail.step = "idle" /\ NoMail.op = "none" /\ NoMail.found = {} /\ NoMail.infos = <<>>
    /\ NoMail.todo = {} /\ NoMail.started = {} /\ NoMail.saved = <<>>
    /\ NoMail.edited = FALSE /\ NoMail.max = 1
<1> USE MailAssumption
<1>1. 1 \in 1..MaxResults /\ <<>> \in Seq(Name)
    OBVIOUS
<1>2. NoMail \in MailRecord
    BY <1>1 DEF NoMail, MailRecord, MailSteps
<1> QED
    BY <1>2 DEF NoMail

\* The configuration email_receive begins with.
LEMMA MailBegins ==
    ASSUME MailInv, BeginMail
    PROVE  MailInv'
<1> USE MailAssumption
<1>0. /\ MailTypes /\ StillListed /\ Clean
      /\ mail.step = "idle" /\ conn = {} /\ files = {}
    BY DEF MailInv, BeginMail, Clean
<1>1. /\ box' \in SUBSET Mail
      /\ attached' = attached /\ conn' = {} /\ files' = {} /\ com' = com
    BY <1>0 DEF BeginMail
<1>2. PICK o \in Operation \cup {"unknown"}, b \in {"imap", "outlook"}, id \in BOOLEAN,
           s \in BOOLEAN, r \in BOOLEAN,
           asked \in SUBSET Part, parses \in BOOLEAN, n \in 1..MaxResults, known \in BOOLEAN :
        /\ id => asked = {} /\ o # "list"
        /\ s \/ r => o \in {"extract", "execute"}
        /\ n > 1 => o = "list"
        /\ mail' = IF known
                    THEN [NoMail EXCEPT !.op = o, !.backend = b, !.byId = id,
                                        !.filter = BuildFilter(asked, parses),
                                        !.max = n, !.saves = s, !.runs = r, !.step = "connect"]
                    ELSE [NoMail EXCEPT !.step = "failed"]
    BY Zenon DEF BeginMail
<1> DEFINE f == BuildFilter(asked, parses)
<1>f. f \in SUBSET Part
    BY DEF BuildFilter
<1> HIDE DEF f
<1>3. /\ mail' \in MailRecord
      /\ mail'.step \in {"connect", "failed"} /\ mail'.infos = <<>> /\ mail'.todo = {}
      /\ mail'.saved = <<>> /\ mail'.started = {} /\ mail'.found = {} /\ mail'.edited = FALSE
      /\ mail'.step = "connect" => mail'.op # "none"
      /\ mail'.max \in 1..MaxResults
  <2>1. "none" \notin Operation /\ {"connect", "failed"} \subseteq MailSteps
    BY DEF Operation, MailSteps
  <2> DEFINE Ops == Operation \cup {"none", "unknown"}
             Backends == {"none", "imap", "outlook"}
  <2>2. o \in Ops /\ b \in Backends /\ o # "none" /\ f \in SUBSET Part
    BY <1>f, <2>1
  <2>3. MailRecord =
            [op : Ops, backend : Backends, filter : SUBSET Part, byId : BOOLEAN,
             max : 1..MaxResults, saves : BOOLEAN, runs : BOOLEAN, step : MailSteps,
             found : SUBSET Mail, msg : Mail \cup {0}, infos : Seq(Name), todo : SUBSET Nat,
             saved : Seq(Name), started : SUBSET Name, unrestricted : BOOLEAN, edited : BOOLEAN]
    BY DEF MailRecord
  <2> HIDE DEF NoMail, Operation, MailSteps, Ops, Backends
  <2>4. CASE known
    <3>1. mail' = [NoMail EXCEPT !.op = o, !.backend = b, !.byId = id, !.filter = f,
                                 !.max = n, !.saves = s, !.runs = r, !.step = "connect"]
      BY <1>2, <2>4 DEF f
    <3> DEFINE now == [NoMail EXCEPT !.op = o, !.backend = b, !.byId = id, !.filter = f]
    <3>2. /\ now \in MailRecord /\ now.op = o
          /\ now.infos = <<>> /\ now.todo = {} /\ now.saved = <<>>
          /\ now.started = {} /\ now.found = {} /\ now.edited = FALSE
      BY <2>2, <2>3, NoMailType
    <3>3. mail' = [now EXCEPT !.max = n, !.saves = s, !.runs = r, !.step = "connect"]
      BY <3>1
    <3> HIDE DEF now
    <3> QED
      BY ZenonT(30), <2>1, <2>2, <2>3, <3>2, <3>3
  <2>5. CASE ~known
    <3>1. mail' = [NoMail EXCEPT !.step = "failed"]
      BY <1>2, <2>5
    <3> QED
      BY <2>1, <2>3, <3>1, NoMailType
  <2> QED
    BY <2>4, <2>5
<1>4. MailTypes'
    BY <1>0, <1>1, <1>3 DEF MailTypes
<1>5. Allowed' /\ Clean'
    BY <1>1, <1>3 DEF Allowed, Clean, MailHoldsNothing
<1>6. Found'
    BY <1>3, FS_EmptySet DEF Found, Limit
<1>7. StillListed'
    BY <1>1, <1>3 DEF StillListed
<1> QED
    BY <1>4, <1>5, <1>6, <1>7 DEF MailInv

\* What a step makes of a handler that is on its way.
LEMMA MailGoesOn ==
    ASSUME MailInv, on \in Thread, MailStep
    PROVE  MailInv'
<1> USE MailAssumption
<1>0. /\ MailTypes /\ Allowed /\ Found /\ StillListed /\ Clean
      /\ mail \in MailRecord
      /\ Limit \in Nat
  <2>1. MailTypes /\ Allowed /\ Found /\ StillListed /\ Clean /\ mail \in MailRecord
    BY DEF MailInv, MailTypes
  <2>2. mail.max \in Nat
    BY <2>1 DEF MailRecord
  <2> QED
    BY <2>1, <2>2 DEF Limit
\* A step that only goes on, and perhaps connects or disconnects.
<1>1. ASSUME NEW s \in MailSteps \ {"idle", "save", "connect"},
             mail' = [mail EXCEPT !.step = s],
             UNCHANGED <<box, attached, files>>,
             conn' \in SUBSET {"client", "unknown", "app", "ns"},
             com' \in [Thread -> 0..MaxApartments],
             s \in {"completed", "failed"} => conn' \subseteq {"unknown"},
             s \in {"create", "dispatch"} => mail.op # "none",
             s \in {"find", "read", "again", "start"} =>
                /\ mail.op \in Operation
                /\ mail.op \in {"extract", "execute"} => mail.saves
                /\ mail.op = "execute" => mail.runs
                /\ s = "again" => mail.op \in {"extract", "execute"}
                /\ s = "start" => mail.op = "execute"
      PROVE  MailInv'
  <2>1. /\ mail' \in MailRecord
        /\ mail'.backend = mail.backend
        /\ mail'.step = s /\ mail'.op = mail.op /\ mail'.filter = mail.filter
        /\ mail'.max = mail.max /\ mail'.saves = mail.saves /\ mail'.runs = mail.runs
        /\ mail'.found = mail.found /\ mail'.infos = mail.infos /\ mail'.todo = mail.todo
        /\ mail'.saved = mail.saved /\ mail'.started = mail.started
        /\ mail'.unrestricted = mail.unrestricted /\ mail'.edited = mail.edited
    BY <1>0, <1>1 DEF MailRecord
  <2>2. MailTypes'
    BY <1>0, <1>1, <2>1 DEF MailTypes
  <2>3. Allowed' /\ Clean'
    BY <1>0, <1>1, <2>1 DEF Allowed, Clean, MailHoldsNothing, MailEnded
  <2>4. Found' /\ StillListed'
    BY <1>0, <1>1, <2>1 DEF Found, Limit, StillListed
  <2> QED
    BY <2>2, <2>3, <2>4 DEF MailInv
<1>2. CASE Arrive \/ Vanish
  <2>1. box' \in SUBSET Mail /\ UNCHANGED <<mail, attached, conn, files, com>>
    BY <1>0, <1>2 DEF Arrive, Vanish, MailTypes
  <2>2. MailTypes'
    BY <1>0, <2>1 DEF MailTypes
  <2>3. Allowed' /\ Clean' /\ Found' /\ StillListed'
    BY <1>0, <2>1 DEF Allowed, Clean, MailHoldsNothing, MailEnded, Found, Limit, StillListed
  <2> QED
    BY <2>2, <2>3 DEF MailInv
<1>3. CASE TakeOut
  <2>0. PICK m \in box : \E i \in DOMAIN attached[m] :
            attached' = [attached EXCEPT ![m] = RemoveAt(@, i)]
    BY <1>3 DEF TakeOut
  <2>1. PICK i \in DOMAIN attached[m] : attached' = [attached EXCEPT ![m] = RemoveAt(@, i)]
    BY <2>0
  <2>2. /\ mail' \in MailRecord
        /\ mail'.backend = mail.backend
        /\ mail'.step = mail.step /\ mail'.op = mail.op /\ mail'.filter = mail.filter
        /\ mail'.max = mail.max /\ mail'.saves = mail.saves /\ mail'.runs = mail.runs
        /\ mail'.found = mail.found /\ mail'.infos = mail.infos /\ mail'.todo = mail.todo
        /\ mail'.saved = mail.saved /\ mail'.started = mail.started
        /\ mail'.unrestricted = mail.unrestricted /\ mail'.edited
        /\ UNCHANGED <<box, conn, files, com>>
    BY <1>0, <1>3 DEF TakeOut, MailRecord
  <2>3. /\ attached \in [Mail -> Seq(Name)] /\ m \in Mail
        /\ \A k \in Mail : IsSubSeqOf(attached[k], Attached[k])
        /\ attached[m] \in Seq(Name)
    BY <1>0 DEF MailTypes
  <2>4. RemoveAt(attached[m], i) \in Seq(Name)
    BY <2>3, RemoveAtFacts
  <2>5. IsSubSeqOf(RemoveAt(attached[m], i), Attached[m])
    <3>1. Attached[m] \in Seq(Name)
      BY <2>3
    <3> QED
      BY <2>3, <3>1, SubSeqOf
  <2>6. /\ attached' \in [Mail -> Seq(Name)]
        /\ \A k \in Mail : attached'[k] = IF k = m THEN RemoveAt(attached[m], i) ELSE attached[k]
    BY <2>1, <2>3, <2>4
  <2>7. \A k \in Mail : IsSubSeqOf(attached'[k], Attached[k])
    BY <2>3, <2>5, <2>6
  <2>8. MailTypes'
    BY <1>0, <2>2, <2>6, <2>7 DEF MailTypes
  <2>9. Allowed' /\ Clean' /\ Found' /\ StillListed'
    BY <1>0, <2>2 DEF Allowed, Clean, MailHoldsNothing, MailEnded, Found, Limit, StillListed
  <2> QED
    BY <2>8, <2>9 DEF MailInv
\* CoUninitialize, whatever thread it is called on.
<1>u. Uninitialize => com' \in [Thread -> 0..MaxApartments]
  <2>1. com \in [Thread -> 0..MaxApartments] /\ com[on] \in 0..MaxApartments
    BY <1>0 DEF MailTypes
  <2>2. (IF com[on] > 0 THEN com[on] - 1 ELSE com[on]) \in 0..MaxApartments
    BY <2>1
  <2> QED
    BY <2>1, <2>2 DEF Uninitialize
<1>4. CASE ConnectIMAP \/ CreateOutlook
  <2>1. /\ mail.op # "none"
        /\ UNCHANGED <<box, attached, files>>
        /\ \/ Go("dispatch")
           \/ Go("failed") /\ conn' \subseteq {"unknown"}
        /\ conn' \in SUBSET {"client", "unknown", "app", "ns"}
        /\ com' = com \/ Uninitialize
    BY <1>0, <1>4 DEF ConnectIMAP, CreateOutlook, Allowed
  <2>2. com' \in [Thread -> 0..MaxApartments]
    BY <1>0, <1>u, <2>1 DEF MailTypes
  <2>3. CASE Go("dispatch")
    BY <1>1, <2>1, <2>2, <2>3 DEF Go, MailSteps
  <2>4. CASE Go("failed") /\ conn' \subseteq {"unknown"}
    BY <1>1, <2>1, <2>2, <2>4 DEF Go, MailSteps
  <2> QED
    BY <2>1, <2>3, <2>4
<1>19. CASE InitializeCOM
  <2>1. /\ mail.op # "none" /\ Go("create")
        /\ UNCHANGED <<box, attached, conn, files>>
        /\ \/ com[on] < MaxApartments /\ com' = [com EXCEPT ![on] = @ + 1]
           \/ com' = com
    BY <1>0, <1>19 DEF InitializeCOM, Allowed
  <2>2. com' \in [Thread -> 0..MaxApartments] /\ conn' \in SUBSET {"client", "unknown", "app", "ns"}
    <3>1. com \in [Thread -> 0..MaxApartments] /\ com[on] \in 0..MaxApartments
      BY <1>0 DEF MailTypes
    <3>2. com[on] < MaxApartments => com[on] + 1 \in 0..MaxApartments
      BY <3>1
    <3>3. conn' \in SUBSET {"client", "unknown", "app", "ns"}
      BY <1>0, <2>1 DEF MailTypes
    <3> QED
      BY <2>1, <3>1, <3>2, <3>3
  <2> QED
    BY <1>1, <2>1, <2>2 DEF Go, MailSteps
\* The handler goes to its end without more ado.
<1>5. ASSUME NEW s \in {"succeed", "fail", "panic"}, Go(s), Alone
      PROVE  MailInv'
  <2>1. /\ UNCHANGED <<box, attached, files>> /\ conn' \in SUBSET {"client", "unknown", "app", "ns"}
        /\ com' \in [Thread -> 0..MaxApartments]
    BY <1>0, <1>5 DEF Alone, MailTypes
  <2> QED
    BY <1>1, <1>5, <2>1 DEF Go, MailSteps
<1>6. CASE Dispatch
  <2>1. /\ mail.step = "dispatch" /\ mail.op # "none" /\ Alone
        /\ mail.op \in Operation \cup {"none", "unknown"}
        /\ UNCHANGED <<box, attached, files>> /\ conn' \in SUBSET {"client", "unknown", "app", "ns"}
        /\ com' \in [Thread -> 0..MaxApartments]
    BY <1>0, <1>6 DEF Dispatch, Allowed, MailRecord, Alone, MailTypes
  <2>2. CASE Go("fail")
    BY <1>5, <2>1, <2>2
  <2>3. PICK s \in {"fail", "read", "find"} :
            /\ Go(s)
            /\ s # "fail" => /\ mail.op # "unknown"
                             /\ mail.op \in {"extract", "execute"} => mail.saves
                             /\ mail.op = "execute" => mail.runs
    BY <1>6 DEF Dispatch
  <2>4. CASE s # "fail"
    BY <1>1, <2>1, <2>3, <2>4 DEF Go, MailSteps
  <2> QED
    BY <2>2, <2>3, <2>4
\* The search ends with some mails that satisfy the filter.
<1>7. ASSUME mail.step = "find", Alone,
             NEW F \in SUBSET Mail, NEW u \in BOOLEAN,
             mail' = [mail EXCEPT !.step = "read", !.found = F, !.unrestricted = u],
             \A m \in F : mail.filter \cap (IF u THEN {"attachment"} ELSE Part)
                             \subseteq Sat[mail.backend][m],
             Cardinality(F) <= Limit
      PROVE  MailInv'
  <2>1. /\ mail' \in MailRecord
        /\ mail'.backend = mail.backend
        /\ mail'.step = "read" /\ mail'.op = mail.op /\ mail'.filter = mail.filter
        /\ mail'.max = mail.max /\ mail'.saves = mail.saves /\ mail'.runs = mail.runs
        /\ mail'.found = F /\ mail'.infos = mail.infos /\ mail'.todo = mail.todo
        /\ mail'.saved = mail.saved /\ mail'.started = mail.started
        /\ mail'.unrestricted = u /\ mail'.edited = mail.edited
        /\ UNCHANGED <<box, attached, conn, files, com>>
    BY <1>0, <1>7 DEF MailRecord, MailSteps, Alone
  <2>2. MailTypes'
    BY <1>0, <2>1 DEF MailTypes
  <2>3. Allowed' /\ Clean' /\ StillListed'
    BY <1>0, <1>7, <2>1 DEF Allowed, Clean, MailHoldsNothing, MailEnded, StillListed
  <2>4. Found'
    BY <1>7, <2>1 DEF Found, Limit
  <2> QED
    BY <2>2, <2>3, <2>4 DEF MailInv
<1>8. ASSUME NEW M \in SUBSET Mail, NEW F \in SUBSET Newest(M, Limit)
      PROVE  F \in SUBSET Mail /\ Cardinality(F) <= Limit
    BY <1>0, <1>8, NewestBound
<1>9. /\ \A M \in SUBSET Mail, p \in SUBSET Part : Satisfying(M, p) \in SUBSET Mail
      /\ mail.filter \subseteq Part /\ box \in SUBSET Mail /\ mail.unrestricted \in BOOLEAN
    BY <1>0 DEF Satisfying, MailRecord, MailTypes
<1>10. CASE ListIMAP
  <2> DEFINE M == Satisfying(box, {"unread", "dates"})
             F == Satisfying(Newest(M, Limit), {"words", "attachment"})
  <2>1. M \in SUBSET Mail /\ F \in SUBSET Newest(M, Limit) /\ Newest(M, Limit) \subseteq M
    BY <1>9 DEF Satisfying, Newest, Part
  <2>2. \A m \in F : mail.filter \subseteq Sat[mail.backend][m]
    <3> SUFFICES ASSUME NEW m \in F PROVE mail.filter \subseteq Sat[mail.backend][m]
      OBVIOUS
    <3>1. m \in M
      BY <2>1
    <3> QED
      BY <1>9, <3>1 DEF Satisfying, Part
  <2>3. CASE mail' = [mail EXCEPT !.step = "read", !.found = F]
    <3>1. mail' = [mail EXCEPT !.step = "read", !.found = F, !.unrestricted = mail.unrestricted]
      BY <1>0, <2>3 DEF MailRecord
    <3>2. mail.step = "find" /\ Alone
      BY <1>10 DEF ListIMAP
    <3> HIDE DEF M, F
    <3>3. F \in SUBSET Mail /\ Cardinality(F) <= Limit
      BY <1>8, <2>1
    <3>4. \A m \in F :
            mail.filter \cap (IF mail.unrestricted THEN {"attachment"} ELSE Part)
                \subseteq Sat[mail.backend][m]
      BY <2>2
    <3> QED
      BY <1>7, <1>9, <3>1, <3>2, <3>3, <3>4
  <2>4. CASE Go("fail")
    BY <1>5, <1>10, <2>4 DEF ListIMAP
  <2> QED
    BY <1>10, <2>3, <2>4 DEF ListIMAP
<1>11. CASE ListOutlook
  <2> DEFINE M == Satisfying(box, {"unread", "dates", "words"})
  <2>1. M \in SUBSET Mail /\ box \in SUBSET Mail
    BY <1>9 DEF Part
\* What is taken of some mails has the attachments asked for, and is no more than
\* was asked for.
  <2>2. ASSUME NEW S \in SUBSET Mail, NEW some \in OutlookItems(S)
        PROVE  /\ some \in SUBSET Mail /\ some \subseteq S /\ Cardinality(some) <= Limit
               /\ \A m \in some : mail.filter \cap {"attachment"} \subseteq Sat[mail.backend][m]
    <3>1. PICK F \in SUBSET S : Cardinality(F) <= Limit /\ some = Satisfying(F, {"attachment"})
      BY DEF OutlookItems
    <3>2. IsFiniteSet(F)
      BY FS_Subset
    <3>3. some \in SUBSET F /\ \A m \in some : mail.filter \cap {"attachment"} \subseteq Sat[mail.backend][m]
      BY <3>1 DEF Satisfying
    <3>4. Cardinality(some) \in Nat /\ Cardinality(F) \in Nat /\ Cardinality(some) <= Cardinality(F)
      BY <3>2, <3>3, FS_Subset, FS_CardinalityType
    <3>5. Cardinality(some) <= Limit
      <4> HIDE DEF M
      <4> QED
        BY <1>0, <3>1, <3>4
    <3> QED
      BY <3>1, <3>3, <3>5
  <2>3. ASSUME NEW some \in OutlookItems(M),
               mail' = [mail EXCEPT !.step = "read", !.found = some]
        PROVE  MailInv'
    <3>1. mail' = [mail EXCEPT !.step = "read", !.found = some, !.unrestricted = mail.unrestricted]
      BY <1>0, <2>3 DEF MailRecord
    <3>0. /\ some \in SUBSET Mail /\ some \subseteq M /\ Cardinality(some) <= Limit
          /\ \A m \in some : mail.filter \cap {"attachment"} \subseteq Sat[mail.backend][m]
      BY <2>1, <2>2
    <3>2. \A m \in some : mail.filter \subseteq Sat[mail.backend][m]
      <4> SUFFICES ASSUME NEW m \in some PROVE mail.filter \subseteq Sat[mail.backend][m]
        OBVIOUS
      <4>1. m \in M /\ mail.filter \cap {"attachment"} \subseteq Sat[mail.backend][m]
        BY <3>0
      <4>2. mail.filter \cap {"unread", "dates", "words"} \subseteq Sat[mail.backend][m]
        BY <4>1 DEF Satisfying
      <4> QED
        BY <1>9, <4>1, <4>2 DEF Part
    <3>3. \A m \in some :
            mail.filter \cap (IF mail.unrestricted THEN {"attachment"} ELSE Part)
                \subseteq Sat[mail.backend][m]
      BY <3>2
    <3>4. mail.step = "find" /\ Alone
      BY <1>11 DEF ListOutlook
    <3> HIDE DEF M
    <3> QED
      BY <1>7, <1>9, <3>0, <3>1, <3>3, <3>4
  <2>4. ASSUME NEW some \in OutlookItems(box),
               mail' = [mail EXCEPT !.step = "read", !.found = some, !.unrestricted = TRUE]
        PROVE  MailInv'
    <3>1. /\ some \in SUBSET Mail /\ Cardinality(some) <= Limit
          /\ \A m \in some : mail.filter \cap (IF TRUE THEN {"attachment"} ELSE Part)
                                \subseteq Sat[mail.backend][m]
      BY <2>1, <2>2
    <3>2. mail.step = "find" /\ Alone /\ TRUE \in BOOLEAN
      BY <1>11 DEF ListOutlook
    <3> QED
      BY <1>7, <2>4, <3>1, <3>2
  <2>5. CASE Go("fail")
    BY <1>5, <1>11, <2>5 DEF ListOutlook
  <2> QED
    BY <1>11, <2>3, <2>4, <2>5 DEF ListOutlook
<1>12. CASE HandleList
    BY <1>5, <1>12 DEF HandleList
<1>13. CASE HandleRead
  <2>1. ASSUME NEW m \in Mail,
               mail' = [Searched EXCEPT !.msg = m,
                                        !.step = IF mail.op = "read" THEN "succeed" ELSE "again"]
        PROVE  MailInv'
    <3> DEFINE s == IF mail.op = "read" THEN "succeed" ELSE "again"
    <3>1. s \in MailSteps /\ s \in {"succeed", "again"}
      BY DEF MailSteps
    <3>2. /\ mail' \in MailRecord
          /\ mail'.backend = mail.backend
          /\ mail'.step = s /\ mail'.op = mail.op
          /\ mail'.max = mail.max /\ mail'.saves = mail.saves /\ mail'.runs = mail.runs
          /\ mail'.found = {} /\ mail'.infos = mail.infos /\ mail'.todo = mail.todo
          /\ mail'.saved = mail.saved /\ mail'.started = mail.started
          /\ mail'.edited = mail.edited
      <4> HIDE DEF s
      <4>1. mail' = [Searched EXCEPT !.msg = m, !.step = s]
        BY <2>1 DEF s
      <4> QED
        BY <1>0, <3>1, <4>1 DEF MailRecord, Searched
    <3>3. /\ mail.step = "read" /\ mail.op # "list"
          /\ UNCHANGED <<box, attached, conn, files, com>>
      BY <1>13 DEF HandleRead, Alone
    <3>4. MailTypes'
      BY <1>0, <3>2, <3>3 DEF MailTypes
    <3>5. Allowed'
      BY <1>0, <3>2, <3>3 DEF Allowed, Operation
    <3>6. Clean' /\ StillListed'
      BY <1>0, <3>1, <3>2, <3>3 DEF Clean, MailHoldsNothing, MailEnded, StillListed
    <3>7. Found'
      <4>1. Limit' \in Nat
        BY <1>0, <3>2 DEF Limit
      <4> QED
        BY <3>2, <4>1, FS_EmptySet DEF Found
    <3> QED
      BY <3>4, <3>5, <3>6, <3>7 DEF MailInv
  <2>2. CASE Go("fail")
    BY <1>5, <1>13, <2>2 DEF HandleRead
  <2>3. mail.found \subseteq Mail
    BY <1>0 DEF MailRecord
  <2> QED
    BY <1>13, <2>1, <2>2, <2>3 DEF HandleRead
<1>14. CASE ReadAgain
  <2>1. ASSUME Readable(mail.msg), NEW l \in Listing(mail.msg),
               mail' = [mail EXCEPT !.step = "save", !.infos = l, !.todo = DOMAIN l]
        PROVE  MailInv'
    <3>1. /\ mail.msg \in Mail /\ mail.step = "again"
          /\ UNCHANGED <<box, attached, conn, files, com>>
      BY <1>9, <1>14, <2>1 DEF Readable, ReadAgain, Alone
    <3>2. /\ l \in Seq(Name) /\ DOMAIN l \in SUBSET Nat
          /\ \A i \in DOMAIN l : i \in DOMAIN attached[mail.msg] /\ l[i] = attached[mail.msg][i]
      <4>1. /\ l \in Seq(Name)
            /\ \A i \in DOMAIN l : i \in DOMAIN attached[mail.msg] /\ l[i] = attached[mail.msg][i]
        BY <1>0, <2>1, <3>1, ListingFacts
      <4>2. DOMAIN l \subseteq Nat
        BY <4>1
      <4> QED
        BY <4>1, <4>2
    <3>3. /\ mail' \in MailRecord
          /\ mail'.backend = mail.backend
          /\ mail'.step = "save" /\ mail'.op = mail.op /\ mail'.filter = mail.filter
          /\ mail'.max = mail.max /\ mail'.saves = mail.saves /\ mail'.runs = mail.runs
          /\ mail'.found = mail.found /\ mail'.infos = l /\ mail'.todo = DOMAIN l
          /\ mail'.saved = mail.saved /\ mail'.started = mail.started
          /\ mail'.unrestricted = mail.unrestricted /\ mail'.edited = mail.edited
          /\ mail'.msg = mail.msg
      <4>1. "save" \in MailSteps
        BY DEF MailSteps
      <4> QED
        BY <1>0, <2>1, <3>2, <4>1 DEF MailRecord
    <3>4. MailTypes'
      BY <1>0, <3>1, <3>3 DEF MailTypes
    <3>5. Allowed' /\ Clean' /\ Found'
      BY <1>0, <3>1, <3>3 DEF Allowed, Clean, MailHoldsNothing, MailEnded, Found, Limit
    <3>6. StillListed'
      BY <1>0, <3>1, <3>2, <3>3 DEF StillListed
    <3> QED
      BY <3>4, <3>5, <3>6 DEF MailInv
  <2>2. CASE Go("fail")
    BY <1>5, <1>14, <2>2 DEF ReadAgain
  <2> QED
    BY <1>14, <2>1, <2>2 DEF ReadAgain
<1>15. CASE SaveAttachment
  <2>1. PICK i \in mail.todo :
           \/ /\ Savable(i)
              /\ Fetchable(mail.msg, i)
              /\ files' = files \cup {PathOf(attached[mail.msg][i])}
              /\ mail' = [mail EXCEPT !.todo = @ \ {i},
                                      !.saved = Append(@, attached[mail.msg][i])]
           \/ mail' = [mail EXCEPT !.todo = @ \ {i}] /\ UNCHANGED files
    BY <1>15 DEF SaveAttachment
  <2>2. /\ mail.step = "save" /\ UNCHANGED <<box, attached, conn, com>>
        /\ mail.todo \subseteq DOMAIN mail.infos /\ i \in DOMAIN mail.infos
        /\ mail.todo \in SUBSET Nat /\ mail.saved \in Seq(Name) /\ mail.saves
    BY <1>0, <1>15 DEF SaveAttachment, MailTypes, MailRecord, Allowed
  <2>3. CASE mail' = [mail EXCEPT !.todo = @ \ {i}] /\ UNCHANGED files
    <3>1. /\ mail' \in MailRecord
          /\ mail'.backend = mail.backend
          /\ mail'.step = "save" /\ mail'.op = mail.op /\ mail'.filter = mail.filter
          /\ mail'.max = mail.max /\ mail'.saves = mail.saves /\ mail'.runs = mail.runs
          /\ mail'.found = mail.found /\ mail'.infos = mail.infos
          /\ mail'.todo = mail.todo \ {i}
          /\ mail'.saved = mail.saved /\ mail'.started = mail.started
          /\ mail'.unrestricted = mail.unrestricted /\ mail'.edited = mail.edited
          /\ mail'.msg = mail.msg
      BY <1>0, <2>2, <2>3 DEF MailRecord
    <3>2. MailTypes'
      BY <1>0, <2>2, <2>3, <3>1 DEF MailTypes
    <3>3. Allowed' /\ Clean' /\ Found'
      BY <1>0, <2>2, <2>3, <3>1 DEF Allowed, Clean, MailHoldsNothing, MailEnded, Found, Limit
    <3>4. StillListed'
      BY <1>0, <2>2, <2>3, <3>1 DEF StillListed
    <3> QED
      BY <3>2, <3>3, <3>4 DEF MailInv
  <2>4. CASE /\ Savable(i)
             /\ Fetchable(mail.msg, i)
             /\ files' = files \cup {PathOf(attached[mail.msg][i])}
             /\ mail' = [mail EXCEPT !.todo = @ \ {i},
                                     !.saved = Append(@, attached[mail.msg][i])]
    <3> DEFINE name == attached[mail.msg][i]
    <3>1. /\ mail.msg \in Mail /\ i \in DOMAIN attached[mail.msg] /\ name \in Name
      <4>1. mail.msg \in Mail /\ i \in DOMAIN attached[mail.msg]
        BY <1>9, <2>4 DEF Fetchable, Readable
      <4>2. attached[mail.msg] \in Seq(Name)
        BY <1>0, <4>1 DEF MailTypes
      <4> QED
        BY <4>1, <4>2
    <3>2. mail.edited \/ name \in AllowedAttachment
      BY <1>0, <2>2, <2>4, <3>1 DEF StillListed, Savable, IsAllowedAttachment
    <3> HIDE DEF name
    <3>3. /\ Append(mail.saved, name) \in Seq(Name)
          /\ ToSet(mail.saved) \subseteq ToSet(Append(mail.saved, name))
      <4>1. Append(mail.saved, name) \in Seq(Name)
        BY <2>2, <3>1
      <4>2. \A k \in DOMAIN mail.saved : /\ k \in DOMAIN Append(mail.saved, name)
                                         /\ Append(mail.saved, name)[k] = mail.saved[k]
        BY <2>2, <3>1
      <4> QED
        BY <4>1, <4>2 DEF ToSet
    <3>4. /\ mail' \in MailRecord
          /\ mail'.backend = mail.backend
          /\ mail'.step = "save" /\ mail'.op = mail.op /\ mail'.filter = mail.filter
          /\ mail'.max = mail.max /\ mail'.saves = mail.saves /\ mail'.runs = mail.runs
          /\ mail'.found = mail.found /\ mail'.infos = mail.infos
          /\ mail'.todo = mail.todo \ {i}
          /\ mail'.saved = Append(mail.saved, name) /\ mail'.started = mail.started
          /\ mail'.unrestricted = mail.unrestricted /\ mail'.edited = mail.edited
          /\ mail'.msg = mail.msg
          /\ files' = files \cup {PathOf(name)}
      <4>1. /\ mail' = [mail EXCEPT !.todo = @ \ {i}, !.saved = Append(@, name)]
            /\ files' = files \cup {PathOf(name)}
        BY <2>4 DEF name
      <4> QED
        BY <1>0, <2>2, <3>3, <4>1 DEF MailRecord
    <3>9. /\ PathOf(name) \in File /\ PathOf(name).name = name
          /\ PathOf(name).outside => name \in Climbing
      BY <3>1, PathOfType
    <3>5. MailTypes'
      <4> HIDE DEF name
      <4> QED
        BY <1>0, <2>2, <3>1, <3>3, <3>4, <3>9 DEF MailTypes
    <3>6. Allowed' /\ Clean' /\ Found'
      BY <1>0, <2>2, <3>4 DEF Allowed, Clean, MailHoldsNothing, MailEnded, Found, Limit
    <3>7. StillListed'
      <4> HIDE DEF name
      <4> QED
        <5>1. \A g \in files' : \/ g \in files
                                \/ g = PathOf(name) /\ (name \in AllowedAttachment \/ mail.edited)
          BY <3>2, <3>4
        <5> HIDE DEF StillListed
        <5>2. \A g \in files : /\ g.name \in AllowedAttachment \/ mail.edited
                               /\ g.outside => g.name \in Climbing
          BY <1>0 DEF StillListed
        <5>3. \A g \in files' : /\ g.name \in AllowedAttachment \/ mail'.edited
                                /\ g.outside => g.name \in Climbing
          BY <3>4, <3>9, <5>1, <5>2
        <5> QED
          BY <1>0, <2>2, <3>4, <5>3 DEF StillListed
    <3> QED
      BY <3>5, <3>6, <3>7 DEF MailInv
  <2> QED
    BY <2>1, <2>3, <2>4
<1>16. CASE EndExtract
  <2> DEFINE s == IF mail.op = "execute" THEN "start" ELSE "succeed"
  <2>1. /\ mail.step = "save" /\ mail.todo = {} /\ UNCHANGED <<box, attached, conn, files, com>>
        /\ s \in MailSteps /\ s \in {"start", "succeed"} /\ <<>> \in Seq(Name)
        /\ mail' = [mail EXCEPT !.infos = <<>>, !.step = s]
    BY <1>16 DEF EndExtract, Alone, MailSteps
  <2>2. /\ mail' \in MailRecord
        /\ mail'.backend = mail.backend
        /\ mail'.step = s /\ mail'.op = mail.op /\ mail'.filter = mail.filter
        /\ mail'.max = mail.max /\ mail'.saves = mail.saves /\ mail'.runs = mail.runs
        /\ mail'.found = mail.found /\ mail'.infos = <<>> /\ mail'.todo = {}
        /\ mail'.saved = mail.saved /\ mail'.started = mail.started
        /\ mail'.unrestricted = mail.unrestricted /\ mail'.edited = mail.edited
    <3> HIDE DEF s
    <3> QED
      BY <1>0, <2>1 DEF MailRecord
  <2>3. MailTypes'
    BY <1>0, <2>1, <2>2 DEF MailTypes
  <2>4. Allowed' /\ Clean' /\ Found'
    BY <1>0, <2>1, <2>2 DEF Allowed, Clean, MailHoldsNothing, MailEnded, Found, Limit
  <2>5. StillListed'
    BY <1>0, <2>1, <2>2 DEF StillListed
  <2> QED
    BY <2>3, <2>4, <2>5 DEF MailInv
<1>17. CASE ExecuteFiles
  <2>1. PICK some \in SUBSET {n \in ToSet(mail.saved) : IsAllowedExecutable(n)} :
            mail' = [mail EXCEPT !.step = "succeed", !.started = some]
    BY <1>17 DEF ExecuteFiles
  <2>2. /\ some \subseteq ToSet(mail.saved) /\ some \subseteq AllowedExecutable
        /\ some \in SUBSET Name
        /\ mail.step = "start" /\ mail.runs /\ UNCHANGED <<box, attached, conn, files, com>>
        /\ "succeed" \in MailSteps
    <3>1. some \subseteq ToSet(mail.saved) /\ some \subseteq AllowedExecutable
      BY DEF IsAllowedExecutable
    <3>2. ToSet(mail.saved) \subseteq Name
      BY <1>0 DEF ToSet, MailRecord
    <3>3. mail.step = "start" /\ mail.runs /\ UNCHANGED <<box, attached, conn, files, com>>
      BY <1>0, <1>17 DEF ExecuteFiles, Allowed, Alone
    <3> QED
      BY <3>1, <3>2, <3>3 DEF MailSteps
  <2>3. /\ mail' \in MailRecord
        /\ mail'.backend = mail.backend
        /\ mail'.step = "succeed" /\ mail'.op = mail.op /\ mail'.filter = mail.filter
        /\ mail'.max = mail.max /\ mail'.saves = mail.saves /\ mail'.runs = mail.runs
        /\ mail'.found = mail.found /\ mail'.infos = mail.infos /\ mail'.todo = mail.todo
        /\ mail'.saved = mail.saved /\ mail'.started = some
        /\ mail'.unrestricted = mail.unrestricted /\ mail'.edited = mail.edited
    BY <1>0, <2>1, <2>2 DEF MailRecord
  <2>4. MailTypes'
    BY <1>0, <2>2, <2>3 DEF MailTypes
  <2>5. Allowed' /\ Clean' /\ Found'
    BY <1>0, <2>2, <2>3 DEF Allowed, Clean, MailHoldsNothing, MailEnded, Found, Limit
  <2>6. StillListed'
    BY <1>0, <2>2, <2>3 DEF StillListed
  <2> QED
    BY <2>4, <2>5, <2>6 DEF MailInv
<1>18. CASE Finish
  <2>1. /\ UNCHANGED <<box, attached, files>>
        /\ conn' \subseteq {"unknown"}
        /\ conn' \in SUBSET {"client", "unknown", "app", "ns"}
        /\ \/ Go("completed")
           \/ Go("failed")
    <3>1. conn \subseteq {"client", "unknown", "app", "ns"}
      BY <1>0 DEF MailTypes
    <3>2. Go("completed") \/ Go("failed")
      BY <1>18 DEF Finish
    <3>3. UNCHANGED <<box, attached, files>> /\ conn' = conn \ {"client", "app", "ns"}
      BY <1>18 DEF Finish, Disconnect
    <3>4. conn' \subseteq {"unknown"} /\ conn' \in SUBSET {"client", "unknown", "app", "ns"}
      BY <3>1, <3>3
    <3> QED
      BY <3>2, <3>3, <3>4
  <2>2. com' \in [Thread -> 0..MaxApartments]
    BY <1>0, <1>18, <1>u DEF Finish, MailTypes
  <2>3. CASE Go("completed")
    BY <1>1, <2>1, <2>2, <2>3 DEF Go, MailSteps
  <2>4. CASE Go("failed")
    BY <1>1, <2>1, <2>2, <2>4 DEF Go, MailSteps
  <2> QED
    BY <2>1, <2>3, <2>4
<1>20. CASE OutlookPanics
    BY <1>5, <1>20 DEF OutlookPanics
<1> QED
    BY <1>2, <1>3, <1>4, <1>6, <1>10, <1>11, <1>12, <1>13, <1>14, <1>15, <1>16, <1>17, <1>18,
       <1>19, <1>20
    DEF MailStep

\* Without a handler all is as the invariant says.
LEMMA MailIdle ==
    /\ MailInit => MailInv
    /\ MailInv /\ EndMail => MailInv'
<1> USE MailAssumption
<1>1. \A m \in Mail : IsSubSeqOf(Attached[m], Attached[m])
    BY SubSeqOf
<1>2. ToSet(<<>>) = {}
    BY DEF ToSet
<1>0. NoApartment \in [Thread -> 0..MaxApartments]
    BY DEF NoApartment
<1>3. ASSUME MailInit PROVE MailInv
  <2>1. MailTypes
    BY <1>0, <1>1, <1>3, NoMailType DEF MailInit, MailTypes
  <2>2. Allowed /\ Found /\ StillListed /\ Clean
    BY <1>3, NoMailType, FS_EmptySet
    DEF MailInit, Allowed, Found, Limit, StillListed, Clean, MailHoldsNothing, MailEnded
  <2> QED
    BY <2>1, <2>2 DEF MailInv
<1>4. ASSUME MailInv, EndMail PROVE MailInv'
  <2>1. MailTypes'
    BY <1>1, <1>4, NoMailType DEF EndMail, MailInv, MailTypes
  <2>2. Allowed' /\ Found' /\ StillListed' /\ Clean'
    BY <1>4, NoMailType, FS_EmptySet
    DEF EndMail, Allowed, Found, Limit, StillListed, Clean, MailHoldsNothing, MailEnded
  <2> QED
    BY <2>1, <2>2 DEF MailInv
<1> QED
    BY <1>3, <1>4

\* Whatever happens to email_receive preserves its invariant.
LEMMA MailMoves ==
    ASSUME MailInv, on \in Thread, MailMove
    PROVE  MailInv'
<1>2. CASE ProcessDies
  <2>1. NoApartment \in [Thread -> 0..MaxApartments]
    BY MailAssumption DEF NoApartment
  <2> QED
    BY <1>2, <2>1 DEF ProcessDies, MailInv, MailTypes, Allowed, Found, Limit, StillListed, Clean,
                      MailHoldsNothing, MailEnded
<1>1. CASE UNCHANGED mailVars
    BY <1>1 DEF mailVars, MailInv, MailTypes, Allowed, Found, Limit, StillListed, Clean,
                MailHoldsNothing, MailEnded
<1> QED
    BY <1>1, <1>2, MailBegins, MailGoesOn, MailIdle DEF MailMove

\* What the invariant says of the handler.
LEMMA MailReports ==
    MailInv /\ on \in Thread => MailTypeOK /\ MailIsAsAsked /\ MailHoldsNothing
<1> SUFFICES ASSUME MailInv, on \in Thread PROVE MailTypeOK /\ MailIsAsAsked /\ MailHoldsNothing
    OBVIOUS
<1>0. MailTypes /\ Found /\ StillListed /\ Clean /\ mail \in MailRecord
    BY DEF MailInv, MailTypes
<1>1. DOMAIN mail = DOMAIN NoMail
    BY <1>0 DEF MailRecord, NoMail
<1>2. ToSet(mail.infos) \subseteq Name /\ ToSet(mail.saved) \subseteq Name
    BY <1>0 DEF MailRecord, ToSet
<1>3. MailTypeOK
    BY <1>0, <1>1, <1>2 DEF MailTypeOK, MailTypes, MailRecord
<1> QED
    BY <1>0, <1>3 DEF MailIsAsAsked, Found, StillListed, Clean

-----------------------------------------------------------------------------
(* The executor: what each step of the agent is to each of its parts *)

\* A step of the agent is a step of one handler at most, or ends them all.
LEMMA HandlersMove ==
    ASSUME AgentNext
    PROVE  ProbeMove /\ ActMove /\ MailMove
<1>1. ASSUME NEW a, Begin(a)
      PROVE  ProbeMove /\ ActMove /\ MailMove
    BY <1>1 DEF Begin, ProbeMove, ActMove, MailMove
<1>2. ASSUME UNCHANGED Handlers
      PROVE  ProbeMove /\ ActMove /\ MailMove
    BY <1>2 DEF Handlers, ProbeMove, ActMove, MailMove
<1>3. CASE \E a \in Registered \cup {"unknown"}, u \in User \cup {"self"} : Refuse(a, u)
    BY <1>2, <1>3 DEF Refuse, Handlers
<1>4. CASE \E a \in Registered : Execute(a) \/ \E u \in User : ExecuteWithImpersonation(a, u)
    BY <1>1, <1>4 DEF Execute, ExecuteWithImpersonation
<1>5. CASE HandlerStep
    BY <1>5 DEF HandlerStep, ProbeMove, ActMove, MailMove
<1>6. CASE (\E t \in Thread : Move(t)) \/ Return \/ RevertFails
    BY <1>2, <1>6 DEF Move, Return, RevertFails
<1>8. CASE Panic
    BY <1>8 DEF Panic, ProbeMove, ActMove, MailMove
<1>7. CASE Report \/ Restart
    BY <1>7 DEF Report, Restart, ProbeMove, ActMove, MailMove
<1> QED
    BY <1>3, <1>4, <1>5, <1>6, <1>7, <1>8 DEF AgentNext

\* A job is begun with or without another user, or refused.
LEMMA ExecBegins ==
    ASSUME ExecInv, NEW a \in Registered \cup {"unknown"}, NEW u \in User \cup {"self"},
           \/ Refuse(a, u)
           \/ u = "self" /\ Execute(a)
           \/ u # "self" /\ ExecuteWithImpersonation(a, u)
    PROVE  ExecInv'
<1> USE ExecutorAssumption
<1>0. /\ job \in JobRecord /\ on \in Thread /\ as \in SUBSET Thread /\ tokens \in SUBSET User
      /\ job.step = "idle" /\ tokens = {} /\ (as = {} \/ "as" \in job.strayed)
    BY DEF ExecInv, ExecTypes, Impersonating, Refuse, Execute, ExecuteWithImpersonation
<1>1. PICK s \in {"failed", "handler"} : job' = NewJob(a, u, s) /\ (s = "failed" => Refuse(a, u))
    BY DEF Refuse, Execute, ExecuteWithImpersonation
<1>2. /\ job' \in JobRecord
      /\ job'.step = s /\ job'.runAs = u /\ job'.strayed = job.strayed
    BY <1>0, <1>1 DEF NewJob, JobRecord
<1>3. CASE Refuse(a, u) \/ (u = "self" /\ Execute(a))
  <2>1. /\ UNCHANGED <<on, as, tokens>>
        /\ u = "self" \/ job'.step # "handler"
    <3>1. CASE Refuse(a, u)
      BY <1>2, <3>1 DEF Refuse, NewJob, JobRecord
    <3>2. CASE u = "self" /\ Execute(a)
      BY <3>2 DEF Execute
    <3> QED
      BY <1>3, <3>1, <3>2
  <2>2. ExecTypes' /\ Impersonating'
    BY <1>0, <1>2, <2>1 DEF ExecTypes, Impersonating
  <2> QED
    BY <2>2 DEF ExecInv
<1>4. CASE u # "self" /\ ExecuteWithImpersonation(a, u)
  <2>1. /\ on' = on /\ tokens' = tokens \cup {u} /\ as' = as \cup {on}
        /\ job'.step = "handler"
    <3>1. job' = NewJob(a, u, "handler")
      BY <1>4 DEF ExecuteWithImpersonation
    <3>2. job'.step = "handler"
      BY <1>0, <3>1 DEF NewJob, JobRecord
    <3> QED
      BY <1>4, <3>2 DEF ExecuteWithImpersonation, Impersonate
  <2>2. ExecTypes' /\ Impersonating'
    BY <1>0, <1>2, <1>4, <2>1 DEF ExecTypes, Impersonating
  <2> QED
    BY <2>2 DEF ExecInv
<1> QED
    BY <1>3, <1>4

\* Every step of the agent preserves the invariant of the executor.
LEMMA ExecMoves ==
    ASSUME ExecInv, AgentNext
    PROVE  ExecInv'
<1> USE ExecutorAssumption
<1>0. /\ job \in JobRecord /\ on \in Thread /\ as \in SUBSET Thread /\ tokens \in SUBSET User
      /\ Impersonating
    BY DEF ExecInv, ExecTypes
<1>1. CASE \E a \in Registered \cup {"unknown"}, u \in User \cup {"self"} : Refuse(a, u)
    BY <1>1, ExecBegins
<1>2. CASE \E a \in Registered : Execute(a) \/ \E u \in User : ExecuteWithImpersonation(a, u)
    BY <1>2, ExecBegins
<1>3. CASE HandlerStep
  <2>1. UNCHANGED <<job, on, as, tokens>> /\ job.step = "handler"
    BY <1>3 DEF HandlerStep, execVars
  <2>2. ExecTypes' /\ Impersonating'
    BY <1>0, <2>1 DEF ExecTypes, Impersonating
  <2> QED
    BY <2>2 DEF ExecInv
<1>4. CASE \E t \in Thread : Move(t)
  <2>1. PICK t \in Thread : Move(t)
    BY <1>4
  <2>2. /\ job' \in JobRecord
        /\ job'.step = "handler" /\ job.step = "handler" /\ job'.runAs = job.runAs
        /\ (job'.runAs # "self" => "as" \in job'.strayed) /\ job.strayed \subseteq job'.strayed
        /\ on' = t /\ UNCHANGED <<as, tokens>>
    BY <1>0, <2>1 DEF Move, JobRecord
  <2>3. ExecTypes' /\ Impersonating'
    BY <1>0, <2>2 DEF ExecTypes, Impersonating
  <2> QED
    BY <2>3 DEF ExecInv
<1>5. Answer \in {"completed", "failed"}
    BY DEF Answer
<1>6. CASE Return
  <2>1. /\ job.step = "handler" /\ on' = on
        /\ job' = [job EXCEPT !.step = Answer]
        /\ IF job.runAs = "self" THEN UNCHANGED <<as, tokens>>
           ELSE as' = as \ {on} /\ tokens' = tokens \ {job.runAs}
    BY <1>6 DEF Return, Revert
  <2>2. /\ job' \in JobRecord
        /\ job'.step \in {"completed", "failed"} /\ job'.runAs = job.runAs
        /\ job'.strayed = job.strayed
    <3> HIDE DEF Answer
    <3> QED
      BY <1>0, <1>5, <2>1 DEF JobRecord
  <2>3. ExecTypes' /\ Impersonating'
    BY <1>0, <2>1, <2>2 DEF ExecTypes, Impersonating
  <2> QED
    BY <2>3 DEF ExecInv
<1>7. CASE RevertFails
  <2>1. /\ job.step = "handler" /\ UNCHANGED <<as, on>>
        /\ job' = [job EXCEPT !.step = Answer, !.strayed = @ \cup {"as"}]
        /\ tokens' = tokens \ {job.runAs}
    BY <1>7 DEF RevertFails
  <2>2. /\ job' \in JobRecord
        /\ job'.step \in {"completed", "failed"} /\ job'.runAs = job.runAs
        /\ "as" \in job'.strayed
    BY <1>0, <1>5, <2>1 DEF JobRecord
  <2>3. ExecTypes' /\ Impersonating'
    BY <1>0, <2>1, <2>2 DEF ExecTypes, Impersonating
  <2> QED
    BY <2>3 DEF ExecInv
<1>8. CASE Panic
  <2>1. /\ job' \in JobRecord
        /\ job'.step = "dead" /\ as' = {} /\ tokens' = {} /\ on' = on
        /\ act'.step = "panic" \/ mail'.step = "panic"
    BY <1>0, <1>8 DEF Panic, ProcessDies, JobRecord, actVars
  <2>2. ExecTypes' /\ Impersonating'
    BY <1>0, <2>1 DEF ExecTypes, Impersonating
  <2> QED
    BY <2>2 DEF ExecInv
<1>9. CASE Report \/ Restart
  <2>1. /\ job.step \in {"completed", "failed", "dead"}
        /\ UNCHANGED <<on, as, tokens>>
        /\ \/ job' = [NoJob EXCEPT !.strayed = job.strayed]
           \/ job.step = "dead" /\ job' = NoJob
    BY <1>9 DEF Report, Restart
  <2>2. /\ job' \in JobRecord
        /\ job'.step = "idle" /\ job'.runAs = "self"
        /\ job'.strayed = job.strayed \/ job.step = "dead"
    <3>1. /\ NoJob \in JobRecord /\ NoJob.step = "idle" /\ NoJob.runAs = "self"
          /\ job.strayed \in SUBSET {"as", "com"}
      BY <1>0 DEF NoJob, JobRecord
    <3> HIDE DEF NoJob
    <3>2. CASE job' = [NoJob EXCEPT !.strayed = job.strayed]
      BY <3>1, <3>2 DEF JobRecord
    <3>3. CASE job.step = "dead" /\ job' = NoJob
      BY <3>1, <3>3
    <3> QED
      BY <2>1, <3>2, <3>3
  <2>3. ExecTypes' /\ Impersonating'
    BY <1>0, <2>1, <2>2 DEF ExecTypes, Impersonating
  <2> QED
    BY <2>3 DEF ExecInv
<1> QED
    BY <1>1, <1>2, <1>3, <1>4, <1>6, <1>7, <1>8, <1>9 DEF AgentNext

\* A handler takes steps only once it has begun.
LEMMA HandlerHasBegun ==
    /\ ProbeStep => probe.step # "idle"
    /\ ActStep => act.step # "idle"
    /\ MailStep => mail.step # "idle"
<1>1. ProbeStep => probe.step # "idle"
    BY DEF ProbeStep, CheckProcessWindows, CheckProcessUnix, CheckProcessPsAux, StatFile, HashFile,
           QueryADUser, FindHistoryFiles, ReadHistoryFile, CaptureEnds, Change, Type, At
<1>2. ActStep => act.step # "idle"
    BY DEF ActStep, LeaveLoop, Disappear, CreateFile, SizePanic, TouchFile, DeleteFile, RenameFile,
           CleanFiles, SpawnProcess, KillProcesses, SendEmail, SendNothing, VisitURL, EndSimulation,
           InLoop
<1>3. MailStep => mail.step # "idle"
    BY DEF MailStep, Arrive, Vanish, TakeOut, ConnectIMAP, InitializeCOM, CreateOutlook, Dispatch,
           ListIMAP, ListOutlook, HandleList, HandleRead, ReadAgain, SaveAttachment, EndExtract,
           ExecuteFiles, OutlookPanics, InHand, Finish, Looking
<1> QED
    BY <1>1, <1>2, <1>3

\* No two handlers are for the same action.
LEMMA ActionsApart ==
    /\ ObservationActions \cap SimulationActions = {}
    /\ "email_receive" \notin ObservationActions \cup SimulationActions
    BY DEF ObservationActions, States, SimulationActions

\* A handler that has ended is not in Outlook.
LEMMA EndedAlone ==
    ASSUME OneHandler, ProbeEnded \/ ActEnded \/ MailEnded
    PROVE  mail.step \in {"idle", "completed", "failed"}
<1>1. CASE MailEnded
    BY <1>1 DEF MailEnded
<1>2. CASE ProbeEnded
  <2>1. job.action \in ObservationActions
    BY <1>2 DEF ProbeEnded, OneHandler
  <2> QED
    BY <2>1, ActionsApart DEF OneHandler
<1>3. CASE ActEnded
  <2>1. job.action \in SimulationActions
    BY <1>3 DEF ActEnded, OneHandler
  <2> QED
    BY <2>1, ActionsApart DEF OneHandler
<1> QED
    BY <1>1, <1>2, <1>3

\* Every step of the agent leaves at most the handler of the job at work.
LEMMA OneHandlerMoves ==
    ASSUME AgentInv, AgentNext
    PROVE  OneHandler'
<1>0. job \in JobRecord /\ OneHandler
    BY DEF AgentInv, ExecInv, ExecTypes
<1>1. ASSUME NEW a, NEW u, Refuse(a, u) PROVE OneHandler'
  <2>1. job'.step = "failed"
    BY <1>0, <1>1 DEF Refuse, NewJob, JobRecord
  <2>2. UNCHANGED <<probe, act, mail>> /\ job.step = "idle"
    BY <1>1 DEF Refuse, Handlers, probeVars, actVars, mailVars
  <2> QED
    BY <1>0, <2>1, <2>2 DEF OneHandler
<1>2. ASSUME NEW a \in Registered, NEW u, job.step = "idle", job' = NewJob(a, u, "handler"), Begin(a)
      PROVE  OneHandler'
  <2>1. job'.step = "handler" /\ job'.action = a
    BY <1>0, <1>2 DEF NewJob, JobRecord
  <2>2. /\ probe' = probe \/ a \in ObservationActions
        /\ act' = act \/ a \in SimulationActions
        /\ mail' = mail \/ a = "email_receive"
    BY <1>2 DEF Begin, probeVars, actVars, mailVars
  <2> QED
    BY <1>0, <1>2, <2>1, <2>2 DEF OneHandler
<1>3. CASE HandlerStep
  <2>1. /\ job' = job /\ job.step = "handler"
        /\ probe' = probe \/ probe.step # "idle"
        /\ act' = act \/ act.step # "idle"
        /\ mail' = mail \/ mail.step # "idle"
    BY <1>3, HandlerHasBegun DEF HandlerStep, execVars, probeVars, actVars, mailVars
  <2> QED
    BY <1>0, <2>1 DEF OneHandler
<1>4. ASSUME NEW t \in Thread, Move(t) PROVE OneHandler'
  <2>1. /\ job'.step = job.step /\ job'.action = job.action
        /\ UNCHANGED <<probe, act, mail>>
    BY <1>0, <1>4 DEF Move, JobRecord, Handlers, probeVars, actVars, mailVars
  <2> QED
    BY <1>0, <2>1 DEF OneHandler
<1>5. CASE Return \/ RevertFails
  <2>1. mail.step \in {"idle", "completed", "failed"}
    BY <1>0, <1>5, EndedAlone DEF Return, RevertFails
  <2>2. UNCHANGED <<probe, act, mail>> /\ job.step = "handler"
    BY <1>5 DEF Return, RevertFails, Handlers, probeVars, actVars, mailVars
  <2>3. job'.action = job.action /\ job'.step \in {"completed", "failed"}
    <3>1. Answer \in {"completed", "failed"}
      BY DEF Answer
    <3>2. \/ job' = [job EXCEPT !.step = Answer]
          \/ job' = [job EXCEPT !.step = Answer, !.strayed = @ \cup {"as"}]
      BY <1>5 DEF Return, RevertFails
    <3> HIDE DEF Answer
    <3> QED
      BY <1>0, <3>1, <3>2 DEF JobRecord
  <2> QED
    BY <1>0, <2>1, <2>2, <2>3 DEF OneHandler
<1>6. CASE Panic
  <2>1. /\ job'.step = "dead" /\ job'.action = job.action
        /\ UNCHANGED <<probe, act, mail>> /\ job.step = "handler"
    BY <1>0, <1>6 DEF Panic, ProcessDies, JobRecord, probeVars, actVars
  <2> QED
    BY <1>0, <2>1 DEF OneHandler
<1>7. CASE Report \/ Restart
  <2>1. probe' = NoProbe /\ act' = NoAct /\ mail' = NoMail
    BY <1>7 DEF Report, Restart, EndProbe, EndAct, EndMail
  <2>2. job'.step = "idle"
    <3>1. job' = [NoJob EXCEPT !.strayed = job.strayed] \/ job' = NoJob
      BY <1>7 DEF Report, Restart
    <3> QED
      BY <3>1 DEF NoJob
  <2>3. probe'.step = "idle" /\ act'.step = "idle" /\ mail'.step = "idle"
    BY <2>1 DEF NoProbe, NoAct, NoMail
  <2> QED
    BY <2>2, <2>3 DEF OneHandler
<1>8. CASE \E a \in Registered \cup {"unknown"}, u \in User \cup {"self"} : Refuse(a, u)
    BY <1>1, <1>8
<1>9. CASE \E a \in Registered : Execute(a) \/ \E u \in User : ExecuteWithImpersonation(a, u)
    BY <1>2, <1>9 DEF Execute, ExecuteWithImpersonation
<1> HIDE DEF OneHandler
<1> QED
    BY <1>3, <1>4, <1>5, <1>6, <1>7, <1>8, <1>9 DEF AgentNext

\* Between CoInitialize and CoUninitialize a handler stays in Outlook, and COM is
\* left alone.
LEMMA StaysInOutlook ==
    ASSUME mail \in MailRecord, MailStep, ~InitializeCOM, ~CreateOutlook, ~Finish
    PROVE  com' = com /\ (InOutlook => InOutlook')
<1> DEFINE Stays == com' = com /\ (InOutlook => InOutlook')
           Inside == MailSteps \ {"idle", "connect", "completed", "failed"}
<1>1. ASSUME mail'.backend = mail.backend, mail'.step \in Inside, com' = com PROVE Stays
    BY <1>1 DEF InOutlook
<1>2. ASSUME mail' = mail, com' = com PROVE Stays
    BY <1>2 DEF InOutlook
<1>3. CASE Arrive \/ Vanish
    BY <1>2, <1>3 DEF Arrive, Vanish
<1>4. CASE TakeOut
  <2>1. mail'.backend = mail.backend /\ mail'.step = mail.step /\ com' = com
    BY <1>4 DEF TakeOut, MailRecord
  <2> QED
    BY <2>1 DEF InOutlook
<1>5. CASE ConnectIMAP
    BY <1>5 DEF ConnectIMAP, InOutlook
<1>6. ASSUME NEW s \in Inside, Go(s), com' = com PROVE Stays
  <2>1. mail'.backend = mail.backend /\ mail'.step = s
    BY <1>6 DEF Go, MailRecord
  <2> QED
    BY <1>1, <1>6, <2>1
<1>7. {"find", "fail", "read", "again", "save", "start", "succeed", "panic"} \subseteq Inside
    BY DEF MailSteps
<1>8. CASE Dispatch
    BY <1>6, <1>7, <1>8 DEF Dispatch, Alone
<1>9. CASE HandleList \/ OutlookPanics
    BY <1>6, <1>7, <1>9 DEF HandleList, OutlookPanics, Alone
<1>10. ASSUME NEW s \in Inside, mail'.step = s, mail'.backend = mail.backend, com' = com
       PROVE  Stays
    BY <1>1, <1>10
<1>11. CASE ListIMAP
    BY <1>11 DEF ListIMAP, Alone, InOutlook
<1>12. CASE ListOutlook
  <2>1. com' = com
    BY <1>12 DEF ListOutlook, Alone
  <2>2. ASSUME NEW F, mail' = [mail EXCEPT !.step = "read", !.found = F] PROVE Stays
    BY <1>1, <1>7, <2>1, <2>2 DEF MailRecord
  <2>3. ASSUME NEW F, mail' = [mail EXCEPT !.step = "read", !.found = F, !.unrestricted = TRUE]
        PROVE  Stays
    BY <1>1, <1>7, <2>1, <2>3 DEF MailRecord
  <2> HIDE DEF Stays
  <2>4. Stays
    BY <1>6, <1>7, <1>12, <2>1, <2>2, <2>3 DEF ListOutlook
  <2> QED
    BY <2>4 DEF Stays
<1>13. CASE HandleRead
  <2>1. com' = com
    BY <1>13 DEF HandleRead, Alone
  <2>2. ASSUME NEW m, NEW s \in Inside, mail' = [Searched EXCEPT !.msg = m, !.step = s] PROVE Stays
    BY <1>1, <2>1, <2>2 DEF MailRecord, Searched
  <2> HIDE DEF Stays
  <2>3. (IF mail.op = "read" THEN "succeed" ELSE "again") \in Inside
    BY <1>7
  <2>4. Stays
    BY <1>6, <1>7, <1>13, <2>1, <2>2, <2>3 DEF HandleRead
  <2> QED
    BY <2>4 DEF Stays
<1>14. CASE ReadAgain
  <2>1. com' = com
    BY <1>14 DEF ReadAgain, Alone
  <2>2. ASSUME NEW l, mail' = [mail EXCEPT !.step = "save", !.infos = l, !.todo = DOMAIN l]
        PROVE  Stays
    BY <1>1, <1>7, <2>1, <2>2 DEF MailRecord
  <2> HIDE DEF Stays
  <2>4. Stays
    BY <1>6, <1>7, <1>14, <2>1, <2>2 DEF ReadAgain
  <2> QED
    BY <2>4 DEF Stays
<1>15. CASE SaveAttachment
  <2>1. com' = com /\ mail.step = "save"
    BY <1>15 DEF SaveAttachment
  <2>2. ASSUME NEW T, mail' = [mail EXCEPT !.todo = T] PROVE Stays
    BY <1>1, <1>7, <2>1, <2>2 DEF MailRecord
  <2>3. ASSUME NEW T, NEW S, mail' = [mail EXCEPT !.todo = T, !.saved = S] PROVE Stays
    BY <1>1, <1>7, <2>1, <2>3 DEF MailRecord
  <2> HIDE DEF Stays
  <2>4. Stays
    BY <1>15, <2>2, <2>3 DEF SaveAttachment
  <2> QED
    BY <2>4 DEF Stays
<1>16. CASE EndExtract
  <2>1. com' = com
    BY <1>16 DEF EndExtract, Alone
  <2>2. ASSUME NEW s \in Inside, mail' = [mail EXCEPT !.infos = <<>>, !.step = s] PROVE Stays
    BY <1>1, <2>1, <2>2 DEF MailRecord
  <2> HIDE DEF Stays
  <2>3. (IF mail.op = "execute" THEN "start" ELSE "succeed") \in Inside
    BY <1>7
  <2>4. Stays
    BY <1>16, <2>2, <2>3 DEF EndExtract
  <2> QED
    BY <2>4 DEF Stays
<1>17. CASE ExecuteFiles
  <2>1. com' = com
    BY <1>17 DEF ExecuteFiles, Alone
  <2>2. ASSUME NEW S, mail' = [mail EXCEPT !.step = "succeed", !.started = S] PROVE Stays
    BY <1>1, <1>7, <2>1, <2>2 DEF MailRecord
  <2> HIDE DEF Stays
  <2>4. Stays
    BY <1>17, <2>2 DEF ExecuteFiles
  <2> QED
    BY <2>4 DEF Stays
<1> HIDE DEF Stays
<1> QED
    BY <1>3, <1>4, <1>5, <1>8, <1>9, <1>11, <1>12, <1>13, <1>14, <1>15, <1>16, <1>17
    DEF MailStep, Stays

\* What a step of email_receive makes of the apartments of its thread.
LEMMA ApartmentsGoOn ==
    ASSUME mail \in MailRecord, com \in [Thread -> 0..MaxApartments], MailStep, on \in Thread,
           on' = on, \A t \in Thread : com[t] # 0 => t = on /\ com[t] = 1 /\ InOutlook
    PROVE  \A t \in Thread : com'[t] # 0 => t = on' /\ com'[t] = 1 /\ InOutlook'
<1> USE MailAssumption
<1>1. ASSUME Uninitialize, InOutlook
      PROVE  \A t \in Thread : com'[t] = 0
    BY <1>1 DEF Uninitialize
<1>2. CASE InitializeCOM
  <2>1. ~InOutlook /\ mail.backend = "outlook" /\ Go("create")
    BY <1>2 DEF InitializeCOM, InOutlook
  <2>2. mail'.step = "create" /\ mail'.backend = "outlook"
    BY <2>1 DEF Go, MailRecord
  <2>3. com' = com \/ com' = [com EXCEPT ![on] = @ + 1]
    BY <1>2 DEF InitializeCOM
  <2>4. InOutlook'
    BY <2>2 DEF InOutlook
  <2> QED
    BY <2>1, <2>3, <2>4
<1>3. CASE CreateOutlook
  <2>1. CASE Go("dispatch") /\ com' = com
    <3>1. mail'.step = "dispatch" /\ mail'.backend = mail.backend
      BY <2>1 DEF Go, MailRecord
    <3> QED
      BY <2>1, <3>1 DEF InOutlook
  <2>2. CASE Uninitialize
    <3>1. CASE InOutlook
      BY <1>1, <2>2, <3>1
    <3>2. CASE ~InOutlook
      BY <2>2, <3>2 DEF Uninitialize
    <3> QED
      BY <3>1, <3>2
  <2> QED
    BY <1>3, <2>1, <2>2 DEF CreateOutlook
<1>4. CASE Finish
  <2>1. CASE InOutlook
    <3>1. Uninitialize
      BY <1>4, <2>1 DEF Finish, InOutlook
    <3> QED
      BY <1>1, <2>1, <3>1
  <2>2. CASE ~InOutlook
    BY <1>4, <2>2 DEF Finish, Uninitialize
  <2> QED
    BY <2>1, <2>2
<1>5. CASE ~InitializeCOM /\ ~CreateOutlook /\ ~Finish
    BY <1>5, StaysInOutlook
<1> QED
    BY <1>2, <1>3, <1>4, <1>5

\* Every step of the agent keeps COM to the thread that works in Outlook, as long
\* as no goroutine changes its thread there.
LEMMA ApartmentsMove ==
    ASSUME AgentInv, AgentNext
    PROVE  Apartments'
<1>0. /\ job \in JobRecord /\ mail \in MailRecord /\ on \in Thread
      /\ com \in [Thread -> 0..MaxApartments] /\ OneHandler /\ Apartments
    BY DEF AgentInv, ExecInv, ExecTypes, MailInv, MailTypes
<1> DEFINE Alike == \A t \in Thread : com[t] # 0 => t = on /\ com[t] = 1 /\ InOutlook
<1>1. ASSUME com' = com, mail' = mail, on' = on,
             job'.step # "dead" \/ job.step = "dead",
             job.strayed \subseteq job'.strayed
      PROVE  Apartments'
    BY <1>0, <1>1 DEF Apartments, InOutlook
<1>2. ASSUME com' = com, NoApartment = com, job'.step # "dead" \/ com' = NoApartment
      PROVE  Apartments'
    BY <1>2 DEF Apartments, NoApartment
<1>3. ASSUME ~InOutlook, "com" \notin job.strayed PROVE com = NoApartment
    BY <1>0, <1>3 DEF Apartments, NoApartment
<1>4. ASSUME NEW a, NEW u, Refuse(a, u) PROVE Apartments'
  <2>1. /\ job'.step = "failed" /\ job'.strayed = job.strayed
        /\ com' = com /\ mail' = mail /\ on' = on
    BY <1>0, <1>4 DEF Refuse, NewJob, JobRecord, Handlers, mailVars
  <2> QED
    BY <1>1, <2>1
<1>5. ASSUME NEW a, NEW u, job.step = "idle", job' = NewJob(a, u, "handler"), Begin(a)
      PROVE  Apartments'
  <2>1. job'.step = "handler" /\ job'.strayed = job.strayed
    BY <1>0, <1>5 DEF NewJob, JobRecord
  <2>2. ~InOutlook /\ com' = com
    BY <1>0, <1>5 DEF OneHandler, InOutlook, Begin, BeginMail, mailVars
  <2>3. CASE "com" \in job.strayed
    BY <2>1, <2>3 DEF Apartments
  <2>4. CASE "com" \notin job.strayed
    BY <1>2, <1>3, <2>1, <2>2, <2>4
  <2> QED
    BY <2>3, <2>4
<1>6. CASE HandlerStep
  <2>1. job' = job /\ on' = on /\ job.step = "handler"
    BY <1>6 DEF HandlerStep, execVars
  <2>2. CASE UNCHANGED mailVars
    BY <1>1, <2>1, <2>2 DEF mailVars
  <2>3. CASE MailStep
    <3>1. CASE "com" \in job.strayed
      BY <2>1, <3>1 DEF Apartments
    <3>2. CASE "com" \notin job.strayed
      <4>1. \A t \in Thread : com'[t] # 0 => t = on' /\ com'[t] = 1 /\ InOutlook'
        BY <1>0, <2>1, <2>3, <3>2, ApartmentsGoOn DEF Apartments
      <4> QED
        BY <2>1, <4>1 DEF Apartments
    <3> QED
      BY <3>1, <3>2
  <2> QED
    BY <1>6, <2>2, <2>3 DEF HandlerStep
<1>7. ASSUME NEW t \in Thread, Move(t) PROVE Apartments'
  <2>1. /\ com' = com /\ mail' = mail /\ job'.step = "handler"
        /\ job.strayed \subseteq job'.strayed
        /\ InOutlook => "com" \in job'.strayed
    BY <1>0, <1>7 DEF Move, JobRecord, Handlers, mailVars
  <2>2. CASE "com" \in job'.strayed
    BY <2>1, <2>2 DEF Apartments
  <2>3. CASE "com" \notin job'.strayed
    BY <1>2, <1>3, <2>1, <2>3
  <2> QED
    BY <2>2, <2>3
<1>8. CASE Return \/ RevertFails
  <2>1. /\ com' = com /\ mail' = mail /\ on' = on
        /\ job'.step \in {"completed", "failed"} /\ job.strayed \subseteq job'.strayed
    <3>1. Answer \in {"completed", "failed"}
      BY DEF Answer
    <3>2. \/ job' = [job EXCEPT !.step = Answer]
          \/ job' = [job EXCEPT !.step = Answer, !.strayed = @ \cup {"as"}]
      BY <1>8 DEF Return, RevertFails
    <3>3. com' = com /\ mail' = mail /\ on' = on
      BY <1>8 DEF Return, RevertFails, Handlers, mailVars
    <3> HIDE DEF Answer
    <3> QED
      BY <1>0, <3>1, <3>2, <3>3 DEF JobRecord
  <2> QED
    BY <1>1, <2>1
<1>9. CASE Panic
    BY <1>9 DEF Panic, ProcessDies, Apartments, NoApartment
<1>10. CASE Report
  <2>1. job'.strayed = job.strayed /\ job'.step = "idle" /\ com' = com
    BY <1>0, <1>10 DEF Report, NoJob, JobRecord, EndMail
  <2>2. ~InOutlook
    BY <1>0, <1>10 DEF Report, OneHandler, InOutlook
  <2>3. CASE "com" \in job.strayed
    BY <2>1, <2>3 DEF Apartments
  <2>4. CASE "com" \notin job.strayed
    BY <1>2, <1>3, <2>1, <2>2, <2>4
  <2> QED
    BY <2>3, <2>4
<1>11. CASE Restart
    BY <1>0, <1>2, <1>11 DEF Restart, Apartments, EndMail
<1>12. CASE \E a \in Registered \cup {"unknown"}, u \in User \cup {"self"} : Refuse(a, u)
    BY <1>4, <1>12
<1>13. CASE \E a \in Registered : Execute(a) \/ \E u \in User : ExecuteWithImpersonation(a, u)
    BY <1>5, <1>13 DEF Execute, ExecuteWithImpersonation
<1>14. CASE \E t \in Thread : Move(t)
    BY <1>7, <1>14
<1> HIDE DEF Apartments
<1> QED
    BY <1>6, <1>8, <1>9, <1>10, <1>11, <1>12, <1>13, <1>14 DEF AgentNext

\* The agent starts without a job.
LEMMA AgentBegins == AgentInit => AgentInv
<1> SUFFICES ASSUME AgentInit PROVE AgentInv
    OBVIOUS
<1>1. ExecInv
    BY ExecutorAssumption
    DEF AgentInit, ExecInit, NoJob, ExecInv, ExecTypes, JobRecord, Impersonating
<1>2. OneHandler /\ Apartments
    BY NoMailType
    DEF AgentInit, ExecInit, NoJob, ProbeInit, NoProbe, ActInit, NoAct, MailInit, NoApartment,
        OneHandler, Apartments
<1> QED
    BY <1>1, <1>2, ProbeIdle, ActIdle, MailIdle DEF AgentInit, AgentInv

\* Every step of the agent preserves the invariant of each of its parts.
LEMMA AgentMoves ==
    ASSUME AgentInv, AgentNext \/ UNCHANGED agentVars
    PROVE  AgentInv'
<1>0. /\ ExecInv /\ OneHandler /\ Apartments /\ ProbeInv /\ ActInv /\ MailInv
      /\ on \in Thread
    BY DEF AgentInv, ExecInv, ExecTypes
<1>1. CASE AgentNext
  <2>1. ProbeMove /\ ActMove /\ MailMove /\ ExecInv' /\ OneHandler' /\ Apartments'
    BY <1>0, <1>1, HandlersMove, ExecMoves, OneHandlerMoves, ApartmentsMove
  <2> QED
    BY <1>0, <2>1, ProbeMoves, ActMoves, MailMoves DEF AgentInv
<1>2. CASE UNCHANGED agentVars
  <2>1. /\ UNCHANGED <<job, on, as, tokens>> /\ act' = act /\ mail' = mail /\ com' = com
        /\ UNCHANGED probeVars /\ UNCHANGED actVars /\ UNCHANGED mailVars
    BY <1>2 DEF agentVars, execVars, actVars, mailVars
  <2>2. ProbeMove /\ ActMove /\ MailMove
    BY <2>1 DEF ProbeMove, ActMove, MailMove
  <2>3. ExecInv'
    BY <1>0, <2>1 DEF ExecInv, ExecTypes, Impersonating
  <2>4. OneHandler' /\ Apartments'
    BY <1>0, <2>1 DEF OneHandler, Apartments, InOutlook, probeVars
  <2> QED
    BY <1>0, <2>2, <2>3, <2>4, ProbeMoves, ActMoves, MailMoves DEF AgentInv
<1> QED
    BY <1>1, <1>2

\* What the invariant says of a job that has ended, and of the types.
LEMMA AgentReports == AgentInv => NothingIsLeft /\ AgentTypeOK
<1> SUFFICES ASSUME AgentInv PROVE NothingIsLeft /\ AgentTypeOK
    OBVIOUS
<1>1. ExecInv /\ ProbeInv /\ ActInv /\ MailInv
    BY DEF AgentInv
<1>2. NothingIsLeft
  <2>1. job.step \in {"completed", "failed"} => com = NoApartment \/ "com" \in job.strayed
    <3> SUFFICES ASSUME job.step \in {"completed", "failed"}, "com" \notin job.strayed
                 PROVE  com = NoApartment
      OBVIOUS
    <3>1. OneHandler /\ Apartments /\ com \in [Thread -> 0..MaxApartments]
      BY <1>1 DEF AgentInv, MailInv, MailTypes
    <3>2. ~InOutlook
      BY <3>1 DEF OneHandler, InOutlook
    <3> QED
      BY <3>1, <3>2 DEF Apartments, NoApartment
  <2> QED
    BY <1>1, <2>1, ActReports, MailReports DEF NothingIsLeft, ExecInv, ExecTypes, Impersonating
<1>3. ExecTypeOK
    BY <1>1 DEF ExecTypeOK, ExecInv, ExecTypes, JobRecord
<1>4. ProbeTypeOK /\ ActTypeOK /\ MailTypeOK
    BY <1>1, MailReports DEF ProbeInv, ActInv, ExecInv, ExecTypes
<1> QED
    BY <1>2, <1>3, <1>4 DEF AgentTypeOK

-----------------------------------------------------------------------------
(* The pipeline *)

\* The smaller of two numbers.
LEMMA MinOfTwo ==
    ASSUME NEW a \in Int, NEW b \in Int
    PROVE  Min({a, b}) = IF a <= b THEN a ELSE b
<1> DEFINE m == IF a <= b THEN a ELSE b
<1>1. m \in {a, b} /\ \A y \in {a, b} : m <= y
    OBVIOUS
<1>2. \A x \in {a, b} : (\A y \in {a, b} : x <= y) => x = m
    OBVIOUS
<1> HIDE DEF m
<1>3. Min({a, b}) \in {a, b} /\ \A y \in {a, b} : Min({a, b}) <= y
    BY <1>1 DEF Min
<1>4. Min({a, b}) = m
    BY <1>2, <1>3
<1> QED
    BY <1>4 DEF m

\* A finite set has subsets of every size up to its own.
LEMMA SubsetOfSize ==
    ASSUME NEW S, IsFiniteSet(S), NEW k \in 0..Cardinality(S)
    PROVE  kSubset(k, S) # {}
<1>1. Cardinality(S) \in Nat
    BY FS_CardinalityType
<1>2. PICK g \in Bijection(1..Cardinality(S), S) : TRUE
    BY FS_CardinalityType DEF ExistsBijection
<1>3. /\ g \in [1..Cardinality(S) -> S]
      /\ \A x, y \in 1..Cardinality(S) : g[x] = g[y] => x = y
    BY <1>2 DEF Bijection, Injection, IsInjective
<1> DEFINE T == {g[x] : x \in 1..k}
           h == [x \in 1..k |-> g[x]]
<1>4. 1..k \subseteq 1..Cardinality(S)
    BY <1>1
<1>5. T \in SUBSET S
    BY <1>3, <1>4
<1>6. h \in Bijection(1..k, T)
  <2>1. /\ h \in [1..k -> T]
        /\ \A x, y \in 1..k : h[x] = h[y] => x = y
        /\ \A t \in T : \E x \in 1..k : h[x] = t
    BY <1>3, <1>4
  <2> HIDE DEF h, T
  <2> QED
    BY <2>1 DEF Bijection, Injection, Surjection, IsInjective
<1>7. IsFiniteSet(1..k) /\ Cardinality(1..k) = k
    BY FS_Interval
<1>8. Cardinality(T) = k
  <2> HIDE DEF h, T
  <2>1. ExistsBijection(1..k, T)
    BY <1>6 DEF ExistsBijection
  <2> QED
    BY <1>7, <2>1, FS_Bijection
<1> HIDE DEF T
<1>9. T \in kSubset(k, S)
    BY <1>5, <1>8 DEF kSubset
<1> QED
    BY <1>9

\* The record of no scenario.
LEMMA NoPipeType ==
    /\ NoPipe \in PipeRecord
    /\ NoPipe.step = "idle" /\ NoPipe.steps = <<>> /\ NoPipe.jobs = {} /\ NoPipe.errors = {}
<1>1. <<>> \in BoundedSeq(Drafts, MaxSteps)
  <2>1. <<>> \in [1..0 -> Drafts] /\ 0 \in 0..MaxSteps
    BY PipelineAssumption
  <2> QED
    BY <2>1 DEF BoundedSeq, SeqOf
<1>2. NoPipe \in PipeRecord
    BY <1>1 DEF NoPipe, PipeRecord
<1> QED
    BY <1>2 DEF NoPipe

\* Where nothing is compiled, only the types and what was validated matter.
LEMMA PipeBefore ==
    ASSUME NEW s \in {"idle", "refused", "failed", "running"}, pipe' = [NoPipe EXCEPT !.step = s]
    PROVE  PipeInv'
<1>1. /\ pipe' \in PipeRecord
      /\ pipe'.step = s /\ pipe'.jobs = {} /\ pipe'.errors = {}
    BY NoPipeType DEF PipeRecord
<1>2. PipeTypes' /\ Validated' /\ CompiledAsAsked'
    BY <1>1 DEF PipeTypes, Validated, CompiledAsAsked
<1> QED
    BY <1>2 DEF PipeInv

\* To be at the first step is to have no scenario.
LEMMA NoPipeIsIdle == NoPipe = [NoPipe EXCEPT !.step = "idle"]
    BY DEF NoPipe

\* A scenario is accepted if it is valid.
LEMMA PipeAccepts ==
    ASSUME NEW head, NEW steps \in BoundedSeq(Drafts, MaxSteps), Accept(head, steps)
    PROVE  PipeInv'
<1>1. CASE ValidateScenario(head, steps)
  <2>1. pipe' = [NoPipe EXCEPT !.step = "valid", !.steps = steps]
    BY <1>1 DEF Accept
  <2>2. /\ pipe' \in PipeRecord
        /\ pipe'.step = "valid" /\ pipe'.steps = steps /\ pipe'.jobs = {} /\ pipe'.errors = {}
    BY <2>1, NoPipeType DEF PipeRecord
  <2>3. PipeTypes' /\ CompiledAsAsked'
    BY <2>2 DEF PipeTypes, CompiledAsAsked
  <2>4. Validated'
    BY <1>1, <2>2 DEF Validated, ValidateScenario
  <2> QED
    BY <2>3, <2>4 DEF PipeInv
<1>2. CASE ~ValidateScenario(head, steps)
    BY <1>2, PipeBefore DEF Accept
<1> QED
    BY <1>1, <1>2

\* A valid step is turned into as many agents as it asks for.
LEMMA TargetsAsAsked ==
    ASSUME NEW s \in Drafts, ValidateStep(s), NEW online \in SUBSET Agent,
           NEW T \in Targets(s, online)
    PROVE  /\ T \in SUBSET FindMatchingAgents(online, s.labels)
           /\ Cardinality(T) = Asked(s, online)
<1> USE PipelineAssumption
<1> DEFINE M == FindMatchingAgents(online, s.labels)
           n == Cardinality(M)
           c == s.count
<1>1. /\ IsFiniteSet(M) /\ n \in Nat
      /\ M = Wanted(s, online)
      /\ (n = 0) = (M = {})
  <2>1. M \in SUBSET Agent /\ M = Wanted(s, online)
    BY DEF FindMatchingAgents, MatchesLabels, Wanted
  <2> HIDE DEF M
  <2> QED
    BY <2>1, FS_Subset, FS_CardinalityType, FS_EmptySet
<1>2. Asked(s, online) = CASE c.kind = "all" -> n
                           [] c.kind = "any" -> Min({1, n})
                           [] c.kind = "number" -> Min({c.n, n})
                           [] OTHER -> 0
    BY <1>1 DEF Asked
<1>3. /\ c.n \in Int
      /\ c.kind \in {"all", "any"} \/ (c.kind \in {"number", "prefix"} /\ c.n >= 1)
    BY DEF ValidateStep, CountIsValid
<1>4. T \in {{}} \/ (M # {} /\ T \in SelectTargetAgents(M, c))
    BY DEF Targets
<1>5. T = {} => M = {} \/ SelectTargetAgents(M, c) = {} \/ T \in SelectTargetAgents(M, c)
    BY DEF Targets
<1>6. Min({1, n}) = (IF n = 0 THEN 0 ELSE 1) /\ Min({c.n, n}) = (IF c.n <= n THEN c.n ELSE n)
    BY <1>1, <1>3, MinOfTwo
<1> HIDE DEF M, n, c
<1>7. IsFiniteSet({}) /\ Cardinality({}) = 0
    BY FS_EmptySet
<1>8. n = Cardinality(M)
    BY DEF n
<1>9. CASE c.kind = "all"
  <2>1. SelectTargetAgents(M, c) = {M}
    BY <1>9 DEF SelectTargetAgents
  <2>2. T = M
    BY <1>4, <1>5, <2>1
  <2> QED
    BY <1>2, <1>8, <1>9, <2>2 DEF M
<1>10. CASE c.kind = "any"
  <2>1. SelectTargetAgents(M, c) = kSubset(1, M)
    BY <1>10 DEF SelectTargetAgents
  <2>2. M # {} => kSubset(1, M) # {}
    <3>1. M # {} => 1 \in 0..Cardinality(M)
      BY <1>1, <1>8
    <3> QED
      BY <1>1, <3>1, SubsetOfSize
  <2>3. T \in SUBSET M /\ (M # {} => Cardinality(T) = 1)
    BY <1>4, <1>5, <2>1, <2>2 DEF kSubset
  <2>4. Cardinality(T) = Min({1, n})
    BY <1>1, <1>6, <1>7, <2>3
  <2> QED
    BY <1>2, <1>10, <2>3, <2>4 DEF M
<1>11. CASE c.kind = "number"
  <2>1. SelectTargetAgents(M, c) = kSubset(Min({c.n, n}), M)
    BY <1>3, <1>8, <1>11 DEF SelectTargetAgents
  <2>2. Min({c.n, n}) \in 0..n
    BY <1>1, <1>3, <1>6, <1>11
  <2>3. kSubset(Min({c.n, n}), M) # {}
    BY <1>1, <1>8, <2>2, SubsetOfSize
  <2>4. T \in SUBSET M /\ (M # {} => Cardinality(T) = Min({c.n, n}))
    <3> DEFINE k == Min({c.n, n})
    <3> HIDE DEF k
    <3>1. M # {} => T \in kSubset(k, M)
      BY <1>4, <1>5, <2>1, <2>3 DEF k
    <3>2. T = {} \/ T \in kSubset(k, M)
      BY <1>4, <2>1 DEF k
    <3>3. T \in SUBSET M /\ (M # {} => Cardinality(T) = k)
      BY <3>1, <3>2 DEF kSubset
    <3> QED
      BY <3>3 DEF k
  <2>5. Cardinality(T) = Min({c.n, n})
    <3>1. c.n >= 1
      BY <1>3, <1>11
    <3>2. CASE M = {}
      <4>1. T = {} /\ n = 0
        BY <1>1, <2>4, <3>2
      <4>2. Min({c.n, n}) = 0
        BY <1>3, <1>6, <3>1, <4>1
      <4> QED
        BY <1>7, <4>1, <4>2
    <3> QED
      BY <2>4, <3>2
  <2> QED
    BY <1>2, <1>11, <2>4, <2>5 DEF M
<1>12. CASE c.kind = "prefix"
  <2>1. SelectTargetAgents(M, c) = {}
    BY <1>12 DEF SelectTargetAgents
  <2>2. T = {} /\ Asked(s, online) = 0
    BY <1>2, <1>4, <1>12, <2>1
  <2> QED
    BY <1>7, <2>2
<1> QED
    BY <1>3, <1>9, <1>10, <1>11, <1>12

\* One job for each agent of a step.
LEMMA JobsOfStep ==
    ASSUME NEW S, NEW i \in S, NEW T \in SUBSET Agent, NEW C,
           C = {[step |-> i, agent |-> a] : a \in T}
    PROVE  Cardinality(C) = Cardinality(T)
<1> DEFINE f == [a \in T |-> [step |-> i, agent |-> a]]
<1>1. IsFiniteSet(T)
    BY FS_Subset, PipelineAssumption
<1>2. /\ f \in [T -> C]
      /\ \A a, b \in T : f[a] = f[b] => a = b
      /\ \A x \in C : \E a \in T : f[a] = x
    OBVIOUS
<1> HIDE DEF f
<1>3. f \in Bijection(T, C)
    BY <1>2 DEF Bijection, Injection, Surjection, IsInjective
<1>4. ExistsBijection(T, C)
    BY <1>3 DEF ExistsBijection
<1> QED
    BY <1>1, <1>4, FS_Bijection

\* What the compiler makes of a valid scenario is as it was asked for.
LEMMA PipeCompiles ==
    ASSUME PipeInv, Compile
    PROVE  PipeInv'
<1> USE PipelineAssumption
<1>0. /\ pipe \in PipeRecord /\ pipe.step = "valid"
      /\ pipe.steps \in Seq(Drafts) /\ DOMAIN pipe.steps = 1..Len(pipe.steps)
      /\ \A i \in DOMAIN pipe.steps : ValidateStep(pipe.steps[i])
  <2>1. pipe \in PipeRecord /\ Validated
    BY DEF PipeInv, PipeTypes
  <2>2. pipe.steps \in BoundedSeq(Drafts, MaxSteps)
    BY <2>1 DEF PipeRecord
  <2> QED
    BY <2>1, <2>2, BoundedSeqType DEF Compile, Validated
<1>1. CASE pipe' = [NoPipe EXCEPT !.step = "failed"]
    BY <1>1, PipeBefore
<1>2. ASSUME NEW online \in SUBSET Agent, NEW target \in [DOMAIN pipe.steps -> SUBSET online],
             \A i \in DOMAIN target : target[i] \in Targets(pipe.steps[i], online),
             pipe' = [pipe EXCEPT !.step = "compiled", !.online = online,
                      !.jobs = {j \in [step : DOMAIN target, agent : online] :
                                  j.agent \in target[j.step]},
                      !.errors = {i \in DOMAIN target : target[i] = {}}]
      PROVE  PipeInv'
  <2> DEFINE J == {j \in [step : DOMAIN target, agent : online] : j.agent \in target[j.step]}
             E == {i \in DOMAIN target : target[i] = {}}
  <2>1. /\ DOMAIN target = DOMAIN pipe.steps
        /\ J \in SUBSET [step : Nat, agent : Agent] /\ E \in SUBSET Nat
        /\ \A j \in J : j.step \in DOMAIN pipe.steps
        /\ E \subseteq DOMAIN pipe.steps
    BY <1>0
  <2>2. /\ pipe' \in PipeRecord
        /\ pipe'.step = "compiled" /\ pipe'.steps = pipe.steps
        /\ pipe'.jobs = J /\ pipe'.errors = E /\ pipe'.online = online
    <3> HIDE DEF J, E
    <3>1. pipe' = [pipe EXCEPT !.step = "compiled", !.online = online, !.jobs = J, !.errors = E]
      BY <1>2 DEF J, E
    <3> QED
      BY <1>0, <2>1, <3>1 DEF PipeRecord
  <2>3. PipeTypes'
    BY <2>1, <2>2 DEF PipeTypes
  <2>4. Validated'
    BY <1>0, <2>2 DEF Validated
  <2>5. CompiledAsAsked'
    <3> SUFFICES ASSUME NEW i \in DOMAIN pipe.steps
                 PROVE  LET s == pipe.steps[i]
                            chosen == {j \in J : j.step = i}
                        IN /\ i \in E <=> chosen = {}
                           /\ \A j \in chosen : j.agent \in Wanted(s, online)
                           /\ Cardinality(chosen) = Asked(s, online)
      BY <2>2 DEF CompiledAsAsked
    <3> DEFINE s == pipe.steps[i]
               chosen == {j \in J : j.step = i}
    <3>1. chosen = {[step |-> i, agent |-> a] : a \in target[i]}
      BY <2>1
    <3>2. /\ target[i] \in SUBSET online /\ target[i] \in SUBSET Agent
          /\ i \in E <=> target[i] = {}
      BY <2>1
    <3>3. s \in Drafts /\ ValidateStep(s) /\ target[i] \in Targets(s, online)
      BY <1>0, <1>2, <2>1
    <3> HIDE DEF s, chosen, J, E
    <3>4. /\ target[i] \in SUBSET FindMatchingAgents(online, s.labels)
          /\ Cardinality(target[i]) = Asked(s, online)
      BY <3>3, TargetsAsAsked
    <3>5. Cardinality(chosen) = Cardinality(target[i])
      BY <3>1, <3>2, JobsOfStep
    <3>6. i \in E <=> chosen = {}
      BY <3>1, <3>2
    <3>7. \A j \in chosen : j.agent \in Wanted(s, online)
      <4>1. \A j \in chosen : j.agent \in target[i]
        BY <3>1
      <4> QED
        BY <3>4, <4>1 DEF FindMatchingAgents, MatchesLabels, Wanted
    <3> QED
      BY <3>4, <3>5, <3>6, <3>7 DEF s, chosen
  <2> QED
    BY <2>3, <2>4, <2>5 DEF PipeInv
<1> QED
    BY <1>1, <1>2 DEF Compile

\* Every step of the pipeline preserves its invariant, and none delivers a job.
LEMMA PipeMoves ==
    ASSUME PipeInv, PipeStep
    PROVE  PipeInv' /\ pipe'.step # "running"
<1>1. PipeInv'
  <2>1. CASE Plan
    BY <2>1, PipeBefore, PipeAccepts DEF Plan
  <2>2. CASE Submit
    BY <2>2, PipeBefore, PipeAccepts DEF Submit
  <2>3. CASE Discard
    BY <2>3, PipeBefore, NoPipeIsIdle DEF Discard
  <2> QED
    BY <2>1, <2>2, <2>3, PipeCompiles DEF PipeStep
<1> DEFINE NotYet == pipe'.step # "running"
<1>0. ASSUME NEW s \in {"idle", "refused", "failed"}, pipe' = [NoPipe EXCEPT !.step = s]
      PROVE  NotYet
    BY <1>0 DEF NoPipe
<1>2. ASSUME NEW head, NEW steps, Accept(head, steps)
      PROVE  NotYet
    BY <1>2 DEF Accept, NoPipe
<1>3. ASSUME Plan \/ Submit \/ Discard PROVE NotYet
  <2> HIDE DEF NotYet
  <2>1. CASE Plan
    BY <1>0, <1>2, <2>1 DEF Plan
  <2>2. CASE Submit
    BY <1>0, <1>2, <2>2 DEF Submit
  <2>3. CASE Discard
    BY <1>0, <2>3, NoPipeIsIdle DEF Discard
  <2> QED
    BY <1>3, <2>1, <2>2, <2>3
<1>4. ASSUME Compile PROVE NotYet
  <2>1. pipe \in PipeRecord
    BY DEF PipeInv, PipeTypes
  <2>2. ASSUME NEW o, NEW J, NEW E,
               pipe' = [pipe EXCEPT !.step = "compiled", !.online = o, !.jobs = J, !.errors = E]
        PROVE  NotYet
    BY <2>1, <2>2 DEF PipeRecord
  <2>3. CASE pipe' = [NoPipe EXCEPT !.step = "failed"]
    BY <1>0, <2>3
  <2>4. ASSUME NEW o \in SUBSET Agent, NEW target \in [DOMAIN pipe.steps -> SUBSET o],
               pipe' = [pipe EXCEPT !.step = "compiled", !.online = o,
                      !.jobs = {j \in [step : DOMAIN target, agent : o] :
                                  j.agent \in target[j.step]},
                      !.errors = {i \in DOMAIN target : target[i] = {}}]
        PROVE  NotYet
    <3> HIDE DEF NotYet
    <3> QED
      BY <2>2, <2>4
  <2> HIDE DEF NotYet
  <2> QED
    BY <1>4, <2>3, <2>4 DEF Compile
<1> QED
    BY <1>1, <1>3, <1>4 DEF PipeStep

-----------------------------------------------------------------------------
(* From the scenario to the report *)

\* As long as a job runs, its action and its sizes are what they were.
LEMMA JobKept ==
    ASSUME AgentInv, AgentNext, job.step # "idle", job'.step # "idle"
    PROVE  job'.action = job.action /\ act'.lo = act.lo
<1>0. job \in JobRecord /\ act \in Act
    BY DEF AgentInv, ExecInv, ExecTypes, ActInv, ActTypeOK
<1>1. ActStep => act'.lo = act.lo
    BY ZenonT(30), <1>0 DEF Act, ActStep, LeaveLoop, Disappear, CreateFile, SizePanic, TouchFile, DeleteFile,
                RenameFile, CleanFiles, SpawnProcess, KillProcesses, SendEmail, SendNothing,
                VisitURL, EndSimulation, Did, Turn, Made, Forget
<1>2. CASE HandlerStep
    BY <1>1, <1>2 DEF HandlerStep, execVars, actVars
<1>3. CASE (\E t \in Thread : Move(t)) \/ Return \/ RevertFails \/ Panic
  <2>1. act' = act
    BY <1>3 DEF Move, Return, RevertFails, Panic, Handlers, actVars
  <2>2. \/ \E b : job' = [job EXCEPT !.strayed = b]
        \/ \E s : job' = [job EXCEPT !.step = s]
        \/ \E s, b : job' = [job EXCEPT !.step = s, !.strayed = b]
    BY <1>3, Zenon DEF Move, Return, RevertFails, Panic
  <2> DEFINE Kept == job'.action = job.action
  <2>3. ASSUME NEW b, job' = [job EXCEPT !.strayed = b]
        PROVE  Kept
    BY <1>0, <2>3 DEF JobRecord
  <2>4. ASSUME NEW s, job' = [job EXCEPT !.step = s]
        PROVE  Kept
    BY <1>0, <2>4 DEF JobRecord
  <2>5. ASSUME NEW s, NEW b, job' = [job EXCEPT !.step = s, !.strayed = b]
        PROVE  Kept
    BY <1>0, <2>5 DEF JobRecord
  <2>6. Kept
    <3> HIDE DEF Kept
    <3> QED
      BY <2>2, <2>3, <2>4, <2>5
  <2> QED
    BY <2>1, <2>6
<1>4. CASE Report \/ Restart
  <2>1. job' = [NoJob EXCEPT !.strayed = job.strayed] \/ job' = NoJob
    BY <1>4 DEF Report, Restart
  <2>2. job'.step = "idle"
    BY <2>1 DEF NoJob
  <2> QED
    BY <2>2
<1> QED
    BY <1>2, <1>3, <1>4 DEF AgentNext, Refuse, Execute, ExecuteWithImpersonation

\* The invariant holds at the start.
LEMMA RunBegins == RunInit => RunInv
<1> SUFFICES ASSUME RunInit PROVE RunInv
    OBVIOUS
<1>1. PipeInv /\ Carried
    BY NoPipeType DEF RunInit, PipeInit, PipeInv, PipeTypes, Validated, CompiledAsAsked, Carried
<1> QED
    BY <1>1, AgentBegins DEF RunInit, RunInv

\* Every step of the whole preserves the invariant.
LEMMA RunMoves == RunInv /\ [RunNext]_runVars => RunInv'
<1> SUFFICES ASSUME RunInv, [RunNext]_runVars PROVE RunInv'
    OBVIOUS
<1>0. AgentInv /\ PipeInv /\ Carried /\ pipe \in PipeRecord
    BY DEF RunInv, PipeInv, PipeTypes
<1>1. CASE job.step = "idle" /\ PipeStep /\ UNCHANGED agentVars
  <2>1. AgentInv' /\ PipeInv' /\ pipe'.step # "running"
    BY <1>0, <1>1, AgentMoves, PipeMoves
  <2> QED
    BY <2>1 DEF RunInv, Carried
<1>2. ASSUME NEW j \in pipe.jobs, Deliver(j)
      PROVE  RunInv'
  <2> DEFINE s == pipe.steps[j.step]
  <2>1. pipe.step = "compiled" /\ pipe' = [NoPipe EXCEPT !.step = "running"]
    BY <1>2 DEF Deliver
  <2>2. s \in Drafts /\ ValidateStep(s)
    <3>1. pipe.steps \in BoundedSeq(Drafts, MaxSteps) /\ j.step \in DOMAIN pipe.steps
      BY <1>0 DEF PipeInv, PipeTypes, PipeRecord
    <3>2. s \in Drafts
      BY <3>1, BoundedSeqType, PipelineAssumption
    <3> QED
      BY <1>0, <2>1, <3>1, <3>2 DEF PipeInv, Validated
  <2>3. s.action \in AllowedActions /\ s.action \in Registered /\ (s.lo = 0 \/ s.lo >= 1) /\ s.lo \in Int
    BY <2>2, PipelineAssumption
    DEF ValidateStep, IsValidAction, AllowedActions, ValidateParameters, SizesAreValid,
        Registered, SimulationActions
  <2>4. Execute(s.action) /\ act'.lo = OrSize(s.lo, 1)
    BY <1>2, <2>3 DEF Deliver
  <2> HIDE DEF s
  <2>5. AgentInv'
    BY <1>0, <2>3, <2>4, AgentMoves DEF AgentNext
  <2>6. PipeInv'
    BY <2>1, PipeBefore
  <2>7. Carried'
    <3>1. job'.step = "handler" /\ job'.action = s.action
      <4>1. job \in JobRecord
        BY <1>0 DEF AgentInv, ExecInv, ExecTypes
      <4> QED
        BY <2>4, <4>1 DEF Execute, NewJob, JobRecord
    <3>2. act'.lo >= 1
      BY <2>3, <2>4 DEF OrSize
    <3> QED
      BY <2>3, <3>1, <3>2 DEF Carried
  <2> QED
    BY <2>5, <2>6, <2>7 DEF RunInv
<1>3. CASE /\ pipe.step \in {"idle", "running"}
           /\ AgentNext
           /\ pipe' = IF job'.step = "idle" THEN NoPipe ELSE pipe
  <2>1. AgentInv'
    BY <1>0, <1>3, AgentMoves
  <2>2. PipeInv'
    <3>1. CASE pipe' = NoPipe
      BY <3>1, PipeBefore, NoPipeIsIdle
    <3>2. CASE pipe' = pipe
      BY <1>0, <3>2 DEF PipeInv, PipeTypes, Validated, CompiledAsAsked
    <3> QED
      BY <1>3, <3>1, <3>2
  <2>3. Carried'
    <3>1. CASE job'.step = "idle"
      BY <1>3, <3>1, NoPipeType DEF Carried
    <3>2. CASE job'.step # "idle" /\ pipe.step = "running"
      <4>1. job'.action = job.action /\ act'.lo = act.lo
        BY <1>0, <1>3, <3>2, JobKept DEF Carried
      <4> QED
        BY <1>0, <3>2, <4>1 DEF Carried
    <3>3. CASE job'.step # "idle" /\ pipe.step = "idle"
      BY <1>3, <3>3 DEF Carried
    <3> QED
      BY <1>3, <3>1, <3>2, <3>3
  <2> QED
    BY <2>1, <2>2, <2>3 DEF RunInv
<1>4. CASE UNCHANGED runVars
  <2>1. pipe' = pipe /\ UNCHANGED agentVars
    BY <1>4 DEF runVars
  <2>2. AgentInv'
    BY <1>0, <2>1, AgentMoves
  <2>3. job' = job /\ act' = act
    BY <2>1 DEF agentVars, execVars, actVars
  <2>4. PipeInv' /\ Carried'
    BY <1>0, <2>1, <2>3 DEF PipeInv, PipeTypes, Validated, CompiledAsAsked, Carried
  <2> QED
    BY <2>2, <2>4 DEF RunInv
<1> QED
    BY <1>1, <1>2, <1>3, <1>4 DEF RunNext

\* Hence the invariant always holds.
LEMMA RunInvariant == RunSpec => []RunInv
    BY RunBegins, RunMoves, PTL DEF RunSpec

\* The records of the agent and of the pipeline have their types: whatever plan,
\* whatever job, whatever the machine and the mail server do.
THEOREM RunTypeCorrect == RunSpec => []RunTypeOK
<1>1. RunInv => RunTypeOK
  <2> SUFFICES ASSUME RunInv PROVE RunTypeOK
    OBVIOUS
  <2>1. AgentTypeOK
    BY AgentReports DEF RunInv
  <2>2. PipeTypes
    BY DEF RunInv, PipeInv
  <2>3. DOMAIN pipe = DOMAIN NoPipe
    BY <2>2 DEF PipeTypes, PipeRecord, NoPipe
  <2>4. pipe.jobs \subseteq [step : DOMAIN pipe.steps, agent : Agent]
    BY <2>2 DEF PipeTypes, PipeRecord
  <2>5. PipeTypeOK
    BY <2>2, <2>3, <2>4 DEF PipeTypeOK, PipeTypes, PipeRecord
  <2> QED
    BY <2>1, <2>5 DEF RunTypeOK
<1> QED
    BY <1>1, RunInvariant, PTL

\* What the scoring engine is told of an observation is so, however the machine
\* changes between the steps of a handler, unless a tool failed: forwarder.go and
\* the handlers of observe_*.go and capture_powershell.go.
THEOREM EventCorrect == RunSpec => []EventIsTrue
<1>1. RunInv => EventIsTrue
    BY ProbeEvents DEF RunInv, AgentInv
<1> QED
    BY <1>1, RunInvariant, PTL

\* The counters of a simulation agree with what is on the machine when it ends:
\* file_activity.go, process_activity.go, email_traffic.go.
THEOREM ActReportCorrect == RunSpec => []ActReportTrue
<1>1. RunInv => ActReportTrue
    BY ActReports DEF RunInv, AgentInv
<1> QED
    BY <1>1, RunInvariant, PTL

\* What email_receive finds satisfies the filter as its backend reads it, and the
\* limit; only what is allowed is saved, outside the directory only under a name that
\* leads out of it, and only what is allowed is started: email_receive*.go.
THEOREM MailCorrect == RunSpec => []MailIsAsAsked
<1>1. RunInv => MailIsAsAsked
    BY MailReports DEF RunInv, AgentInv, ExecInv, ExecTypes
<1> QED
    BY <1>1, RunInvariant, PTL

\* An ended job leaves no token, no thread that impersonates unless a goroutine
\* moved or RevertToSelf failed, no thread with COM initialised unless a goroutine
\* moved, and nothing of its handler: executor.go, email_receive_outlook.go.
THEOREM LeavesNothingCorrect == RunSpec => []NothingIsLeft
<1>1. RunInv => NothingIsLeft
    BY AgentReports DEF RunInv
<1> QED
    BY <1>1, RunInvariant, PTL

\* What the validator passes, the compiler turns into the jobs that are asked for,
\* every agent knows their action, and a job ends the agent's process only if its
\* sizes are the wrong way round: validator.go, compiler.go, registry.go.
THEOREM CarriedOutCorrect == RunSpec => []ScenarioIsCarriedOut
<1>1. RunInv => ScenarioIsCarriedOut
  <2> SUFFICES ASSUME RunInv PROVE ScenarioIsCarriedOut
    OBVIOUS
  <2>1. /\ CompiledAsAsked /\ Carried /\ OneHandler
        /\ Impersonating /\ PanicIsSized /\ act \in Act
    BY DEF RunInv, PipeInv, AgentInv, ExecInv, ActInv, ActTypeOK
  <2>3. pipe.step = "running" => job.action \in Registered /\ mail.step = "idle"
    BY <2>1 DEF Carried, OneHandler, AllowedActions, Registered, SimulationActions
  <2>2. ASSUME pipe.step = "running", job.step = "dead" PROVE act.hi < act.lo
    <3>1. act.hi < act.lo \/ act.lo < 0
      BY <2>1, <2>2, <2>3 DEF Impersonating, PanicIsSized
    <3>2. act.lo >= 1 /\ act.lo \in Int
      <4>1. act.lo \in Size \cup {1} /\ Size \cup {1} \subseteq Int
        BY <2>1, ActivityAssumption DEF Act
      <4>2. act.lo \in Int
        BY <4>1, Zenon
      <4> QED
        BY <2>1, <2>2, <4>2 DEF Carried
    <3> QED
      BY <3>1, <3>2
  <2> QED
    BY <2>1, <2>2, <2>3 DEF ScenarioIsCarriedOut
<1> QED
    BY <1>1, RunInvariant, PTL

-----------------------------------------------------------------------------
(* The agent by itself *)

\* Whoever posts its jobs, and whatever they ask for, an agent reports what is so,
\* finds and saves what is asked of it, and leaves behind what NothingIsLeft excepts
\* and nothing else: executor.go with all the
\* handlers of registry.go.
THEOREM AgentCorrect ==
    AgentSpec => [](EventIsTrue /\ ActReportTrue /\ MailIsAsAsked /\ NothingIsLeft)
<1>1. AgentInv => EventIsTrue /\ ActReportTrue /\ MailIsAsAsked /\ NothingIsLeft
    BY ProbeEvents, ActReports, MailReports, AgentReports DEF AgentInv, ExecInv, ExecTypes
<1>2. AgentInv /\ [AgentNext]_agentVars => AgentInv'
    BY AgentMoves
<1> QED
    BY <1>1, <1>2, AgentBegins, PTL DEF AgentSpec

\* To an agent, a scenario is nothing but the jobs it brings: composed with the
\* planner, validator and compiler, the agent does what it does without them.
THEOREM RunImplementsAgent == RunSpec => AgentSpec
<1>1. RunInit => AgentInit
    BY DEF RunInit
<1>2. RunInv /\ [RunNext]_runVars => [AgentNext]_agentVars
  <2> SUFFICES ASSUME RunInv, [RunNext]_runVars PROVE [AgentNext]_agentVars
    OBVIOUS
  <2>1. ASSUME NEW j \in pipe.jobs, Deliver(j)
        PROVE  AgentNext
    <3> DEFINE s == pipe.steps[j.step]
    <3>1. pipe.step = "compiled" /\ PipeTypes /\ Validated
      BY <2>1 DEF Deliver, RunInv, PipeInv
    <3>2. ValidateStep(s)
      BY <3>1 DEF PipeTypes, Validated
    <3>3. s.action \in Registered
      BY <3>2 DEF ValidateStep, IsValidAction, AllowedActions, Registered, SimulationActions
    <3> HIDE DEF s
    <3>4. Execute(s.action)
      BY <2>1, <3>3 DEF Deliver, s
    <3> QED
      BY <3>3, <3>4 DEF AgentNext
  <2>2. UNCHANGED runVars => UNCHANGED agentVars
    BY DEF runVars
  <2> QED
    BY <2>1, <2>2 DEF RunNext
<1> QED
    BY <1>1, <1>2, RunInvariant, PTL DEF RunSpec, AgentSpec

=============================================================================
