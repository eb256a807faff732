----------------------------- MODULE Forwarding -----------------------------
(***************************************************************************)
(* Events to the scoring engine (scoring/forwarder.go) and the messenger   *)
(* (webhooks/forwarder.go), sent by the processes of Startup.              *)
(*                                                                         *)
(* A stored result is turned into one event for each of them, a completed  *)
(* scenario into one for the messenger (scheduler.go).  Each event has a   *)
(* goroutine of its own, outside the request it comes from, that posts it  *)
(* until it is taken, its attempts are used up, its context ends or the    *)
(* process does.  A posted copy may arrive at any later time, when its     *)
(* sender has given it up, or is gone, as well.  All copies carry the      *)
(* event_id made before the first, by which receivers drop duplicates.     *)
(***************************************************************************)
EXTENDS Startup

CONSTANTS Report,     \* the results agents report, all of one scenario
          RetryCount  \* RetryCount[t]: retry_count of the forwarder to t

Receiver == {"scoring", "messenger"}

ASSUME ForwardingAssumption ==
    /\ RetryCount \in [Receiver -> Nat]
    /\ "completion" \notin Report

VARIABLES stored,    \* the reports whose UPDATE of the jobs table succeeded
          handling,  \* handling[q]: the ProcessJobResult of request q
          scenario,  \* the status of the scenario they belong to
          pass,      \* pass[p]: how far p's pass is with that scenario
          send,      \* send[g]: the goroutine of event g
          air,       \* the attempts made that a receiver may still get
          inbox,     \* those it has got
          cut        \* what was left untold half-way (history)

forwardVars == <<stored, handling, scenario, pass, send, air, inbox, cut>>
fvars == <<lifeVars, forwardVars>>

\* A goroutine is named by what it tells, whom and the process it runs in.
Completion == "completion"
Goroutine ==
    [of : Report, to : Receiver, by : Server]
        \cup [of : {Completion}, to : {"messenger"}, by : Server]

\* "try": about to post for the attempt-th time, after the delay unless it is 0.
\* It ends "taken" by its receiver, "failed" after its last attempt, or "stopped".
NoSend == [is |-> "none", attempt |-> 0]
Running == {"try", "flying"}
Send == [is : Running \cup {"none", "taken", "failed", "stopped"}, attempt : Nat]
Attempt(g) == 0..RetryCount[g.to]
Copies == UNION {{g} \X Attempt(g) : g \in Goroutine}

FTypeOK ==
    /\ LifeTypeOK
    /\ stored \in SUBSET Report
    /\ \A q \in Req : handling[q].step \in {"none", "store", "lookup", "messenger", "reply"}
                      /\ handling[q].of \in Report \cup {"none"}
    /\ scenario \in {"active", "completed", "deleted"}
    /\ pass \in [Server -> {"idle", "update", "announce"}]
    /\ send \in [Goroutine -> Send]
    /\ \A g \in Goroutine : send[g].attempt \in Attempt(g)
    /\ air \in SUBSET Copies
    /\ inbox \in SUBSET Copies
    /\ cut \in SUBSET (Report \cup {Completion})

NoHandling == [step |-> "none", of |-> "none"]

FInit ==
    /\ LifeInit
    /\ stored = {}
    /\ handling = [q \in Req |-> NoHandling]
    /\ scenario = "active"
    /\ pass = [p \in Server |-> "idle"]
    /\ send = [g \in Goroutine |-> NoSend]
    /\ air = {}
    /\ inbox = {}
    /\ cut = {}

-----------------------------------------------------------------------------
(* ProcessJobResult *)

Step(q, s) == handling' = [handling EXCEPT ![q].step = s]
Spawn(g) == send' = [send EXCEPT ![g].is = "try"]

\* A statement of request q may succeed, or fail: for its context, or because
\* the file is closed, or for reasons of its own.
Executable(q) == stage[req[q].on] # "exit" /\ req[q].age < RequestTimeout
Fails(q) ==
    IF Executable(q) THEN faults < MaxFaults /\ faults' = faults + 1 ELSE UNCHANGED faults

ReceiveReport(q) ==
    /\ BeginRequest(q)
    /\ \E r \in Report :
        /\ r \notin stored
        /\ \A o \in Req : handling[o].of # r
        /\ handling' = [handling EXCEPT ![q] = [step |-> "store", of |-> r]]
    /\ UNCHANGED <<stored, scenario, pass, send, air, inbox, cut>>

\* Mutant: the events are sent although the UPDATE failed.
StoreOrNot(q) ==
    /\ handling[q].step = "store"
    /\ \/ Executable(q) /\ stored' = stored \cup {handling[q].of} /\ UNCHANGED faults
       \/ Fails(q) /\ UNCHANGED stored
    /\ Step(q, "lookup")
    /\ UNCHANGED <<fileVars, stage, ticking, drained, req, scenario, pass, send, air, inbox, cut>>

\* UpdateJobCompleted or UpdateJobFailed; a failure is the agent's answer.
Store(q) ==
    /\ handling[q].step = "store"
    /\ \/ Executable(q) /\ stored' = stored \cup {handling[q].of} /\ Step(q, "lookup") /\ UNCHANGED faults
       \/ Fails(q) /\ Step(q, "reply") /\ UNCHANGED stored
    /\ UNCHANGED <<fileVars, stage, ticking, drained, req, scenario, pass, send, air, inbox, cut>>

\* forwardJobResultToScoring reads the run id from the scenario, still with the
\* context of the request; without it there is no event.
Lookup(q) ==
    /\ handling[q].step = "lookup"
    /\ \/ /\ Executable(q)
          /\ IF scenario = "deleted" THEN UNCHANGED send
             ELSE Spawn([of |-> handling[q].of, to |-> "scoring", by |-> req[q].on])
          /\ UNCHANGED faults
       \/ Fails(q) /\ UNCHANGED send
    /\ Step(q, "messenger")
    /\ UNCHANGED <<fileVars, stage, ticking, drained, req, stored, scenario, pass, air, inbox, cut>>

\* forwardJobResultToMessenger needs nothing from the file.
TellMessenger(q) ==
    /\ handling[q].step = "messenger"
    /\ Spawn([of |-> handling[q].of, to |-> "messenger", by |-> req[q].on])
    /\ Step(q, "reply")
    /\ UNCHANGED <<lifeVars, stored, scenario, pass, air, inbox, cut>>

Reply(q) ==
    /\ handling[q].step = "reply"
    /\ EndRequest(q)
    /\ handling' = [handling EXCEPT ![q] = NoHandling]
    /\ UNCHANGED <<stored, scenario, pass, send, air, inbox, cut>>

Handle(q) == Store(q) \/ Lookup(q) \/ TellMessenger(q) \/ Reply(q)

-----------------------------------------------------------------------------
(* checkScenarioCompletion, within a pass of the scheduler's loop *)

CountJobs(p) ==
    /\ p \in ticking
    /\ pass[p] = "idle"
    /\ scenario = "active"
    /\ stored = Report
    /\ pass' = [pass EXCEPT ![p] = "update"]
    /\ UNCHANGED <<lifeVars, stored, handling, scenario, send, air, inbox, cut>>

\* UPDATE ... WHERE id, whatever the status is by now; no row is an error.
CompleteScenario(p) ==
    /\ pass[p] = "update"
    /\ scenario' = IF scenario = "deleted" THEN scenario ELSE "completed"
    /\ pass' = [pass EXCEPT ![p] = IF scenario = "deleted" THEN "idle" ELSE "announce"]
    /\ UNCHANGED <<lifeVars, stored, handling, send, air, inbox, cut>>

\* Mutant: the forwarder is taken away when the shutdown begins.
AnnounceWhileServing(p) ==
    /\ pass[p] = "announce"
    /\ IF stage[p] = "serve" THEN Spawn([of |-> Completion, to |-> "messenger", by |-> p])
       ELSE UNCHANGED send
    /\ pass' = [pass EXCEPT ![p] = "idle"]
    /\ UNCHANGED <<lifeVars, stored, handling, scenario, air, inbox, cut>>

\* The loop reads the forwarder's field while main may not have set it yet.
Announce(p) ==
    /\ pass[p] = "announce"
    /\ \/ Spawn([of |-> Completion, to |-> "messenger", by |-> p]) /\ UNCHANGED cut
       \/ stage[p] = "wire" /\ cut' = cut \cup {Completion} /\ UNCHANGED send
    /\ pass' = [pass EXCEPT ![p] = "idle"]
    /\ UNCHANGED <<lifeVars, stored, handling, scenario, air, inbox>>

CompletionStep(p) == CountJobs(p) \/ CompleteScenario(p) \/ Announce(p)

\* DELETE /api/scenarios/{id}, by any other request, which may outlive the wait
\* for it but not the file.
DeleteScenario ==
    /\ \E p \in Server : stage[p] \in (Looping \ {"wire"}) \cup {"close"}
    /\ scenario # "deleted"
    /\ scenario' = "deleted"
    /\ UNCHANGED <<lifeVars, stored, handling, pass, send, air, inbox, cut>>

-----------------------------------------------------------------------------
(* sendEvent *)

Now(g, s) == send' = [send EXCEPT ![g] = s]

Tries(n) == [is |-> "try", attempt |-> n]
GivesUp(g) == [send[g] EXCEPT !.is = "failed"]

\* Mutant: attempt is not counted.
FailedUncounted(g) == Tries(send[g].attempt)

\* Mutant: one attempt too many.
FailedOneMore(g) ==
    IF send[g].attempt <= RetryCount[g.to] THEN Tries(send[g].attempt + 1) ELSE GivesUp(g)

\* Mutant: one attempt too few.
FailedOneLess(g) ==
    IF send[g].attempt + 1 < RetryCount[g.to] THEN Tries(send[g].attempt + 1)
    ELSE GivesUp(g)

\* After a failed attempt: the loop's condition.
Failed(g) ==
    IF send[g].attempt < RetryCount[g.to] THEN Tries(send[g].attempt + 1) ELSE GivesUp(g)

\* What goroutine g posts now.
Copy(g) == <<g, send[g].attempt>>

Post(g) ==
    /\ send[g].is = "try"
    /\ Now(g, [send[g] EXCEPT !.is = "flying"])
    /\ air' = air \cup {Copy(g)}
    /\ UNCHANGED <<lifeVars, stored, handling, scenario, pass, inbox, cut>>

\* The receiver gets a posted copy, whatever its sender does by then.  Its answer
\* may still not arrive; nor need the copy.
Receive(m) ==
    /\ m \in air
    /\ air' = air \ {m}
    /\ inbox' = inbox \cup {m}
    /\ UNCHANGED <<lifeVars, stored, handling, scenario, pass, send, cut>>

\* An answer below 300 to this attempt, the event being new or a duplicate.
Taken(g) ==
    /\ send[g].is = "flying"
    /\ Copy(g) \in inbox
    /\ Now(g, [send[g] EXCEPT !.is = "taken"])
    /\ UNCHANGED <<lifeVars, stored, handling, scenario, pass, air, inbox, cut>>

\* Another answer, or none in time.
NotTaken(g) ==
    /\ send[g].is = "flying"
    /\ Now(g, Failed(g))
    /\ UNCHANGED <<lifeVars, stored, handling, scenario, pass, air, inbox, cut>>

\* The 30 seconds of the goroutine end, or ForwardJobResult finds an action that is
\* no observation.  Attempts still left, if select takes the timer and not the
\* context, fail without a request.
Expire(g) ==
    /\ send[g].is \in Running
    /\ Now(g, [send[g] EXCEPT !.is = "stopped"])
    /\ UNCHANGED <<lifeVars, stored, handling, scenario, pass, air, inbox, cut>>

SendStep(g) == Post(g) \/ Taken(g) \/ NotTaken(g)

-----------------------------------------------------------------------------
(* Specification *)

\* What ends with a process: its handlers, its pass and its goroutines, for
\* which main does not wait.  What they posted is under way.
Dies(p) == stage[p] # "off" /\ stage'[p] = "off"

ProcessStep ==
    /\ \/ \E p \in Server : MainStep(p) \/ StopLoops(p) \/ Disturb(p)
       \/ \E p \in Server : pass[p] = "idle" /\ LoopPass(p)
       \/ \E q \in Req : (req[q].is = "open" /\ EndRequest(q)) \/ \E p \in Server : Accept(q, p)
       \/ PassTime
    /\ handling' = [q \in Req |-> IF req'[q] = NoReq THEN NoHandling ELSE handling[q]]
    /\ cut' = cut \cup {handling[q].of : q \in {o \in Req :
                           req'[o] = NoReq /\ handling[o].step \in {"lookup", "messenger"}}}
                  \cup {Completion : p \in {o \in Server : Dies(o) /\ pass[o] = "announce"}}
    /\ pass' = [p \in Server |-> IF Dies(p) THEN "idle" ELSE pass[p]]
    /\ send' = [g \in Goroutine |->
                  IF Dies(g.by) /\ send[g].is \in Running
                  THEN [send[g] EXCEPT !.is = "stopped"] ELSE send[g]]
    /\ UNCHANGED <<stored, scenario, air, inbox>>

FNext ==
    \/ ProcessStep
    \/ \E q \in Req : ReceiveReport(q) \/ Handle(q)
    \/ \E p \in Server : CompletionStep(p)
    \/ DeleteScenario
    \/ \E g \in Goroutine : SendStep(g) \/ Expire(g)
    \/ \E m \in air : Receive(m)

\* http.Client answers or times out, and timers fire.
FFairness == \A g \in Goroutine : WF_fvars(SendStep(g))

FSpec == FInit /\ [][FNext]_fvars
FFairSpec == FSpec /\ FFairness

-----------------------------------------------------------------------------
(* Properties *)

\* The messenger is told of a result exactly if it was stored, even when the
\* scoring engine cannot be: a scenario deleted, or a request cancelled, between
\* the UPDATE and the SELECT costs the one event and not the other.
StoredIsForwarded ==
    \A r \in Report :
        /\ \A g \in Goroutine : g.of = r /\ send[g].is # "none" => r \in stored
        /\ r \in stored =>
            \/ r \in cut
            \/ \E q \in Req : handling[q].of = r /\ handling[q].step \in {"lookup", "messenger"}
            \/ \E p \in Server : send[[of |-> r, to |-> "messenger", by |-> p]].is # "none"

\* What a goroutine concludes is what became of its copies, which arrive late, out
\* of order or never: an event it counts as taken is with the receiver, by the
\* attempt that was answered and no later one was made; one it gives up after the
\* last attempt has been posted as often as configured; and no copy comes from an
\* attempt it has not got to.
GivenUpOnlyAfterAll ==
    \A g \in Goroutine :
        LET posted == {n \in Attempt(g) : <<g, n>> \in air \cup inbox} IN
        /\ \A n \in posted : n <= send[g].attempt
        /\ send[g].is = "taken" => Copy(g) \in inbox
        /\ send[g].is = "failed" => posted = Attempt(g)

\* What the messenger hears of a completion is final, every result is stored; and
\* it is to hear of it, unless the process died before it was told, or the loop
\* came before main had set the forwarder.
CompletionIsTrue ==
    LET told == {g \in Goroutine : g.of = Completion /\ send[g].is # "none"} IN
    /\ told # {} => stored = Report
    /\ scenario = "completed" =>
        \/ told # {}
        \/ \E p \in Server : pass[p] = "announce"
        \/ Completion \in cut

\* A goroutine ends, whatever its receiver does: again and again none is left.
ForwardEnds ==
    []<>(\A g \in Goroutine : send[g].is \notin Running)
=============================================================================
