------------------------------ MODULE Registry ------------------------------
(***************************************************************************)
(* How the orchestrator knows which agents are there.  An agent registers  *)
(* once, then sends a heartbeat on every tick of its ticker, before it     *)
(* asks for jobs; the orchestrator stores the time of the heartbeat, and a *)
(* sweep marks the agents offline it has not heard of for Timeout.  An     *)
(* agent that works through a batch sends nothing: it has one loop.        *)
(*                                                                         *)
(* Time is relative: every stamp is an age and every ticker a countdown,   *)
(* and PassTime moves them all by one unit.  A sweep may come at any time, *)
(* which covers every cleanup interval.                                    *)
(***************************************************************************)
EXTENDS Integers

CONSTANTS Agent,      \* the agents, one process and one loop each
          Timeout,    \* heartbeat_timeout
          Latency,    \* the longest a call takes that does not fail
          Zone,       \* the orchestrator's local time minus UTC
          Reported,   \* the statuses an agent sends with its heartbeat
          MaxFaults   \* bound on failed calls, crashes and restarts

ASSUME RegistryAssumption ==
    /\ Timeout \in Nat /\ Timeout >= 2
    /\ Latency \in Nat
    /\ Zone \in Int
    /\ Reported \subseteq {"online", "busy", "error"}
    /\ MaxFaults \in Nat

\* Mutant: the agent is told the timeout itself.
IntervalFull == Timeout

\* The interval the registration answers, and the agent's ticker takes over.
Interval == Timeout \div 2

VARIABLES status,   \* status[a]: the column, or "absent" without a row
          age,      \* age[a]: local time minus the text in last_heartbeat_at
          cache,    \* cache[a]: the status in the registry's cache, or "none"
          sweep,    \* where the cleanup loop is
          pc,       \* pc[a]: where the agent's loop is
          call,     \* call[a]: the handler's next statement, for the call of a
          says,     \* says[a]: the status that call reports
          waited,   \* waited[a]: how long the call has lasted
          stamp,    \* stamp[a]: how long ago RegisterAgent read the clock
          timer,    \* timer[a]: when the ticker fires next
          fired,    \* fired[a]: a tick waits in the ticker's channel
          lapse,    \* lapse[a]: since its last stored heartbeat a was down,
                    \* busy, or lost a call (history)
          faults    \* how many faults have happened

table == <<status, age>>
agents == <<pc, timer, fired>>
calls == <<call, says, waited, stamp>>
vars == <<status, age, cache, sweep, pc, call, says, waited, stamp, timer, fired,
          lapse, faults>>

Waiting == {"registering", "beating", "fetching"}

RTypeOK ==
    /\ status \in [Agent -> {"absent", "online", "offline", "error"}]
    /\ age \in [Agent -> Int]
    /\ cache \in [Agent -> {"none", "online", "error"}]
    /\ sweep \in {"asleep", "invalidate"}
    /\ pc \in [Agent -> {"down", "idle", "away"} \cup Waiting]
    /\ call \in [Agent -> {"none", "check", "insert", "update", "cache", "reply"}]
    /\ says \in [Agent -> {"online", "busy", "error"}]
    /\ waited \in [Agent -> Nat]
    /\ stamp \in [Agent -> Nat]
    /\ timer \in [Agent -> Nat]
    /\ fired \in [Agent -> BOOLEAN]
    /\ lapse \in [Agent -> BOOLEAN]
    /\ faults \in 0..MaxFaults

Init ==
    /\ status = [a \in Agent |-> "absent"]
    /\ age = [a \in Agent |-> 0]
    /\ cache = [a \in Agent |-> "none"]
    /\ sweep = "asleep"
    /\ pc = [a \in Agent |-> "down"]
    /\ call = [a \in Agent |-> "none"]
    /\ says = [a \in Agent |-> "online"]
    /\ waited = [a \in Agent |-> 0]
    /\ stamp = [a \in Agent |-> 0]
    /\ timer = [a \in Agent |-> Interval]
    /\ fired = [a \in Agent |-> FALSE]
    /\ lapse = [a \in Agent |-> TRUE]
    /\ faults = 0

-----------------------------------------------------------------------------
(* The agent's side *)

\* a sends a request: the handler's first statement comes next.
Send(a, where, step, reported) ==
    /\ pc' = [pc EXCEPT ![a] = where]
    /\ call' = [call EXCEPT ![a] = step]
    /\ says' = [says EXCEPT ![a] = reported]
    /\ waited' = [waited EXCEPT ![a] = 0]
    /\ UNCHANGED stamp

\* Nobody waits for the call any more.
HangUp(a) ==
    /\ call' = [call EXCEPT ![a] = "none"]
    /\ says' = [says EXCEPT ![a] = "online"]
    /\ waited' = [waited EXCEPT ![a] = 0]
    /\ stamp' = [stamp EXCEPT ![a] = 0]

\* The process ends, and its ticker with it.
Exit(a) ==
    /\ pc' = [pc EXCEPT ![a] = "down"]
    /\ timer' = [timer EXCEPT ![a] = Interval]
    /\ fired' = [fired EXCEPT ![a] = FALSE]

\* The process starts: Run, register.
Start(a) ==
    /\ pc[a] = "down"
    /\ Send(a, "registering", "check", "online")
    /\ UNCHANGED <<table, cache, sweep, timer, fired, lapse, faults>>

\* The ticker has fired: poll begins with a heartbeat.
Beat(a) ==
    /\ pc[a] = "idle"
    /\ fired[a]
    /\ \E reported \in Reported : Send(a, "beating", "check", reported)
    /\ fired' = [fired EXCEPT ![a] = FALSE]
    /\ UNCHANGED <<table, cache, sweep, timer, lapse, faults>>

\* The answer arrives.  Registered, the agent makes its ticker, with the
\* interval it was told; after the heartbeat it asks for jobs; with jobs it is
\* away, without any it waits for the next tick.
Answer(a) ==
    /\ call[a] = "reply"
    /\ \/ /\ pc[a] = "registering"
          /\ pc' = [pc EXCEPT ![a] = "idle"]
          /\ timer' = [timer EXCEPT ![a] = Interval]
          /\ HangUp(a)
          /\ UNCHANGED lapse
       \/ /\ pc[a] = "beating"
          /\ Send(a, "fetching", "reply", "online")
          /\ UNCHANGED <<timer, lapse>>
       \/ /\ pc[a] = "fetching"
          /\ \/ pc' = [pc EXCEPT ![a] = "idle"] /\ UNCHANGED lapse
             \/ pc' = [pc EXCEPT ![a] = "away"] /\ lapse' = [lapse EXCEPT ![a] = TRUE]
          /\ HangUp(a)
          /\ UNCHANGED timer
    /\ UNCHANGED <<table, cache, sweep, fired, faults>>

\* The batch is done, or the client has given up a call that was lost.
Return(a) ==
    /\ pc[a] = "away"
    /\ pc' = [pc EXCEPT ![a] = "idle"]
    /\ UNCHANGED <<table, cache, sweep, calls, timer, fired, lapse, faults>>

-----------------------------------------------------------------------------
(* The orchestrator's side *)

\* GetAgent.  A registration without a row goes on to INSERT, with the time it
\* read in between; everything else updates the row, or fails without one.
GetAgent(a) ==
    /\ call[a] = "check"
    /\ \/ status[a] = "absent" /\ pc[a] = "registering" /\ call' = [call EXCEPT ![a] = "insert"]
       \/ status[a] # "absent" /\ call' = [call EXCEPT ![a] = "update"]
    /\ stamp' = [stamp EXCEPT ![a] = 0]
    /\ UNCHANGED <<table, cache, sweep, agents, says, waited, lapse, faults>>

\* CreateAgent: a Go time in the stamp, written in local time.
CreateAgent(a) ==
    /\ call[a] = "insert"
    /\ status[a] = "absent"
    /\ status' = [status EXCEPT ![a] = "online"]
    /\ age' = [age EXCEPT ![a] = stamp[a]]
    /\ call' = [call EXCEPT ![a] = "cache"]
    /\ lapse' = [lapse EXCEPT ![a] = FALSE]
    /\ UNCHANGED <<cache, sweep, agents, says, waited, stamp, faults>>

\* Mutant: the reported status goes to the table as it is.
StoredAsReported(reported) == reported

\* "busy" is stored as online.
Stored(reported) == IF reported = "error" THEN "error" ELSE "online"

\* Mutant: the statement sets the time and leaves the status.
UpdateAgentHeartbeatTimeOnly(a) ==
    /\ call[a] = "update"
    /\ age' = [age EXCEPT ![a] = Zone]
    /\ call' = [call EXCEPT ![a] = "cache"]
    /\ lapse' = [lapse EXCEPT ![a] = FALSE]
    /\ UNCHANGED <<status, cache, sweep, agents, says, waited, stamp, faults>>

\* UpdateAgentHeartbeat: CURRENT_TIMESTAMP in the stamp, which is UTC.
UpdateAgentHeartbeat(a) ==
    /\ call[a] = "update"
    /\ status' = [status EXCEPT ![a] = Stored(says[a])]
    /\ age' = [age EXCEPT ![a] = Zone]
    /\ call' = [call EXCEPT ![a] = "cache"]
    /\ lapse' = [lapse EXCEPT ![a] = FALSE]
    /\ UNCHANGED <<cache, sweep, agents, says, waited, stamp, faults>>

\* updateCache puts the agent in the cache; updateCacheHeartbeat changes only
\* an entry that is there.
UpdateCache(a) ==
    /\ call[a] = "cache"
    /\ \/ /\ pc[a] = "registering" \/ cache[a] # "none"
          /\ cache' = [cache EXCEPT ![a] = Stored(says[a])]
       \/ /\ pc[a] # "registering" /\ cache[a] = "none"
          /\ UNCHANGED cache
    /\ call' = [call EXCEPT ![a] = "reply"]
    /\ UNCHANGED <<table, sweep, agents, says, waited, stamp, lapse, faults>>

\* Mutant: the sweep looks at the agents of the cache.
StaleInCache(a) == cache[a] = "online" /\ status[a] = "online" /\ age[a] > Timeout

Stale(a) == status[a] = "online" /\ age[a] > Timeout

\* MarkStaleAgentsOffline, and when it marked some, the cache is emptied.
MarkStaleAgentsOffline ==
    /\ sweep = "asleep"
    /\ status' = [a \in Agent |-> IF Stale(a) THEN "offline" ELSE status[a]]
    /\ sweep' = IF \E a \in Agent : Stale(a) THEN "invalidate" ELSE "asleep"
    /\ UNCHANGED <<age, cache, agents, calls, lapse, faults>>

\* Mutant: the cache is kept.
InvalidateNothing ==
    /\ sweep = "invalidate"
    /\ sweep' = "asleep"
    /\ UNCHANGED <<table, cache, agents, calls, lapse, faults>>

InvalidateCache ==
    /\ sweep = "invalidate"
    /\ cache' = [a \in Agent |-> "none"]
    /\ sweep' = "asleep"
    /\ UNCHANGED <<table, agents, calls, lapse, faults>>

-----------------------------------------------------------------------------
(* Time and faults *)

\* An age counts until it no longer matters.
Older(n) == IF n > Timeout THEN n ELSE n + 1

\* The ticker of a running agent: a tick that finds one waiting is dropped.
Ticking(a) == pc[a] \notin {"down", "registering"}

\* Time passes when no loop has a tick to take and no call is at its limit.
PassTime ==
    /\ \A a \in Agent :
        /\ pc[a] = "idle" => ~fired[a]
        /\ pc[a] \in Waiting => waited[a] < Latency
    /\ age' = [a \in Agent |-> IF status[a] = "absent" THEN 0 ELSE Older(age[a])]
    /\ waited' = [a \in Agent |-> IF pc[a] \in Waiting THEN waited[a] + 1 ELSE waited[a]]
    /\ stamp' = [a \in Agent |-> IF call[a] = "insert" THEN stamp[a] + 1 ELSE stamp[a]]
    /\ timer' = [a \in Agent |-> IF ~Ticking(a) THEN timer[a]
                                 ELSE IF timer[a] > 1 THEN timer[a] - 1 ELSE Interval]
    /\ fired' = [a \in Agent |-> fired[a] \/ (Ticking(a) /\ timer[a] <= 1)]
    /\ UNCHANGED <<status, cache, sweep, pc, call, says, lapse, faults>>

\* A call is lost, before or after any statement, or answered with an error.
\* A registration that fails ends the process; after another call the loop
\* goes on when the client has given up.  The cache is written without the
\* request's context: a handler that has stored something gets that far.
CallFails(a) ==
    /\ faults < MaxFaults
    /\ pc[a] \in Waiting
    /\ call[a] # "cache"
    /\ IF pc[a] = "registering" THEN Exit(a)
       ELSE pc' = [pc EXCEPT ![a] = "away"] /\ UNCHANGED <<timer, fired>>
    /\ HangUp(a)
    /\ lapse' = [lapse EXCEPT ![a] = TRUE]
    /\ faults' = faults + 1
    /\ UNCHANGED <<table, cache, sweep>>

Crash(a) ==
    /\ faults < MaxFaults
    /\ pc[a] # "down"
    /\ call[a] # "cache"
    /\ Exit(a)
    /\ HangUp(a)
    /\ lapse' = [lapse EXCEPT ![a] = TRUE]
    /\ faults' = faults + 1
    /\ UNCHANGED <<table, cache, sweep>>

\* The table survives, the cache and the handlers do not.
OrchestratorRestart ==
    /\ faults < MaxFaults
    /\ cache' = [a \in Agent |-> "none"]
    /\ sweep' = "asleep"
    /\ pc' = [a \in Agent |-> CASE pc[a] = "registering" -> "down"
                                [] pc[a] \in {"beating", "fetching"} -> "away"
                                [] OTHER -> pc[a]]
    /\ call' = [a \in Agent |-> "none"]
    /\ says' = [a \in Agent |-> "online"]
    /\ waited' = [a \in Agent |-> 0]
    /\ stamp' = [a \in Agent |-> 0]
    /\ lapse' = [a \in Agent |-> lapse[a] \/ pc[a] \in Waiting]
    /\ faults' = faults + 1
    /\ UNCHANGED <<table, timer, fired>>

-----------------------------------------------------------------------------
Handle(a) ==
    GetAgent(a) \/ CreateAgent(a) \/ UpdateAgentHeartbeat(a) \/ UpdateCache(a) \/ Answer(a)

Sweep == MarkStaleAgentsOffline \/ InvalidateCache

Next ==
    \/ \E a \in Agent : Start(a) \/ Beat(a) \/ Return(a) \/ Handle(a) \/ CallFails(a) \/ Crash(a)
    \/ Sweep
    \/ PassTime
    \/ OrchestratorRestart

Spec == Init /\ [][Next]_vars

\* A tick is taken and a batch ends; a call the server accepted is served; the
\* cleanup loop sweeps again and again; time goes on.
LiveSpec ==
    /\ Spec
    /\ \A a \in Agent : WF_vars(Beat(a)) /\ WF_vars(Return(a)) /\ WF_vars(Handle(a))
    /\ WF_vars(MarkStaleAgentsOffline) /\ WF_vars(InvalidateCache)
    /\ WF_vars(PassTime)

-----------------------------------------------------------------------------
(* Properties *)

\* An agent that is there stays online: since its heartbeat was last stored it
\* was neither down nor busy and lost no call, so the next heartbeat is stored
\* before a sweep can find the row stale, however the ticker, two calls of up
\* to Latency and the sweep fall together.
PunctualStaysOnline ==
    \A a \in Agent : ~lapse[a] => status[a] \in {"online", "error"}

\* When no handler of the agent and no sweep is between two of its steps, what
\* the cache says of an agent is what the table says.
CacheAgrees ==
    \A a \in Agent :
        cache[a] # "none" /\ call[a] # "cache" /\ sweep = "asleep"
            => cache[a] = status[a]

\* The reason for both: while a has no lapse, the age of its row is bounded by where its
\* loop is (Punctual), given what tickers and calls can do (Clocks); and what
\* goes to the cache is what was stored (CacheInv).
Clocks ==
    \A a \in Agent :
        /\ timer[a] \in 1..Interval
        /\ pc[a] \in Waiting => waited[a] <= Latency
        /\ pc[a] \in Waiting <=> call[a] # "none"
        /\ pc[a] = "fetching" => call[a] = "reply"
        /\ pc[a] = "registering" => says[a] = "online"
        /\ call[a] = "insert" => pc[a] = "registering" /\ stamp[a] <= waited[a]

Punctual ==
    \A a \in Agent : ~lapse[a] =>
        /\ status[a] \in {"online", "error"}
        /\ pc[a] \notin {"down", "away"}
        /\ pc[a] = "registering" => call[a] \in {"cache", "reply"} /\ age[a] <= waited[a]
        /\ pc[a] = "idle" =>
            /\ age[a] <= Interval + Latency
            /\ fired[a] \/ age[a] + timer[a] <= Interval + Latency
        /\ pc[a] = "beating" =>
            \/ call[a] \in {"check", "update"} /\ age[a] <= Interval + Latency + waited[a]
            \/ /\ call[a] \in {"cache", "reply"} /\ age[a] <= waited[a]
               /\ fired[a] \/ age[a] + timer[a] <= Interval
        /\ pc[a] = "fetching" =>
            /\ age[a] <= Latency + waited[a]
            /\ fired[a] \/ age[a] + timer[a] <= Interval

CacheInv ==
    /\ CacheAgrees
    /\ \A a \in Agent : call[a] = "cache" => ~lapse[a] /\ status[a] = Stored(says[a])

RInv == RTypeOK /\ Clocks /\ Punctual /\ CacheInv

\* An agent that stays down does not stay online for ever.
DeadGoesOffline ==
    \A a \in Agent : pc[a] = "down" ~> (status[a] # "online" \/ pc[a] # "down")

\* An agent whose loop runs is not offline in the end, whatever a sweep found
\* while it was away, or it has gone down.
LiveComesBack ==
    \A a \in Agent : pc[a] = "idle" ~> (status[a] \in {"online", "error"} \/ pc[a] = "down")
=============================================================================
