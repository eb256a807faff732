--------------------------- MODULE RegistryProofs ---------------------------
(***************************************************************************)
(* Proofs about Registry for every set of agents, every timeout and every  *)
(* number of faults.                                                       *)
(***************************************************************************)
EXTENDS Registry, TLAPS

\* Two calls fit into a heartbeat interval, and local time is not ahead of UTC.
Patient == 2 * Latency <= Interval /\ Zone <= 0

LEMMA IntervalBounds == Interval \in Nat /\ Interval >= 1 /\ 2 * Interval <= Timeout
    BY RegistryAssumption DEF RegistryAssumption, Interval

LEMMA RTypeStep == RTypeOK /\ [Next]_vars => RTypeOK'
<1> SUFFICES ASSUME RTypeOK, [Next]_vars PROVE RTypeOK'
    OBVIOUS
<1> DEFINE Calls == [Agent -> {"none", "check", "insert", "update", "cache", "reply"}]
           Statuses == [Agent -> {"online", "busy", "error"}]
           Places == [Agent -> {"down", "idle", "away"} \cup Waiting]
<1> USE RegistryAssumption, IntervalBounds
        DEF RegistryAssumption, RTypeOK, Waiting, table, agents, calls
<1>1. ASSUME NEW a \in Agent, Start(a) PROVE RTypeOK'
    BY <1>1 DEF Start, Send
<1>2. ASSUME NEW a \in Agent, Beat(a) PROVE RTypeOK'
    BY <1>2 DEF Beat, Send
<1>3. ASSUME NEW a \in Agent, Return(a) PROVE RTypeOK'
    BY <1>3 DEF Return
<1>4. ASSUME NEW a \in Agent, GetAgent(a) PROVE RTypeOK'
    BY <1>4 DEF GetAgent
<1>5. ASSUME NEW a \in Agent, CreateAgent(a) PROVE RTypeOK'
    BY <1>5 DEF CreateAgent
<1>6. ASSUME NEW a \in Agent, UpdateAgentHeartbeat(a) PROVE RTypeOK'
    BY <1>6 DEF UpdateAgentHeartbeat, Stored
<1>7. ASSUME NEW a \in Agent, UpdateCache(a) PROVE RTypeOK'
    BY <1>7 DEF UpdateCache, Stored
<1>8. ASSUME NEW a \in Agent, Answer(a) PROVE RTypeOK'
  <2>1. /\ call' \in Calls /\ says' \in Statuses
        /\ waited' \in [Agent -> Nat] /\ stamp' \in [Agent -> Nat]
    BY <1>8 DEF Answer, Send, HangUp
  <2>2. pc' \in Places
    BY <1>8 DEF Answer, Send
  <2>3. timer' \in [Agent -> Nat]
    BY <1>8 DEF Answer
  <2>4. lapse' \in [Agent -> BOOLEAN]
    BY <1>8 DEF Answer
  <2> QED
    BY <1>8, <2>1, <2>2, <2>3, <2>4 DEF Answer
<1>9. ASSUME NEW a \in Agent, CallFails(a) PROVE RTypeOK'
  <2>1. /\ call' \in Calls /\ says' \in Statuses
        /\ waited' \in [Agent -> Nat] /\ stamp' \in [Agent -> Nat]
    BY <1>9 DEF CallFails, HangUp
  <2>2. pc' \in Places
    BY <1>9 DEF CallFails, Exit
  <2>3. timer' \in [Agent -> Nat]
    BY <1>9 DEF CallFails, Exit
  <2>4. fired' \in [Agent -> BOOLEAN]
    BY <1>9 DEF CallFails, Exit
  <2>5. lapse' \in [Agent -> BOOLEAN] /\ faults' \in 0..MaxFaults
    BY <1>9 DEF CallFails
  <2> QED
    BY <1>9, <2>1, <2>2, <2>3, <2>4, <2>5 DEF CallFails
<1>10. ASSUME NEW a \in Agent, Crash(a) PROVE RTypeOK'
    BY <1>10 DEF Crash, Exit, HangUp
<1>11. ASSUME MarkStaleAgentsOffline PROVE RTypeOK'
    BY <1>11 DEF MarkStaleAgentsOffline, Stale
<1>12. ASSUME InvalidateCache PROVE RTypeOK'
    BY <1>12 DEF InvalidateCache
<1>13. ASSUME PassTime PROVE RTypeOK'
    BY <1>13 DEF PassTime, Older, Ticking
<1>14. ASSUME OrchestratorRestart PROVE RTypeOK'
    BY <1>14 DEF OrchestratorRestart, Waiting
<1>15. ASSUME UNCHANGED vars PROVE RTypeOK'
    BY <1>15 DEF vars
<1> QED
    BY <1>1, <1>2, <1>3, <1>4, <1>5, <1>6, <1>7, <1>8, <1>9, <1>10, <1>11, <1>12, <1>13, <1>14,
       <1>15 DEF Next, Handle, Sweep

LEMMA RInvStep == Patient /\ RInv /\ [Next]_vars => RInv'
<1> SUFFICES ASSUME Patient, RInv, [Next]_vars PROVE RInv'
    OBVIOUS
<1> USE RegistryAssumption, IntervalBounds
        DEF RegistryAssumption, RTypeOK, Patient, table, agents, calls
<1>t. RTypeOK'
    BY RTypeStep DEF RInv
<1>i. RTypeOK /\ Clocks /\ Punctual /\ CacheInv
    BY DEF RInv
<1>1. ASSUME NEW a \in Agent, Start(a) PROVE RInv'
  <2>1. Clocks'
    BY <1>i, <1>1 DEF Clocks, Punctual, Start, Send, Waiting, Stored
  <2>2. Punctual'
    BY <1>i, <1>1 DEF Punctual, Clocks, Start, Send, Waiting, Stored
  <2>3. CacheInv'
    BY <1>i, <1>1 DEF CacheInv, CacheAgrees, Clocks, Punctual, Start, Send, Waiting, Stored
  <2> QED
    BY <1>t, <2>1, <2>2, <2>3 DEF RInv
<1>2. ASSUME NEW a \in Agent, Beat(a) PROVE RInv'
  <2>1. Clocks'
    BY <1>i, <1>2 DEF Clocks, Punctual, Beat, Send, Waiting, Stored
  <2>2. Punctual'
    BY <1>i, <1>2 DEF Punctual, Clocks, Beat, Send, Waiting, Stored
  <2>3. CacheInv'
    BY <1>i, <1>2 DEF CacheInv, CacheAgrees, Clocks, Punctual, Beat, Send, Waiting, Stored
  <2> QED
    BY <1>t, <2>1, <2>2, <2>3 DEF RInv
<1>3. ASSUME NEW a \in Agent, Return(a) PROVE RInv'
  <2>1. Clocks'
    BY <1>i, <1>3 DEF Clocks, Punctual, Return, Waiting, Stored
  <2>2. Punctual'
    BY <1>i, <1>3 DEF Punctual, Clocks, Return, Waiting, Stored
  <2>3. CacheInv'
    BY <1>i, <1>3 DEF CacheInv, CacheAgrees, Clocks, Punctual, Return, Waiting, Stored
  <2> QED
    BY <1>t, <2>1, <2>2, <2>3 DEF RInv
<1>4. ASSUME NEW a \in Agent, GetAgent(a) PROVE RInv'
  <2>1. Clocks'
    BY <1>i, <1>4 DEF Clocks, Punctual, GetAgent, Waiting, Stored
  <2>2. Punctual'
    BY <1>i, <1>4 DEF Punctual, Clocks, GetAgent, Waiting, Stored
  <2>3. CacheInv'
    BY <1>i, <1>4 DEF CacheInv, CacheAgrees, Clocks, Punctual, GetAgent, Waiting, Stored
  <2> QED
    BY <1>t, <2>1, <2>2, <2>3 DEF RInv
<1>5. ASSUME NEW a \in Agent, CreateAgent(a) PROVE RInv'
  <2>1. Clocks'
    BY <1>i, <1>5 DEF Clocks, Punctual, CreateAgent, Waiting, Stored
  <2>2. Punctual'
    BY <1>i, <1>5 DEF Punctual, Clocks, CreateAgent, Waiting, Stored
  <2>3. CacheInv'
    BY <1>i, <1>5 DEF CacheInv, CacheAgrees, Clocks, Punctual, CreateAgent, Waiting, Stored
  <2> QED
    BY <1>t, <2>1, <2>2, <2>3 DEF RInv
<1>6. ASSUME NEW a \in Agent, UpdateAgentHeartbeat(a) PROVE RInv'
  <2>1. Clocks'
    BY <1>i, <1>6 DEF Clocks, Punctual, UpdateAgentHeartbeat, Waiting, Stored
  <2>2. Punctual'
    BY <1>i, <1>6 DEF Punctual, Clocks, UpdateAgentHeartbeat, Waiting, Stored
  <2>3. CacheInv'
    BY <1>i, <1>6 DEF CacheInv, CacheAgrees, Clocks, Punctual, UpdateAgentHeartbeat,
           Waiting, Stored
  <2> QED
    BY <1>t, <2>1, <2>2, <2>3 DEF RInv
<1>7. ASSUME NEW a \in Agent, UpdateCache(a) PROVE RInv'
  <2>1. Clocks'
    BY <1>i, <1>7 DEF Clocks, Punctual, UpdateCache, Waiting, Stored
  <2>2. Punctual'
    BY <1>i, <1>7 DEF Punctual, Clocks, UpdateCache, Waiting, Stored
  <2>3. CacheInv'
    BY <1>i, <1>7 DEF CacheInv, CacheAgrees, Clocks, Punctual, UpdateCache, Waiting, Stored
  <2> QED
    BY <1>t, <2>1, <2>2, <2>3 DEF RInv
<1>8. ASSUME NEW a \in Agent, Answer(a) PROVE RInv'
  <2>1. Clocks'
    BY <1>i, <1>8 DEF Clocks, Punctual, Answer, Send, HangUp, Waiting, Stored
  <2>2. Punctual'
    BY <1>i, <1>8 DEF Punctual, Clocks, Answer, Send, HangUp, Waiting, Stored
  <2>3. CacheInv'
    BY <1>i, <1>8 DEF CacheInv, CacheAgrees, Clocks, Punctual, Answer, Send, HangUp,
           Waiting, Stored
  <2> QED
    BY <1>t, <2>1, <2>2, <2>3 DEF RInv
<1>9. ASSUME NEW a \in Agent, CallFails(a) PROVE RInv'
  <2>1. Clocks'
    BY <1>i, <1>9 DEF Clocks, Punctual, CallFails, Exit, HangUp, Waiting, Stored
  <2>2. Punctual'
    BY <1>i, <1>9 DEF Punctual, Clocks, CallFails, Exit, HangUp, Waiting, Stored
  <2>3. CacheInv'
    BY <1>i, <1>9 DEF CacheInv, CacheAgrees, Clocks, Punctual, CallFails, Exit, HangUp,
           Waiting, Stored
  <2> QED
    BY <1>t, <2>1, <2>2, <2>3 DEF RInv
<1>10. ASSUME NEW a \in Agent, Crash(a) PROVE RInv'
  <2>1. Clocks'
    BY <1>i, <1>10 DEF Clocks, Punctual, Crash, Exit, HangUp, Waiting, Stored
  <2>2. Punctual'
    BY <1>i, <1>10 DEF Punctual, Clocks, Crash, Exit, HangUp, Waiting, Stored
  <2>3. CacheInv'
    BY <1>i, <1>10 DEF CacheInv, CacheAgrees, Clocks, Punctual, Crash, Exit, HangUp,
           Waiting, Stored
  <2> QED
    BY <1>t, <2>1, <2>2, <2>3 DEF RInv
<1>11. ASSUME MarkStaleAgentsOffline PROVE RInv'
  <2>1. Clocks'
    BY <1>i, <1>11 DEF Clocks, Punctual, MarkStaleAgentsOffline, Stale, Waiting, Stored
  <2>2. Punctual'
    BY <1>i, <1>11 DEF Punctual, Clocks, MarkStaleAgentsOffline, Stale, Waiting, Stored
  <2>3. CacheInv'
    BY <1>i, <1>11 DEF CacheInv, CacheAgrees, Clocks, Punctual, MarkStaleAgentsOffline, Stale,
           Waiting, Stored
  <2> QED
    BY <1>t, <2>1, <2>2, <2>3 DEF RInv
<1>12. ASSUME InvalidateCache PROVE RInv'
  <2>1. Clocks'
    BY <1>i, <1>12 DEF Clocks, Punctual, InvalidateCache, Waiting, Stored
  <2>2. Punctual'
    BY <1>i, <1>12 DEF Punctual, Clocks, InvalidateCache, Waiting, Stored
  <2>3. CacheInv'
    BY <1>i, <1>12 DEF CacheInv, CacheAgrees, Clocks, Punctual, InvalidateCache, Waiting, Stored
  <2> QED
    BY <1>t, <2>1, <2>2, <2>3 DEF RInv
<1>13. ASSUME PassTime PROVE RInv'
  <2>1. Clocks'
    BY <1>i, <1>13 DEF Clocks, Punctual, PassTime, Older, Ticking, Waiting, Stored
  <2>2. Punctual'
    <3>0. SUFFICES ASSUME NEW a \in Agent, ~lapse[a]
                 PROVE  /\ status[a] \in {"online", "error"}
                        /\ pc[a] \notin {"down", "away"}
                        /\ pc[a] = "registering" =>
                            call[a] \in {"cache", "reply"} /\ age'[a] <= waited'[a]
                        /\ pc[a] = "idle" =>
                            /\ age'[a] <= Interval + Latency
                            /\ fired'[a] \/ age'[a] + timer'[a] <= Interval + Latency
                        /\ pc[a] = "beating" =>
                            \/ /\ call[a] \in {"check", "update"}
                               /\ age'[a] <= Interval + Latency + waited'[a]
                            \/ /\ call[a] \in {"cache", "reply"} /\ age'[a] <= waited'[a]
                               /\ fired'[a] \/ age'[a] + timer'[a] <= Interval
                        /\ pc[a] = "fetching" =>
                            /\ age'[a] <= Latency + waited'[a]
                            /\ fired'[a] \/ age'[a] + timer'[a] <= Interval
      BY <1>13 DEF Punctual, PassTime
    <3>1. age[a] \in Int /\ age'[a] \in Int /\ age'[a] <= age[a] + 1
      BY <1>i, <1>t, <1>13, <3>0 DEF PassTime, Older, Punctual
    <3>2. /\ waited[a] \in Nat
          /\ pc[a] \in Waiting => waited'[a] = waited[a] + 1
      BY <1>i, <1>13 DEF PassTime
    <3>3. /\ timer[a] \in Nat /\ timer[a] >= 1
          /\ Ticking(a) /\ timer[a] > 1 => timer'[a] = timer[a] - 1
      BY <1>i, <1>13 DEF PassTime, Clocks
    <3>4. (fired[a] => fired'[a]) /\ (Ticking(a) /\ timer[a] <= 1 => fired'[a])
      BY <1>13 DEF PassTime
    <3>5. Ticking(a) => fired'[a] \/ (~fired[a] /\ timer'[a] = timer[a] - 1)
      <4>1. timer[a] <= 1 \/ timer[a] > 1
        BY <3>3
      <4> QED
        BY <3>3, <3>4, <4>1
    <3>6. CASE pc[a] = "registering"
      BY <1>i, <3>0, <3>1, <3>2, <3>6 DEF Punctual, Waiting
    <3>7. CASE pc[a] = "idle"
      <4>1. ~fired[a] /\ Ticking(a)
        BY <1>13, <3>7 DEF PassTime, Ticking
      <4>2. age[a] + timer[a] <= Interval + Latency
        BY <1>i, <3>0, <3>7, <4>1 DEF Punctual
      <4> QED
        BY <1>i, <3>0, <3>1, <3>3, <3>5, <3>7, <4>1, <4>2 DEF Punctual
    <3>8. CASE pc[a] = "beating"
      <4>1. Ticking(a) /\ waited'[a] = waited[a] + 1
        BY <3>2, <3>8 DEF Ticking, Waiting
      <4>2. CASE call[a] \in {"check", "update"}
        BY <1>i, <3>0, <3>1, <3>2, <3>8, <4>1, <4>2 DEF Punctual
      <4>3. CASE call[a] \notin {"check", "update"}
        <5>1. /\ call[a] \in {"cache", "reply"} /\ age[a] <= waited[a]
              /\ fired[a] \/ age[a] + timer[a] <= Interval
          BY <1>i, <3>0, <3>8, <4>3 DEF Punctual
        <5>2. fired'[a] \/ age'[a] + timer'[a] <= Interval
          BY <3>1, <3>3, <3>5, <4>1, <5>1
        <5> QED
          BY <1>i, <3>0, <3>1, <3>2, <3>8, <4>1, <5>1, <5>2 DEF Punctual
      <4> QED
        BY <4>2, <4>3
    <3>9. CASE pc[a] = "fetching"
      <4>1. Ticking(a) /\ waited'[a] = waited[a] + 1
        BY <3>2, <3>9 DEF Ticking, Waiting
      <4>2. fired[a] \/ age[a] + timer[a] <= Interval
        BY <1>i, <3>0, <3>9 DEF Punctual
      <4>3. fired'[a] \/ age'[a] + timer'[a] <= Interval
        BY <3>1, <3>3, <3>5, <4>1, <4>2
      <4> QED
        BY <1>i, <3>0, <3>1, <3>2, <3>9, <4>1, <4>3 DEF Punctual
    <3> QED
      BY <1>i, <3>0, <3>6, <3>7, <3>8, <3>9 DEF Punctual, Waiting
  <2>3. CacheInv'
    BY <1>i, <1>13 DEF CacheInv, CacheAgrees, Clocks, Punctual, PassTime, Older, Ticking,
           Waiting, Stored
  <2> QED
    BY <1>t, <2>1, <2>2, <2>3 DEF RInv
<1>14. ASSUME OrchestratorRestart PROVE RInv'
  <2>1. Clocks'
    BY <1>i, <1>14 DEF Clocks, Punctual, OrchestratorRestart, Waiting, Stored
  <2>2. Punctual'
    BY <1>i, <1>14 DEF Punctual, Clocks, OrchestratorRestart, Waiting, Stored
  <2>3. CacheInv'
    BY <1>i, <1>14 DEF CacheInv, CacheAgrees, Clocks, Punctual, OrchestratorRestart,
           Waiting, Stored
  <2> QED
    BY <1>t, <2>1, <2>2, <2>3 DEF RInv
<1>15. ASSUME UNCHANGED vars PROVE RInv'
  <2>1. Clocks'
    BY <1>i, <1>15 DEF Clocks, Punctual, vars, Waiting, Stored
  <2>2. Punctual'
    BY <1>i, <1>15 DEF Punctual, Clocks, vars, Waiting, Stored
  <2>3. CacheInv'
    BY <1>i, <1>15 DEF CacheInv, CacheAgrees, Clocks, Punctual, vars, Waiting, Stored
  <2> QED
    BY <1>t, <2>1, <2>2, <2>3 DEF RInv
<1> QED
    BY <1>1, <1>2, <1>3, <1>4, <1>5, <1>6, <1>7, <1>8, <1>9, <1>10, <1>11, <1>12, <1>13, <1>14,
       <1>15 DEF Next, Handle, Sweep

LEMMA RInit == Init => RInv
<1> SUFFICES ASSUME Init PROVE RInv
    OBVIOUS
<1> USE RegistryAssumption, IntervalBounds DEF RegistryAssumption, Init, Waiting
<1>1. RTypeOK
    BY DEF RTypeOK
<1>2. Clocks
  <2>1. \A a \in Agent : pc[a] = "down" /\ call[a] = "none"
    OBVIOUS
  <2>2. \A a \in Agent : timer[a] = Interval
    OBVIOUS
  <2>3. Interval \in 1..Interval
    OBVIOUS
  <2> QED
    BY <2>1, <2>2, <2>3 DEF Clocks
<1>3. Punctual
    BY DEF Punctual
<1>4. CacheInv
    BY DEF CacheInv, CacheAgrees
<1> QED
    BY <1>1, <1>2, <1>3, <1>4 DEF RInv

\* The variables keep their types, whatever the clocks, the calls and the zone.
THEOREM RTypeCorrect == Spec => []RTypeOK
<1>1. Init => RTypeOK
    BY RInit DEF RInv
<1> QED
    BY <1>1, RTypeStep, PTL DEF Spec

\* The invariant itself: how old a row can get at each point of its agent's
\* loop, and what a handler about to write the cache still knows of the table.
THEOREM RInvCorrect == ASSUME Patient PROVE Spec => []RInv
<1>1. RInv /\ [Next]_vars => RInv'
    BY RInvStep
<1> QED
    BY <1>1, RInit, PTL DEF Spec

\* An agent whose calls are served in time, neither busy nor down since its
\* last stored heartbeat, is not marked offline by any sweep: for every number
\* of agents and every timeout, provided that two calls fit into a heartbeat
\* interval and that the orchestrator's local time is not ahead of UTC.
THEOREM PunctualCorrect ==
    ASSUME Patient PROVE Spec => []PunctualStaysOnline
<1>1. RInv => PunctualStaysOnline
    BY DEF RInv, Punctual, PunctualStaysOnline
<1> QED
    BY <1>1, RInvCorrect, PTL

\* Between the steps of its writers the registry's cache never contradicts the
\* table: a sweep cannot slip in between a stored heartbeat and its cache entry.
THEOREM CacheCorrect ==
    ASSUME Patient PROVE Spec => []CacheAgrees
<1>1. RInv => CacheAgrees
    BY DEF RInv, CacheInv
<1> QED
    BY <1>1, RInvCorrect, PTL
=============================================================================
