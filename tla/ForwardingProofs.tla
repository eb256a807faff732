-------------------------- MODULE ForwardingProofs --------------------------
(***************************************************************************)
(* Proofs about Forwarding for every set of processes, requests and        *)
(* reports, and every number of attempts: what the goroutines of an event  *)
(* tell the scoring engine and the messenger is what the file has.         *)
(***************************************************************************)
EXTENDS Forwarding, StartupProofs

Handlings == [step : {"none", "store", "lookup", "messenger", "reply"},
              of : Report \cup {"none"}]

\* No goroutine makes more attempts than it may.
Bounded == \A g \in Goroutine : send[g].attempt \in Attempt(g)

\* FTypeOK, and the domains it leaves open.
FTypes ==
    /\ LifeTypeOK
    /\ stored \in SUBSET Report
    /\ handling \in [Req -> Handlings]
    /\ scenario \in {"active", "completed", "deleted"}
    /\ pass \in [Server -> {"idle", "update", "announce"}]
    /\ send \in [Goroutine -> Send]
    /\ Bounded
    /\ air \in SUBSET Copies
    /\ inbox \in SUBSET Copies
    /\ cut \in SUBSET (Report \cup {Completion})

\* A handler at work belongs to a request that has begun at some process, and past
\* its UPDATE the result is stored.
Working(q) ==
    /\ req[q].is # "none" => req[q].on \in Server
    /\ handling[q].step # "none" => handling[q].of \in Report /\ Begun(q)
    /\ handling[q].step \in {"lookup", "messenger"} => handling[q].of \in stored

\* A pass past its count has seen every result.
Counted == \A p \in Server : pass[p] # "idle" => stored = Report

FInv ==
    /\ FTypes
    /\ \A q \in Req : Working(q)
    /\ Counted
    /\ StoredIsForwarded
    /\ CompletionIsTrue

-----------------------------------------------------------------------------
(* Types *)

LEMMA FailedType ==
    ASSUME NEW g \in Goroutine, send[g] \in Send, send[g].attempt \in Attempt(g)
    PROVE  /\ Failed(g) \in Send /\ Failed(g).is # "none"
           /\ Failed(g).attempt \in Attempt(g)
<1>1. g.to \in Receiver
    BY DEF Goroutine, Receiver
<1>2. RetryCount[g.to] \in Nat
    BY <1>1, ForwardingAssumption DEF ForwardingAssumption
<1> QED
    BY <1>2 DEF Failed, Tries, GivesUp, Send, Running, Attempt

LEMMA SpawnEffect ==
    ASSUME send \in [Goroutine -> Send], Bounded, NEW g \in Goroutine, Spawn(g)
    PROVE  /\ send' \in [Goroutine -> Send] /\ Bounded'
           /\ \A h \in Goroutine \ {g} : send'[h] = send[h]
           /\ send'[g].is # "none"
BY DEF Spawn, Send, Running, Bounded, Attempt

LEMMA StepEffect ==
    ASSUME handling \in [Req -> Handlings], NEW q \in Req,
           NEW s \in {"none", "store", "lookup", "messenger", "reply"}, Step(q, s)
    PROVE  /\ handling' \in [Req -> Handlings]
           /\ handling'[q].step = s /\ handling'[q].of = handling[q].of
           /\ \A o \in Req \ {q} : handling'[o] = handling[o]
BY DEF Step, Handlings

\* What becomes of a request in a step that is none of its handler's.
LEMMA ReqStep ==
    ASSUME LifeTypeOK, ProcessStep, NEW q \in Req
    PROVE  \/ req'[q] = NoReq
           \/ req[q] = NoReq /\ req'[q].on \in Server
           \/ req'[q].on = req[q].on /\ req'[q].is = req[q].is
<1> DEFINE Goal == \/ req'[q] = NoReq
                   \/ req[q] = NoReq /\ req'[q].on \in Server
                   \/ req'[q].on = req[q].on /\ req'[q].is = req[q].is
<1>1. CASE UNCHANGED req
    BY <1>1
<1>2. ASSUME NEW p \in Server, Gone(p)
      PROVE  Goal
    BY <1>2 DEF Gone
<1>3. CASE PassTime
    BY <1>3 DEF PassTime, LifeTypeOK
<1>4. ASSUME NEW p \in Server, MainStep(p)
      PROVE  UNCHANGED req \/ Gone(p)
    BY <1>4 DEF MainStep, Migrating, ReadApplied, SkipApplied, RejectModified, Execute,
       ExecuteTwice, Record, RecordTwice, Commit, StartLoops, Serve, CloseListener, Drained,
       Close, Exit, Fatal
<1>5. ASSUME NEW p \in Server, StopLoops(p) \/ Disturb(p) \/ LoopPass(p)
      PROVE  UNCHANGED req \/ Gone(p)
    BY <1>5 DEF StopLoops, Disturb, Open, Signal, BindFails, StatementFails, Crash, LoopPass,
       Fatal
<1>6. ASSUME NEW o \in Req, EndRequest(o) PROVE Goal
    BY <1>6 DEF EndRequest, LifeTypeOK
<1>7. ASSUME NEW o \in Req, NEW p \in Server, Accept(o, p) PROVE Goal
  <2>1. req'[o].on = p
    BY <1>7 DEF Accept, LifeTypeOK, NoReq
  <2> QED
    BY <1>7, <2>1 DEF Accept, LifeTypeOK
<1> QED
    BY <1>1, <1>2, <1>3, <1>4, <1>5, <1>6, <1>7 DEF ProcessStep

LEMMA ProcessTypes ==
    ASSUME FTypes, \A q \in Req : Working(q), ProcessStep
    PROVE  FTypes'
<1>1. LifeTypeOK'
    BY LifeTypeStep DEF FTypes, ProcessStep, LifeNext
<1>2. handling' \in [Req -> Handlings]
    BY DEF FTypes, ProcessStep, Handlings, NoHandling
<1>3. pass' \in [Server -> {"idle", "update", "announce"}]
    BY DEF FTypes, ProcessStep
<1>4. send' \in [Goroutine -> Send] /\ Bounded'
    BY DEF FTypes, ProcessStep, Send, Bounded, Attempt
<1>5. cut' \in SUBSET (Report \cup {Completion})
    BY DEF FTypes, ProcessStep, Working
<1> QED
    BY <1>1, <1>2, <1>3, <1>4, <1>5 DEF FTypes, ProcessStep

-----------------------------------------------------------------------------
(* The steps of processes, handlers, passes and goroutines *)

LEMMA CompletionFrom ==
    ASSUME CompletionIsTrue, cut \subseteq cut', scenario' = scenario,
           \A g \in Goroutine : send[g].is # "none" => send'[g].is # "none",
           \A g \in Goroutine : g.of = Completion /\ send'[g].is # "none" =>
                send[g].is # "none" \/ stored = Report,
           stored = Report => stored' = Report,
           \/ \A p \in Server : pass[p] = "announce" =>
                    pass'[p] = "announce" \/ Completion \in cut'
           \/ \E g \in Goroutine : g.of = Completion /\ send'[g].is # "none"
           \/ Completion \in cut'
    PROVE  CompletionIsTrue'
BY DEF CompletionIsTrue

LEMMA ProcessInv ==
    ASSUME FInv, ProcessStep
    PROVE  FInv'
<1>t. FTypes'
    BY ProcessTypes DEF FInv
<1>1. ASSUME NEW q \in Req PROVE Working(q)'
  <2>1. CASE req'[q] = NoReq
    BY <2>1 DEF Working, ProcessStep, NoHandling, NoReq
  <2>2. CASE req'[q] # NoReq
    <3>1. handling'[q] = handling[q] /\ stored' = stored
      BY <2>2 DEF ProcessStep
    <3>2. req[q] = NoReq => handling[q].step = "none"
      BY DEF FInv, Working, Begun, NoReq
    <3>3. CASE req'[q].on = req[q].on /\ req'[q].is = req[q].is
      BY <3>1, <3>3 DEF FInv, Working, Begun
    <3>4. CASE req[q] = NoReq /\ req'[q].on \in Server
      BY <3>1, <3>2, <3>4 DEF Working, Begun
    <3> QED
      BY <2>2, <3>3, <3>4, ReqStep DEF FInv, FTypes
  <2> QED
    BY <2>1, <2>2
<1>2. Counted'
    BY DEF FInv, Counted, ProcessStep
<1>s. \A g \in Goroutine : send'[g].is # "none" <=> send[g].is # "none"
    BY DEF ProcessStep, Running
<1>3. StoredIsForwarded'
  <2> SUFFICES ASSUME NEW r \in Report
               PROVE  /\ \A g \in Goroutine : g.of = r /\ send'[g].is # "none" => r \in stored'
                      /\ r \in stored' =>
                          \/ r \in cut'
                          \/ \E q \in Req : handling'[q].of = r
                                /\ handling'[q].step \in {"lookup", "messenger"}
                          \/ \E p \in Server :
                                send'[[of |-> r, to |-> "messenger", by |-> p]].is # "none"
    BY DEF StoredIsForwarded
  <2>1. stored' = stored /\ cut \subseteq cut'
    BY DEF ProcessStep
  <2>2. \A p \in Server : [of |-> r, to |-> "messenger", by |-> p] \in Goroutine
    BY DEF Goroutine, Receiver
  <2>3. ASSUME NEW q \in Req, handling[q].of = r, handling[q].step \in {"lookup", "messenger"}
        PROVE  r \in cut' \/ handling'[q] = handling[q]
    BY <2>3 DEF ProcessStep
  <2>4. r \in stored =>
            \/ r \in cut
            \/ \E q \in Req : handling[q].of = r /\ handling[q].step \in {"lookup", "messenger"}
            \/ \E p \in Server : send[[of |-> r, to |-> "messenger", by |-> p]].is # "none"
    BY DEF FInv, StoredIsForwarded
  <2>5. \A g \in Goroutine : g.of = r /\ send'[g].is # "none" => r \in stored
    BY <1>s DEF FInv, StoredIsForwarded
  <2> QED
    BY <1>s, <2>1, <2>2, <2>3, <2>4, <2>5
<1>4. CompletionIsTrue'
  <2>1. /\ stored' = stored /\ scenario' = scenario /\ cut \subseteq cut'
        /\ \A p \in Server : pass[p] = "announce" =>
                pass'[p] = "announce" \/ Completion \in cut'
    BY DEF ProcessStep, FInv, FTypes
  <2> QED
    BY <1>s, <2>1, CompletionFrom DEF FInv
<1> QED
    BY <1>t, <1>1, <1>2, <1>3, <1>4 DEF FInv

\* A step that only starts or moves goroutines it may start or move.
LEMMA SendInv ==
    ASSUME FInv, send' \in [Goroutine -> Send], Bounded',
           air' \in SUBSET Copies, inbox' \in SUBSET Copies,
           UNCHANGED <<lifeVars, stored, handling, scenario>>,
           cut' = cut \/ cut' = cut \cup {Completion},
           pass' \in [Server -> {"idle", "update", "announce"}], Counted',
           \/ \A p \in Server : pass[p] = "announce" => pass'[p] = "announce"
           \/ \E g \in Goroutine : g.of = Completion /\ send'[g].is # "none"
           \/ Completion \in cut',
           \A g \in Goroutine : send[g].is # "none" => send'[g].is # "none",
           \A g \in Goroutine : send'[g].is # "none" =>
                send[g].is # "none" \/ (g.of = Completion /\ stored = Report)
    PROVE  FInv'
<1>1. FTypes'
  <2>1. LifeTypeOK'
    BY LifeTypeStep DEF FInv, FTypes
  <2> QED
    BY <2>1 DEF FInv, FTypes
<1>2. \A q \in Req : Working(q)'
    BY DEF FInv, Working, Begun, lifeVars
<1>3. StoredIsForwarded'
  <2> SUFFICES ASSUME NEW r \in Report
               PROVE  /\ \A g \in Goroutine : g.of = r /\ send'[g].is # "none" => r \in stored'
                      /\ r \in stored' =>
                          \/ r \in cut'
                          \/ \E q \in Req : handling'[q].of = r
                                /\ handling'[q].step \in {"lookup", "messenger"}
                          \/ \E p \in Server :
                                send'[[of |-> r, to |-> "messenger", by |-> p]].is # "none"
    BY DEF StoredIsForwarded
  <2>1. \A p \in Server : [of |-> r, to |-> "messenger", by |-> p] \in Goroutine
    BY DEF Goroutine, Receiver
  <2>2. /\ \A g \in Goroutine : g.of = r /\ send[g].is # "none" => r \in stored
        /\ r \in stored =>
            \/ r \in cut
            \/ \E q \in Req : handling[q].of = r /\ handling[q].step \in {"lookup", "messenger"}
            \/ \E p \in Server : send[[of |-> r, to |-> "messenger", by |-> p]].is # "none"
    BY DEF FInv, StoredIsForwarded
  <2> QED
    BY <2>1, <2>2
<1>4. CompletionIsTrue'
    BY CompletionFrom DEF FInv
<1> QED
    BY <1>1, <1>2, <1>3, <1>4 DEF FInv

\* What StoredIsForwarded says of one result.
Sent(r) ==
    /\ \A g \in Goroutine : g.of = r /\ send[g].is # "none" => r \in stored
    /\ r \in stored =>
        \/ r \in cut
        \/ \E q \in Req : handling[q].of = r /\ handling[q].step \in {"lookup", "messenger"}
        \/ \E p \in Server : send[[of |-> r, to |-> "messenger", by |-> p]].is # "none"

LEMMA SentIs == StoredIsForwarded <=> \A r \in Report : Sent(r)
BY DEF StoredIsForwarded, Sent

\* A step of the handler of request q, which serves the result r.
LEMMA HandlerInv ==
    ASSUME FInv, NEW q \in Req, NEW r \in Report, LifeTypeOK',
           handling' \in [Req -> Handlings],
           \A o \in Req \ {q} : handling'[o] = handling[o] /\ req'[o] = req[o],
           stored' = stored \/ stored' = stored \cup {r},
           send' \in [Goroutine -> Send], Bounded',
           \A g \in Goroutine : g.of # r => send'[g] = send[g],
           \A g \in Goroutine : send[g].is # "none" => send'[g].is # "none",
           UNCHANGED <<scenario, pass, air, inbox, cut>>,
           Working(q)', Sent(r)', handling[q].step # "none" => handling[q].of = r
    PROVE  FInv'
<1>1. FTypes'
    BY DEF FInv, FTypes
<1>2. \A o \in Req : Working(o)'
    BY DEF FInv, Working, Begun
<1>3. Counted'
    BY DEF FInv, FTypes, Counted
<1>4. StoredIsForwarded'
  <2>r. Sent(r)'
    OBVIOUS
  <2>s. SUFFICES ASSUME NEW k \in Report PROVE Sent(k)'
    BY DEF Sent, StoredIsForwarded
  <2>1. CASE k = r
    BY <2>r, <2>1
  <2>2. Sent(k) /\ (k # r => (k \in stored' <=> k \in stored))
    BY SentIs DEF FInv
  <2>3. k # r => \A g \in Goroutine : g.of = k => (send'[g].is # "none" <=> send[g].is # "none")
    OBVIOUS
  <2>4. \A p \in Server : [of |-> k, to |-> "messenger", by |-> p] \in Goroutine
    BY DEF Goroutine, Receiver
  <2>5. k # r => \A o \in Req : /\ handling[o].of = k
                                 /\ handling[o].step \in {"lookup", "messenger"}
                                 => handling'[o] = handling[o]
    OBVIOUS
  <2> QED
    BY <2>1, <2>2, <2>3, <2>4, <2>5 DEF Sent
<1>5. CompletionIsTrue'
  <2>1. \A g \in Goroutine : g.of = Completion =>
            (send'[g].is # "none" <=> send[g].is # "none")
    BY ForwardingAssumption DEF ForwardingAssumption, Completion
  <2>2. stored = Report => stored' = Report
    BY DEF FInv, FTypes
  <2> QED
    BY <2>1, <2>2, CompletionFrom DEF FInv
<1> QED
    BY <1>1, <1>2, <1>3, <1>4, <1>5 DEF FInv

LEMMA HandleStep ==
    ASSUME FInv, NEW q \in Req, ReceiveReport(q) \/ Handle(q)
    PROVE  FInv'
<1>i. /\ FTypes /\ Working(q) /\ \A r \in Report : Sent(r)
      /\ handling \in [Req -> Handlings] /\ send \in [Goroutine -> Send] /\ Bounded
    BY SentIs DEF FInv, FTypes
<1>f. Fails(q) => faults' \in 0..MaxFaults
    BY <1>i, StartupAssumption DEF StartupAssumption, Fails, FTypes, LifeTypeOK
<1>g. \A r \in Report, p \in Server :
            /\ [of |-> r, to |-> "scoring", by |-> p] \in Goroutine
            /\ [of |-> r, to |-> "messenger", by |-> p] \in Goroutine
    BY DEF Goroutine, Receiver
<1>b. UNCHANGED send => Bounded'
    BY <1>i DEF Bounded
<1>1. CASE ReceiveReport(q)
  <2>1. BeginRequest(q)
    BY <1>1 DEF ReceiveReport
  <2>2. PICK r \in Report :
            /\ r \notin stored
            /\ handling' = [handling EXCEPT ![q] = [step |-> "store", of |-> r]]
    BY <1>1 DEF ReceiveReport
  <2>3. handling[q].step = "none"
    BY <1>i, <2>1 DEF Working, BeginRequest, Begun
  <2>4. LifeTypeOK'
    BY <1>i, <2>1, LifeTypeStep DEF FTypes, LifeNext
  <2>5. /\ handling' \in [Req -> Handlings] /\ handling'[q] = [step |-> "store", of |-> r]
        /\ \A o \in Req \ {q} : handling'[o] = handling[o]
    BY <1>i, <2>2 DEF Handlings
  <2>6. /\ req'[q].on = req[q].on /\ req'[q].is \in {"early", "late"}
        /\ \A o \in Req \ {q} : req'[o] = req[o]
    BY <1>i, <2>1 DEF BeginRequest, FTypes, LifeTypeOK
  <2>9. req[q].on \in Server
    BY <1>i, <2>1 DEF BeginRequest, Working
  <2>7. Working(q)'
    BY <1>i, <2>1, <2>5, <2>6, <2>9 DEF Working, Begun
  <2>8. Sent(r)'
    BY <1>i, <1>1, <2>2 DEF ReceiveReport, Sent
  <2> QED
    BY <1>b, <1>i, <1>1, <2>3, <2>4, <2>5, <2>6, <2>7, <2>8, HandlerInv DEF ReceiveReport
<1>2. CASE handling[q].step # "none" /\ Handle(q)
  <2>r. PICK r \in Report : r = handling[q].of
    BY <1>i, <1>2 DEF Working
  <2>1. r \in Report /\ r = handling[q].of /\ req[q].on \in Server /\ Begun(q)
    BY <1>i, <1>2, <2>r DEF Working, Begun
  <2>2. CASE Store(q)
    <3>1. LifeTypeOK'
      BY <1>i, <1>f, <2>2 DEF Store, FTypes, LifeTypeOK, fileVars
    <3>2. CASE stored' = stored \cup {r} /\ Step(q, "lookup")
      <4>1. /\ handling' \in [Req -> Handlings]
            /\ handling'[q].step = "lookup" /\ handling'[q].of = r
            /\ \A o \in Req \ {q} : handling'[o] = handling[o]
        BY <1>i, <2>1, <3>2, StepEffect
      <4>2. Working(q)' /\ Sent(r)'
        BY <2>1, <2>2, <3>2, <4>1 DEF Store, Working, Begun, Sent
      <4> QED
        BY <1>b, <1>i, <2>1, <2>2, <3>1, <3>2, <4>1, <4>2, HandlerInv DEF Store
    <3>3. CASE stored' = stored /\ Step(q, "reply")
      <4>1. /\ handling' \in [Req -> Handlings]
            /\ handling'[q].step = "reply" /\ handling'[q].of = r
            /\ \A o \in Req \ {q} : handling'[o] = handling[o]
        BY <1>i, <2>1, <3>3, StepEffect
      <4>2. handling[q].step = "store"
        BY <2>2 DEF Store
      <4>3. Working(q)'
        BY <2>1, <2>2, <4>1 DEF Store, Working, Begun
      <4>4. Sent(r)'
        <5>1. Sent(r) /\ send' = send /\ cut' = cut
          BY <1>i, <2>1, <2>2 DEF Store
        <5>2. \A o \in Req : handling[o].step \in {"lookup", "messenger"}
                             => handling'[o] = handling[o]
          BY <4>1, <4>2
        <5> QED
          BY <3>3, <5>1, <5>2 DEF Sent
      <4> QED
        BY <1>b, <1>i, <2>1, <2>2, <3>1, <3>3, <4>1, <4>3, <4>4, HandlerInv DEF Store
    <3> QED
      BY <2>1, <2>2, <3>2, <3>3 DEF Store
  <2>3. CASE Lookup(q)
    <3> DEFINE g == [of |-> r, to |-> "scoring", by |-> req[q].on]
    <3>1. g \in Goroutine /\ g.of = r /\ r \in stored
      BY <1>g, <1>i, <2>1, <2>3 DEF Lookup, Working
    <3>2. LifeTypeOK'
      BY <1>i, <1>f, <2>3 DEF Lookup, FTypes, LifeTypeOK, fileVars
    <3>3. /\ handling' \in [Req -> Handlings]
          /\ handling'[q].step = "messenger" /\ handling'[q].of = r
          /\ \A o \in Req \ {q} : handling'[o] = handling[o]
      BY <1>i, <2>1, <2>3, StepEffect DEF Lookup
    <3>4. /\ send' \in [Goroutine -> Send] /\ Bounded'
          /\ \A h \in Goroutine \ {g} : send'[h] = send[h]
          /\ send'[g].is # "none" \/ send'[g] = send[g]
      BY <1>b, <1>i, <2>1, <2>3, <3>1, SpawnEffect DEF Lookup
    <3>7. \A h \in Goroutine : h.of # r => send'[h] = send[h]
      BY <3>1, <3>4
    <3>5. Working(q)' /\ Sent(r)'
      BY <2>1, <2>3, <3>1, <3>3 DEF Lookup, Working, Begun, Sent
    <3> HIDE DEF g
    <3> QED
      BY <1>i, <2>1, <2>3, <3>1, <3>2, <3>3, <3>4, <3>5, <3>7, HandlerInv DEF Lookup
  <2>4. CASE TellMessenger(q)
    <3> DEFINE g == [of |-> r, to |-> "messenger", by |-> req[q].on]
    <3>1. g \in Goroutine /\ g.of = r /\ r \in stored
      BY <1>g, <1>i, <2>1, <2>4 DEF TellMessenger, Working
    <3>2. LifeTypeOK'
      BY <1>i, <2>4, LifeTypeStep DEF TellMessenger, FTypes
    <3>3. /\ handling' \in [Req -> Handlings]
          /\ handling'[q].step = "reply" /\ handling'[q].of = r
          /\ \A o \in Req \ {q} : handling'[o] = handling[o]
      BY <1>i, <2>1, <2>4, StepEffect DEF TellMessenger
    <3>4. /\ send' \in [Goroutine -> Send] /\ Bounded'
          /\ \A h \in Goroutine \ {g} : send'[h] = send[h]
          /\ send'[g].is # "none"
      BY <1>i, <2>1, <2>4, <3>1, SpawnEffect DEF TellMessenger
    <3>7. \A h \in Goroutine : h.of # r => send'[h] = send[h]
      BY <3>1, <3>4
    <3>5. Working(q)' /\ Sent(r)'
      BY <2>1, <2>4, <3>1, <3>3, <3>4 DEF TellMessenger, Working, Begun, Sent, lifeVars
    <3>6. \A o \in Req : req'[o] = req[o]
      BY <2>4 DEF TellMessenger, lifeVars
    <3> HIDE DEF g
    <3> QED
      BY <1>i, <2>1, <2>4, <3>1, <3>2, <3>3, <3>4, <3>5, <3>6, <3>7, HandlerInv DEF TellMessenger
  <2>5. CASE Reply(q)
    <3>1. LifeTypeOK'
      BY <1>i, <2>5, LifeTypeStep DEF Reply, FTypes, LifeNext
    <3>2. /\ handling' \in [Req -> Handlings] /\ handling'[q].step = "none"
          /\ \A o \in Req \ {q} : handling'[o] = handling[o] /\ req'[o] = req[o]
      BY <1>i, <2>5 DEF Reply, EndRequest, Handlings, NoHandling, FTypes, LifeTypeOK
    <3>6. req'[q] = NoReq
      BY <1>i, <2>5 DEF Reply, EndRequest, FTypes, LifeTypeOK
    <3>3. handling[q].step = "reply"
      BY <2>5 DEF Reply
    <3>4. Working(q)'
      BY <3>2, <3>6 DEF Working, NoReq
    <3>5. Sent(r)'
      <4>1. Sent(r) /\ send' = send /\ cut' = cut /\ stored' = stored
        BY <1>i, <2>1, <2>5 DEF Reply
      <4>2. \A o \in Req : handling[o].step \in {"lookup", "messenger"}
                           => handling'[o] = handling[o]
        BY <3>2, <3>3
      <4> QED
        BY <4>1, <4>2 DEF Sent
    <3> QED
      BY <1>b, <1>i, <2>1, <2>5, <3>1, <3>2, <3>4, <3>5, HandlerInv DEF Reply
  <2> QED
    BY <1>2, <2>2, <2>3, <2>4, <2>5 DEF Handle
<1> QED
    BY <1>1, <1>2 DEF Handle, Store, Lookup, TellMessenger, Reply

LEMMA PassStep ==
    ASSUME FInv, NEW p \in Server, CompletionStep(p)
    PROVE  FInv'
<1>i. FTypes /\ Counted
    BY DEF FInv
<1>1. CASE CountJobs(p)
  <2>1. Counted' /\ pass' \in [Server -> {"idle", "update", "announce"}]
    BY <1>i, <1>1 DEF CountJobs, Counted, FTypes
  <2>2. \A o \in Server : pass[o] = "announce" => pass'[o] = "announce"
    BY <1>i, <1>1 DEF CountJobs, FTypes
  <2>3. Bounded' /\ UNCHANGED <<lifeVars, stored, handling, scenario, send, air, inbox, cut>>
    BY <1>i, <1>1 DEF CountJobs, FTypes, Bounded
  <2> QED
    BY <1>i, <2>1, <2>2, <2>3, SendInv DEF FTypes
<1>2. CASE CompleteScenario(p)
  <2>1. /\ pass' \in [Server -> {"idle", "update", "announce"}]
        /\ scenario' \in {"active", "completed", "deleted"} /\ LifeTypeOK'
    BY <1>i, <1>2, LifeTypeStep DEF CompleteScenario, FTypes
  <2>2. Counted'
    BY <1>i, <1>2 DEF CompleteScenario, Counted, FTypes
  <2>3. FTypes'
    BY <1>i, <1>2, <2>1 DEF CompleteScenario, FTypes, Bounded
  <2>4. UNCHANGED <<stored, handling, send, inbox, cut, req>>
    BY <1>2 DEF CompleteScenario, lifeVars
  <2>5. scenario' = "completed" => pass'[p] = "announce"
    BY <1>i, <1>2 DEF CompleteScenario, FTypes
  <2>6. CompletionIsTrue'
    BY <2>4, <2>5 DEF FInv, CompletionIsTrue
  <2> QED
    BY <2>2, <2>3, <2>4, <2>6
       DEF FInv, Working, Begun, StoredIsForwarded
<1>3. CASE Announce(p)
  <2> DEFINE g == [of |-> Completion, to |-> "messenger", by |-> p]
  <2>1. stored = Report /\ pass' \in [Server -> {"idle", "update", "announce"}] /\ Counted'
    BY <1>i, <1>3 DEF Announce, Counted, FTypes
  <2>2. g \in Goroutine /\ g.of = Completion
    BY DEF Goroutine
  <2>3. /\ send' \in [Goroutine -> Send] /\ Bounded'
        /\ \A h \in Goroutine \ {g} : send'[h] = send[h]
        /\ send'[g].is # "none" \/ send'[g] = send[g]
    BY <1>i, <1>3, <2>2, SpawnEffect DEF Announce, FTypes, Bounded
  <2>4. /\ send'[g].is # "none" \/ Completion \in cut'
        /\ cut' = cut \/ cut' = cut \cup {Completion}
    BY <1>i, <1>3, <2>2, SpawnEffect DEF Announce, FTypes
  <2>5. UNCHANGED <<lifeVars, stored, handling, scenario, air, inbox>>
    BY <1>3 DEF Announce
  <2> HIDE DEF g
  <2> QED
    BY <1>i, <2>1, <2>2, <2>3, <2>4, <2>5, SendInv DEF FTypes
<1> QED
    BY <1>1, <1>2, <1>3 DEF CompletionStep

LEMMA NowInv ==
    ASSUME FInv, NEW g \in Goroutine, NEW s \in Send, s.is # "none", s.attempt \in Attempt(g),
           send[g].is # "none", Now(g, s), air' \in SUBSET Copies,
           UNCHANGED <<lifeVars, stored, handling, scenario, pass, inbox, cut>>
    PROVE  FInv'
<1>1. send' \in [Goroutine -> Send] /\ send'[g] = s
      /\ \A h \in Goroutine \ {g} : send'[h] = send[h]
    BY DEF FInv, FTypes, Now
<1>2. Counted' /\ FTypes
    BY DEF FInv, Counted
<1>3. /\ inbox' \in SUBSET Copies /\ Bounded'
      /\ pass' \in [Server -> {"idle", "update", "announce"}]
    BY <1>1, <1>2 DEF FTypes, Bounded, Attempt
<1>4. \A h \in Goroutine : send'[h].is # "none" <=> send[h].is # "none"
    BY <1>1
<1> QED
    BY <1>1, <1>2, <1>3, <1>4, SendInv

LEMMA SenderStep ==
    ASSUME FInv, NEW g \in Goroutine, SendStep(g) \/ Expire(g)
    PROVE  FInv'
<1>i. FTypes /\ send[g] \in Send /\ send[g].attempt \in Attempt(g)
    BY DEF FInv, FTypes, Bounded
<1>s. ASSUME NEW s \in {"flying", "taken", "stopped"}
      PROVE  LET t == [send[g] EXCEPT !.is = s] IN
             t \in Send /\ t.is # "none" /\ t.attempt \in Attempt(g)
    BY <1>i DEF Send, Running
<1>1. CASE Post(g)
  <2>1. Copy(g) \in Copies
    BY <1>i DEF Copy, Copies
  <2>2. air' \in SUBSET Copies
    BY <1>1, <1>i, <2>1 DEF Post, FTypes
  <2> QED
    BY <1>1, <1>s, <2>2, NowInv DEF Post
<1>2. CASE Taken(g)
    BY <1>2, <1>i, <1>s, NowInv DEF Taken, FTypes
<1>3. CASE NotTaken(g)
    BY <1>3, <1>i, FailedType, NowInv DEF NotTaken, FTypes
<1>4. CASE Expire(g)
    BY <1>4, <1>i, <1>s, NowInv DEF Expire, Running, FTypes
<1> QED
    BY <1>1, <1>2, <1>3, <1>4 DEF SendStep

LEMMA ReceiveInv ==
    ASSUME FInv, NEW m \in air, Receive(m)
    PROVE  FInv'
<1>1. air' \in SUBSET Copies /\ inbox' \in SUBSET Copies
    BY DEF Receive, FInv, FTypes
<1>2. UNCHANGED <<lifeVars, stored, handling, scenario, pass, send, cut>>
    BY DEF Receive
<1>3. /\ send' \in [Goroutine -> Send] /\ Bounded' /\ Counted'
      /\ pass' \in [Server -> {"idle", "update", "announce"}]
    BY <1>2 DEF FInv, FTypes, Bounded, Counted
<1> QED
    BY <1>1, <1>2, <1>3, SendInv

-----------------------------------------------------------------------------
(* The theorems *)

LEMMA FInvStep == FInv /\ [FNext]_fvars => FInv'
<1> SUFFICES ASSUME FInv, [FNext]_fvars PROVE FInv'
    OBVIOUS
<1>1. CASE UNCHANGED fvars
  <2>1. UNCHANGED <<lifeVars, stored, handling, scenario, pass, send, air, inbox, cut>>
    BY <1>1 DEF fvars, forwardVars
  <2>2. /\ Counted' /\ pass' \in [Server -> {"idle", "update", "announce"}]
        /\ send' \in [Goroutine -> Send] /\ Bounded'
        /\ air' \in SUBSET Copies /\ inbox' \in SUBSET Copies
    BY <2>1 DEF FInv, FTypes, Counted, Bounded
  <2> QED
    BY <2>1, <2>2, SendInv
<1>2. CASE DeleteScenario
  <2>1. FTypes'
    BY <1>2, LifeTypeStep DEF DeleteScenario, FInv, FTypes, Bounded
  <2> QED
    BY <1>2, <2>1 DEF DeleteScenario, lifeVars, FInv, Working, Begun, Counted,
       StoredIsForwarded, CompletionIsTrue
<1> QED
    BY <1>1, <1>2, ProcessInv, HandleStep, PassStep, SenderStep, ReceiveInv DEF FNext

LEMMA FInvInit == FInit => FInv
<1> SUFFICES ASSUME FInit PROVE FInv
    OBVIOUS
<1>1. FTypes
    BY LifeTypeInit, ForwardingAssumption
       DEF ForwardingAssumption, FInit, FTypes, NoHandling, Handlings, NoSend, Send, Running,
           Bounded, Attempt, Goroutine, Receiver
<1>2. \A q \in Req : Working(q)
    BY DEF FInit, LifeInit, Working, NoHandling, NoReq
<1>3. Counted /\ StoredIsForwarded /\ CompletionIsTrue
    BY DEF FInit, Counted, StoredIsForwarded, CompletionIsTrue, NoSend
<1> QED
    BY <1>1, <1>2, <1>3 DEF FInv

LEMMA FInvHolds == FSpec => []FInv
BY FInvInit, FInvStep, PTL DEF FSpec

\* The variables of the forwarders keep their types; no goroutine makes more
\* attempts than are configured.
THEOREM FTypeCorrect == FSpec => []FTypeOK
<1>1. FInv => FTypeOK
    BY DEF FInv, FTypes, FTypeOK, Handlings, Bounded
<1> QED
    BY <1>1, FInvHolds, PTL

\* The messenger is told of a result exactly if it was stored, unless the
\* process of its handler ended half-way: however many handlers, processes and
\* goroutines there are.
THEOREM StoredAlwaysForwarded == FSpec => []StoredIsForwarded
<1>1. FInv => StoredIsForwarded
    BY DEF FInv
<1> QED
    BY <1>1, FInvHolds, PTL

\* A completion the messenger hears of is one of a scenario all results of which
\* are stored; a completed scenario's is lost only to the end of the process, or to
\* a loop that came before main had set the forwarder.
THEOREM CompletionAlwaysTrue == FSpec => []CompletionIsTrue
<1>1. FInv => CompletionIsTrue
    BY DEF FInv
<1> QED
    BY <1>1, FInvHolds, PTL
-----------------------------------------------------------------------------
(* What became of the copies *)

\* The attempts before the current one were made, the current one when its answer
\* is awaited, and no other.
PostedOf(g) ==
    /\ \A n \in Nat : <<g, n>> \in air \cup inbox => n <= send[g].attempt
    /\ \A n \in Nat : n < send[g].attempt => <<g, n>> \in air \cup inbox
    /\ send[g].is \in {"flying", "taken", "failed"} => Copy(g) \in air \cup inbox
    /\ send[g].is = "taken" => Copy(g) \in inbox
    /\ send[g].is = "failed" => send[g].attempt = RetryCount[g.to]

LEMMA PostedKept ==
    ASSUME NEW g \in Goroutine, PostedOf(g),
           send'[g].attempt = send[g].attempt,
           send'[g].is \in {send[g].is, "try", "stopped"},
           air' \cup inbox' = air \cup inbox, inbox \subseteq inbox'
    PROVE  PostedOf(g)'
BY DEF PostedOf, Copy

LEMMA PostedBySender ==
    ASSUME FInv, NEW g \in Goroutine, SendStep(g) \/ Expire(g),
           NEW h \in Goroutine, PostedOf(h)
    PROVE  PostedOf(h)'
<1>i. /\ send \in [Goroutine -> Send] /\ send[g].attempt \in Attempt(g)
      /\ send[g].attempt \in Nat
    BY DEF FInv, FTypes, Bounded, Send
<1>1. CASE h # g
  <2>3. /\ \E s : Now(g, s)
        /\ inbox' = inbox
        /\ air' = air \/ air' = air \cup {Copy(g)}
    BY DEF SendStep, Post, Taken, NotTaken, Expire
  <2>1. send'[h] = send[h] /\ inbox' = inbox
        /\ \A n \in Nat : <<h, n>> \in air' <=> <<h, n>> \in air
    BY <1>1, <1>i, <2>3 DEF Now, Copy
  <2>2. send[h].attempt \in Nat
    BY <1>i DEF Send
  <2> QED
    BY <2>1, <2>2 DEF PostedOf, Copy
<1>2. CASE h = g /\ Post(g)
  <2>1. /\ send'[g].attempt = send[g].attempt /\ send'[g].is = "flying"
        /\ air' = air \cup {Copy(g)} /\ inbox' = inbox
    BY <1>2, <1>i DEF Post, Now, Send
  <2> QED
    BY <1>2, <1>i, <2>1 DEF PostedOf, Copy
<1>3. CASE h = g /\ Taken(g)
  <2>1. /\ send'[g].attempt = send[g].attempt /\ send'[g].is = "taken"
        /\ air' = air /\ inbox' = inbox /\ Copy(g) \in inbox
    BY <1>3, <1>i DEF Taken, Now, Send
  <2> QED
    BY <1>3, <2>1 DEF PostedOf, Copy
<1>4. CASE h = g /\ NotTaken(g)
  <2>1. send'[g] = Failed(g) /\ air' = air /\ inbox' = inbox /\ send[g].is = "flying"
    BY <1>4, <1>i DEF NotTaken, Now
  <2>2. RetryCount[g.to] \in Nat /\ send[g].attempt <= RetryCount[g.to]
    <3>1. g.to \in Receiver
      BY DEF Goroutine, Receiver
    <3> QED
      BY <1>i, <3>1, ForwardingAssumption DEF ForwardingAssumption, Attempt
  <2>3. CASE send[g].attempt < RetryCount[g.to]
    <3>1. send'[g].attempt = send[g].attempt + 1 /\ send'[g].is = "try"
      BY <2>1, <2>3 DEF Failed, Tries
    <3> QED
      BY <1>4, <1>i, <2>1, <3>1 DEF PostedOf, Copy
  <2>4. CASE ~(send[g].attempt < RetryCount[g.to])
    <3>1. send'[g].attempt = send[g].attempt /\ send'[g].is = "failed"
      BY <1>i, <2>1, <2>4 DEF Failed, GivesUp, Send
    <3>2. send[g].attempt = RetryCount[g.to]
      BY <1>i, <2>2, <2>4
    <3> QED
      BY <1>4, <2>1, <3>1, <3>2 DEF PostedOf, Copy
  <2> QED
    BY <2>3, <2>4
<1>5. CASE h = g /\ Expire(g)
    BY <1>5, <1>i, PostedKept DEF Expire, Now, Send
<1> QED
    BY <1>1, <1>2, <1>3, <1>4, <1>5 DEF SendStep

LEMMA PostedStep ==
    ASSUME FInv, [FNext]_fvars, NEW h \in Goroutine, PostedOf(h)
    PROVE  PostedOf(h)'
<1>i. send \in [Goroutine -> Send]
    BY DEF FInv, FTypes
<1>k. ASSUME send' = send \/ \E g \in Goroutine : Spawn(g), UNCHANGED <<air, inbox>>
      PROVE  PostedOf(h)'
  <2>1. send'[h].attempt = send[h].attempt /\ send'[h].is \in {send[h].is, "try"}
    BY <1>i, <1>k DEF Spawn, Send
  <2> QED
    BY <1>k, <2>1, PostedKept
<1>1. CASE ProcessStep
  <2>1. /\ send'[h].attempt = send[h].attempt /\ send'[h].is \in {send[h].is, "stopped"}
        /\ UNCHANGED <<air, inbox>>
    BY <1>1, <1>i DEF ProcessStep, Send
  <2> QED
    BY <2>1, PostedKept
<1>2. ASSUME NEW q \in Req, ReceiveReport(q) \/ Store(q) \/ Reply(q) PROVE PostedOf(h)'
    BY <1>2, <1>k DEF ReceiveReport, Store, Reply
<1>3. ASSUME NEW q \in Req, Lookup(q) \/ TellMessenger(q) PROVE PostedOf(h)'
  <2>1. handling[q].of \in Report /\ req[q].on \in Server
    BY <1>3 DEF Lookup, TellMessenger, FInv, Working, Begun
  <2>2. \A t \in Receiver : [of |-> handling[q].of, to |-> t, by |-> req[q].on] \in Goroutine
    BY <2>1 DEF Goroutine
  <2> QED
    BY <1>3, <1>k, <2>2 DEF Lookup, TellMessenger, Receiver
<1>4. ASSUME NEW p \in Server, CompletionStep(p) PROVE PostedOf(h)'
  <2>1. [of |-> Completion, to |-> "messenger", by |-> p] \in Goroutine
    BY DEF Goroutine, Receiver
  <2> QED
    BY <1>4, <1>k, <2>1 DEF CompletionStep, CountJobs, CompleteScenario, Announce
<1>5. CASE DeleteScenario \/ UNCHANGED fvars
    BY <1>5, <1>k DEF DeleteScenario, fvars, forwardVars
<1>6. ASSUME NEW g \in Goroutine, SendStep(g) \/ Expire(g) PROVE PostedOf(h)'
    BY <1>6, PostedBySender
<1>7. ASSUME NEW m \in air, Receive(m) PROVE PostedOf(h)'
  <2>1. air' \cup inbox' = air \cup inbox /\ inbox \subseteq inbox' /\ send' = send
    BY <1>7 DEF Receive
  <2> QED
    BY <2>1, PostedKept
<1> QED
    BY <1>1, <1>2, <1>3, <1>4, <1>5, <1>6, <1>7 DEF FNext, Handle

\* However many goroutines there are, whoever configures how many attempts, and in
\* whatever order or however late copies arrive: what a goroutine has concluded is
\* what became of its event.
THEOREM GivenUpCorrect == FSpec => []GivenUpOnlyAfterAll
<1> DEFINE Inv == \A g \in Goroutine : PostedOf(g)
<1>1. FInit => Inv
    BY DEF FInit, PostedOf, NoSend
<1>2. FInv /\ Inv /\ [FNext]_fvars => Inv'
    BY PostedStep
<1>3. FInv /\ Inv => GivenUpOnlyAfterAll
  <2> SUFFICES ASSUME FInv, NEW g \in Goroutine, PostedOf(g)
               PROVE  LET posted == {n \in Attempt(g) : <<g, n>> \in air \cup inbox} IN
                      /\ \A n \in posted : n <= send[g].attempt
                      /\ send[g].is = "taken" => Copy(g) \in inbox
                      /\ send[g].is = "failed" => posted = Attempt(g)
    BY DEF GivenUpOnlyAfterAll
  <2>1. g.to \in Receiver
    BY DEF Goroutine, Receiver
  <2>2. RetryCount[g.to] \in Nat /\ send[g].attempt \in Nat
    BY <2>1, ForwardingAssumption DEF ForwardingAssumption, FInv, FTypes, Send
  <2>3. ASSUME NEW n \in Attempt(g), send[g].is = "failed"
        PROVE  <<g, n>> \in air \cup inbox
    BY <2>2, <2>3 DEF PostedOf, Copy, Attempt
  <2>4. \A n \in Attempt(g) : n \in Nat
    BY <2>2 DEF Attempt
  <2> QED
    BY <2>3, <2>4 DEF PostedOf
<1> QED
    BY <1>1, <1>2, <1>3, FInvHolds, PTL DEF FSpec

-----------------------------------------------------------------------------
(* What main promises, with handlers and passes at work *)

\* Everything of main but the count of what has gone wrong.
withoutFaults == <<fileVars, stage, ticking, drained, req>>

\* A handler whose statement fails may use up a fault; every other step is one
\* of main, or none.
LEMMA LifeStep ==
    ASSUME [FNext]_fvars
    PROVE  [LifeNext]_lifeVars \/ UNCHANGED withoutFaults
<1>1. CASE ProcessStep
    BY <1>1 DEF ProcessStep, LifeNext
<1>2. ASSUME NEW q \in Req, ReceiveReport(q) PROVE LifeNext
    BY <1>2 DEF ReceiveReport, LifeNext
<1>3. ASSUME NEW q \in Req, Store(q) \/ Lookup(q) PROVE UNCHANGED withoutFaults
    BY <1>3 DEF Store, Lookup, withoutFaults
<1>4. ASSUME NEW q \in Req, TellMessenger(q) PROVE UNCHANGED lifeVars
    BY <1>4 DEF TellMessenger
<1>5. ASSUME NEW q \in Req, Reply(q) PROVE LifeNext
    BY <1>5 DEF Reply, LifeNext
<1>6. ASSUME NEW p \in Server, CompletionStep(p) PROVE UNCHANGED lifeVars
    BY <1>6 DEF CompletionStep, CountJobs, CompleteScenario, Announce
<1>7. CASE DeleteScenario
    BY <1>7 DEF DeleteScenario
<1>8. ASSUME \/ \E g \in Goroutine : SendStep(g) \/ Expire(g)
             \/ \E m \in air : Receive(m)
      PROVE  UNCHANGED lifeVars
    BY <1>8 DEF SendStep, Post, Taken, NotTaken, Receive, Expire
<1>9. CASE UNCHANGED fvars
    BY <1>9 DEF fvars
<1> QED
    BY <1>1, <1>2, <1>3, <1>4, <1>5, <1>6, <1>7, <1>8, <1>9 DEF FNext, Handle

LEMMA SchemaKeptByForwarding ==
    ASSUME SchemaInv, FInv, [FNext]_fvars
    PROVE  SchemaInv'
<1>1. CASE [LifeNext]_lifeVars
    BY <1>1, SchemaStep
<1>2. CASE UNCHANGED withoutFaults
  <2> USE <1>2 DEF withoutFaults, fileVars
  <2>1. LifeTypeOK'
    BY FInvStep DEF FInv, FTypes
  <2>2. SchemaIsRecorded' /\ LockHeld' /\ KnownIsThere' /\ PassedIsApplied'
    BY DEF SchemaInv, SchemaIsRecorded, LockHeld, KnownIsThere, PassedIsApplied
  <2>3. WorkIsNext'
    BY WorkKept DEF SchemaInv, WorkIsNext
  <2> QED
    BY <2>1, <2>2, <2>3 DEF SchemaInv
<1> QED
    BY <1>1, <1>2, LifeStep

LEMMA StopKeptByForwarding ==
    ASSUME StopInv, FInv, [FNext]_fvars
    PROVE  StopInv'
<1>1. CASE [LifeNext]_lifeVars
    BY <1>1, StopStep
<1>2. CASE UNCHANGED withoutFaults
  <2>1. LifeTypeOK'
    BY FInvStep DEF FInv, FTypes
  <2>2. ASSUME NEW p \in Server PROVE StopOf(p)'
    BY <1>2, StopKept DEF withoutFaults, StopInv
  <2> QED
    BY <2>1, <2>2 DEF StopInv
<1> QED
    BY <1>1, <1>2, LifeStep

\* With handlers, passes and goroutines at work, whatever fails or dies half-way,
\* the migrations in the file are still those that schema_version records, and a
\* process that serves has those of its release.
THEOREM SchemaHoldsUnderForwarding == FSpec => [](SchemaIsRecorded /\ WorksOnItsSchema)
<1>1. FInit => SchemaInv
    BY SchemaInvInit DEF FInit
<1>2. FInv /\ SchemaInv /\ [FNext]_fvars => SchemaInv'
    BY SchemaKeptByForwarding
<1>3. SchemaInv => SchemaIsRecorded /\ WorksOnItsSchema
    BY DEF SchemaInv, PassedIsApplied, WorksOnItsSchema
<1> QED
    BY <1>1, <1>2, <1>3, FInvHolds, PTL DEF FSpec

\* With handlers and passes at work, the file is closed on a handler only after the
\* whole wait, and on a report that came before the signal only when its own
\* time-out, or the whole wait, is over.
THEOREM ClosedOnlyAfterWaitingForHandlers == FSpec => []ClosedOnlyAfterWaiting
<1>1. FInit => StopInv
    BY StopInvInit DEF FInit
<1>2. FInv /\ StopInv /\ [FNext]_fvars => StopInv'
    BY StopKeptByForwarding
<1>3. StopInv => ClosedOnlyAfterWaiting
    BY StopInvSuffices
<1> QED
    BY <1>1, <1>2, <1>3, FInvHolds, PTL DEF FSpec
=============================================================================
