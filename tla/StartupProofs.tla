---------------------------- MODULE StartupProofs ----------------------------
(***************************************************************************)
(* Proofs about Startup for every set of processes, releases, migrations   *)
(* and requests, every time-out and every number of faults.                *)
(***************************************************************************)
EXTENDS Startup, TLAPS

\* A process in a transaction holds the write lock: there is one at a time.
LockHeld == \A p \in Server : stage[p] \in InTransaction => lock = p

\* The working copy is the file with the next migration applied, and its row.
WorkOf(p) ==
    /\ stage[p] = "record" =>
        \E v \in left[p] : IsNext(p, v) /\ work[p] = Apply(file, v)
    /\ stage[p] = "commit" =>
        \E v \in left[p] :
            /\ IsNext(p, v)
            /\ file.rows[v] = NoChecksum
            /\ work[p] = [Apply(file, v) EXCEPT !.rows[v] = bundle[p][v]]
WorkIsNext == \A p \in Server : WorkOf(p)

\* A row that was read is still there: rows are never changed or removed.
KnownIsThere ==
    \A p \in Server, v \in Version :
        known[p][v] # NoChecksum => file.rows[v] = known[p][v]

\* What the loop has passed is in the file, and it stops at nothing.
PassedIsApplied ==
    \A p \in Server :
        /\ left[p] \subseteq Bundled(p)
        /\ stage[p] \in Looping \cup {"close"} => left[p] = {}
        /\ stage[p] \in {"migrate"} \cup InTransaction \cup Looping \cup {"close"} =>
            \A v \in Bundled(p) \ left[p] : file.rows[v] = bundle[p][v]

SchemaInv ==
    /\ LifeTypeOK
    /\ SchemaIsRecorded
    /\ LockHeld
    /\ WorkIsNext
    /\ KnownIsThere
    /\ PassedIsApplied

-----------------------------------------------------------------------------
(* Types *)

LEMMA GoneType ==
    ASSUME LifeTypeOK, NEW p \in Server, Gone(p), faults' \in 0..MaxFaults
    PROVE  LifeTypeOK'
BY StartupAssumption
   DEF StartupAssumption, LifeTypeOK, Gone, Schema, Rows, Empty, Stages, NoReq

LEMMA ApplyType ==
    ASSUME NEW f \in Schema, NEW v \in Version, NEW c \in Checksum \cup {NoChecksum}
    PROVE  /\ Apply(f, v) \in Schema
           /\ [f EXCEPT !.rows[v] = c] \in Schema
           /\ [Apply(f, v) EXCEPT !.rows[v] = c] \in Schema
<1>1. /\ f.effects \in [Version -> 0..1]
      /\ f.rows \in Rows
    BY DEF Schema
<1>2. /\ [f.effects EXCEPT ![v] = 1] \in [Version -> 0..1]
      /\ [f.rows EXCEPT ![v] = c] \in Rows
    BY <1>1 DEF Rows
<1>3. \A g \in Schema, r \in Rows : [g EXCEPT !.rows = r] \in Schema
    BY DEF Schema
<1>4. \A g \in Schema, e \in [Version -> 0..1] : [g EXCEPT !.effects = e] \in Schema
    BY DEF Schema
<1>5. Apply(f, v) = [f EXCEPT !.effects = [f.effects EXCEPT ![v] = 1]]
    BY DEF Apply
<1>6. Apply(f, v) \in Schema
    BY <1>2, <1>4, <1>5
<1>7. \A g \in Schema : [g EXCEPT !.rows[v] = c] = [g EXCEPT !.rows = [g.rows EXCEPT ![v] = c]]
    OBVIOUS
<1>8. \A g \in Schema : [g.rows EXCEPT ![v] = c] \in Rows
    BY DEF Schema, Rows
<1>9. \A g \in Schema : [g EXCEPT !.rows[v] = c] \in Schema
    BY <1>3, <1>7, <1>8
<1> QED
    BY <1>6, <1>9

LEMMA LifeTypeStep == LifeTypeOK /\ [LifeNext]_lifeVars => LifeTypeOK'
<1> SUFFICES ASSUME LifeTypeOK, [LifeNext]_lifeVars PROVE LifeTypeOK'
    OBVIOUS
<1>g. ASSUME NEW p \in Server, Fatal(p) PROVE LifeTypeOK'
    BY <1>g, GoneType DEF Fatal, LifeTypeOK
<1>f. ASSUME NEW p \in Server, faults < MaxFaults, faults' = faults + 1, Gone(p)
      PROVE  LifeTypeOK'
  <2>1. faults' \in 0..MaxFaults
    BY <1>f, StartupAssumption DEF LifeTypeOK, StartupAssumption
  <2> QED
    BY <1>f, <2>1, GoneType
<1> USE DEF LifeTypeOK, fileVars, Goto, Stages
<1>1. ASSUME NEW p \in Server, Migrating(p) PROVE LifeTypeOK'
  <2>1. CASE ReadApplied(p)
    BY <2>1, StartupAssumption DEF ReadApplied, Bundled, Schema, Rows
  <2>2. CASE SkipApplied(p)
    BY <2>2 DEF SkipApplied
  <2>3. CASE RejectModified(p) \/ ExecuteTwice(p) \/ RecordTwice(p)
    BY <1>g, <2>3 DEF RejectModified, ExecuteTwice, RecordTwice
  <2>4. CASE Execute(p)
    <3>1. PICK v \in left[p] : work' = [work EXCEPT ![p] = Apply(file, v)]
      BY <2>4 DEF Execute
    <3>2. v \in Version
      OBVIOUS
    <3>3. Apply(file, v) \in Schema
      BY <3>2, ApplyType, StartupAssumption DEF StartupAssumption
    <3>4. work' \in [Server -> Schema] /\ lock' \in Server \cup {NoServer}
      BY <2>4, <3>1, <3>3 DEF Execute
    <3> QED
      BY <2>4, <3>4 DEF Execute
  <2>5. CASE Record(p)
    <3>1. PICK v \in left[p] : work' = [work EXCEPT ![p].rows[v] = bundle[p][v]]
      BY <2>5 DEF Record
    <3>2. bundle[p][v] \in Checksum \cup {NoChecksum} /\ v \in Version
      BY StartupAssumption DEF StartupAssumption
    <3>3. work' = [work EXCEPT ![p] = [work[p] EXCEPT !.rows[v] = bundle[p][v]]]
      BY <3>1
    <3>4. work' \in [Server -> Schema]
      BY <3>2, <3>3, ApplyType
    <3> QED
      BY <2>5, <3>4 DEF Record
  <2>6. CASE Commit(p)
    BY <2>6 DEF Commit, Empty, Schema, Rows
  <2> QED
    BY <1>1, <2>1, <2>2, <2>3, <2>4, <2>5, <2>6 DEF Migrating
<1>2. ASSUME NEW p \in Server, StartLoops(p) PROVE LifeTypeOK'
    BY <1>2 DEF StartLoops, Empty, Rows
<1>3. ASSUME NEW p \in Server,
             \/ Serve(p) \/ CloseListener(p) \/ Drained(p) \/ Close(p) \/ StopLoops(p)
             \/ Open(p) \/ Signal(p)
      PROVE  LifeTypeOK'
    BY <1>3 DEF Serve, CloseListener, Drained, Close, StopLoops, Open, Signal
<1>4. ASSUME NEW p \in Server, Exit(p) \/ BindFails(p) PROVE LifeTypeOK'
    BY <1>4, <1>g DEF Exit, BindFails
<1>5. ASSUME NEW p \in Server, StatementFails(p) \/ Crash(p) PROVE LifeTypeOK'
    BY <1>5, <1>f DEF StatementFails, Crash
<1>6. ASSUME NEW p \in Server, LoopPass(p) PROVE LifeTypeOK'
    BY <1>6 DEF LoopPass
<1>7. ASSUME NEW q \in Req, BeginRequest(q) PROVE LifeTypeOK'
    BY <1>7 DEF BeginRequest
<1>11. ASSUME NEW q \in Req, NEW p \in Server, Accept(q, p) PROVE LifeTypeOK'
    BY <1>11, StartupAssumption DEF Accept, NoReq, StartupAssumption
<1>8. ASSUME NEW q \in Req, EndRequest(q) PROVE LifeTypeOK'
    BY <1>8, StartupAssumption DEF EndRequest, NoReq, StartupAssumption
<1>9. ASSUME PassTime PROVE LifeTypeOK'
  <2>1. \A n \in 0..ShutdownTimeout : Clip(n, ShutdownTimeout) \in 0..ShutdownTimeout
    BY StartupAssumption DEF Clip, StartupAssumption
  <2>2. \A n \in 0..RequestTimeout : Clip(n, RequestTimeout) \in 0..RequestTimeout
    BY StartupAssumption DEF Clip, StartupAssumption
  <2> QED
    BY <1>9, <2>1, <2>2 DEF PassTime, NoReq
<1>10. CASE UNCHANGED lifeVars
    BY <1>10 DEF lifeVars
<1> QED
    BY <1>1, <1>2, <1>3, <1>4, <1>5, <1>6, <1>7, <1>8, <1>9, <1>10, <1>11
    DEF LifeNext, MainStep, Disturb

LEMMA LifeTypeInit == LifeInit => LifeTypeOK
BY StartupAssumption
   DEF StartupAssumption, LifeInit, LifeTypeOK, Empty, Schema, Rows, Stages, NoReq

\* The variables of the model of main have their types, whatever processes of
\* whatever releases run on one file.
THEOREM LifeTypeCorrect == LifeSpec => []LifeTypeOK
<1>1. LifeInit => LifeTypeOK
    BY LifeTypeInit
<1>2. LifeTypeOK /\ [LifeNext]_lifeVars => LifeTypeOK'
    BY LifeTypeStep
<1> QED
    BY <1>1, <1>2, PTL DEF LifeSpec

-----------------------------------------------------------------------------
(* The schema *)

\* The next migration is one.
LEMMA NextIsUnique ==
    ASSUME LifeTypeOK, NEW p \in Server, NEW v, NEW w, IsNext(p, v), IsNext(p, w)
    PROVE  v = w
<1>1. v \in Version /\ w \in Version
    BY DEF LifeTypeOK, IsNext
<1>2. v \in Nat /\ w \in Nat
    BY <1>1, StartupAssumption DEF StartupAssumption
<1>3. v <= w /\ w <= v
    BY DEF IsNext
<1> QED
    BY <1>2, <1>3

\* The work of a process stands when the step is another's, or when it is over.
LEMMA WorkKept ==
    ASSUME NEW p \in Server, WorkOf(p), file' = file,
           stage'[p] = stage[p], left'[p] = left[p], work'[p] = work[p]
    PROVE  WorkOf(p)'
BY DEF WorkOf, IsNext, Apply

LEMMA WorkIdle ==
    ASSUME NEW p \in Server, stage'[p] \notin InTransaction
    PROVE  WorkOf(p)'
BY DEF WorkOf, InTransaction

\* A process that ends takes its transaction with it and leaves the file alone.
LEMMA GoneSchema ==
    ASSUME SchemaInv, NEW p \in Server, Gone(p), LifeTypeOK'
    PROVE  SchemaInv'
<1> USE DEF SchemaInv, LifeTypeOK, Gone, Schema, Rows, Empty
<1>1. SchemaIsRecorded'
    BY DEF SchemaIsRecorded
<1>2. LockHeld'
    BY DEF LockHeld, InTransaction, Stages
<1>3. WorkIsNext'
  <2>1. ASSUME NEW q \in Server PROVE WorkOf(q)'
    <3>1. CASE q = p
      BY <3>1, WorkIdle DEF InTransaction
    <3>2. CASE q # p
      BY <3>2, WorkKept DEF WorkIsNext
    <3> QED
      BY <3>1, <3>2
  <2> QED
    BY <2>1 DEF WorkIsNext
<1>4. KnownIsThere'
    BY DEF KnownIsThere
<1>5. PassedIsApplied'
    BY DEF PassedIsApplied, Bundled, InTransaction, Looping
<1> QED
    BY <1>1, <1>2, <1>3, <1>4, <1>5

\* A step that leaves the file and the migrations alone, and moves a process
\* among the stages after them.
LEMMA LaterSchema ==
    ASSUME SchemaInv, LifeTypeOK', UNCHANGED fileVars, NEW p \in Server,
           NEW s \in Stages \ ({"migrate"} \cup InTransaction), stage' = [stage EXCEPT ![p] = s],
           s \in Looping \cup {"close"} => stage[p] \in Looping
    PROVE  SchemaInv'
<1> USE DEF SchemaInv, LifeTypeOK, fileVars
<1>1. SchemaIsRecorded'
    BY DEF SchemaIsRecorded
<1>2. LockHeld'
    BY DEF LockHeld, InTransaction
<1>3. WorkIsNext'
  <2>1. ASSUME NEW q \in Server PROVE WorkOf(q)'
    <3>1. CASE q = p
      BY <3>1, WorkIdle
    <3>2. CASE q # p
      BY <3>2, WorkKept DEF WorkIsNext
    <3> QED
      BY <3>1, <3>2
  <2> QED
    BY <2>1 DEF WorkIsNext
<1>4. KnownIsThere'
    BY DEF KnownIsThere
<1>5. PassedIsApplied'
    BY DEF PassedIsApplied, Bundled, InTransaction, Looping
<1> QED
    BY <1>1, <1>2, <1>3, <1>4, <1>5

LEMMA CommitSchema ==
    ASSUME SchemaInv, LifeTypeOK', NEW p \in Server, Commit(p)
    PROVE  SchemaInv'
<1> USE DEF SchemaInv
<1>1. PICK v \in left[p] :
        /\ IsNext(p, v)
        /\ file.rows[v] = NoChecksum
        /\ work[p] = [Apply(file, v) EXCEPT !.rows[v] = bundle[p][v]]
    BY DEF Commit, WorkIsNext, WorkOf
<1>2. v \in Version /\ bundle[p][v] # NoChecksum /\ v \in Nat
    BY StartupAssumption DEF StartupAssumption, PassedIsApplied, Bundled
<1>3. /\ file'.effects = [file.effects EXCEPT ![v] = 1]
      /\ file'.rows = [file.rows EXCEPT ![v] = bundle[p][v]]
    BY <1>1, <1>2 DEF Commit, Apply, LifeTypeOK, Schema
<1>4. /\ file.effects \in [Version -> 0..1] /\ file.rows \in [Version -> Checksum \cup {NoChecksum}]
      /\ left \in [Server -> SUBSET Version] /\ stage \in [Server -> Stages]
    BY DEF LifeTypeOK, Schema, Rows
<1>5. \A q \in Server : q # p => stage[q] \notin InTransaction
    BY DEF LockHeld, Commit, InTransaction
<1>6. /\ stage' = [stage EXCEPT ![p] = "migrate"]
      /\ left' = [left EXCEPT ![p] = left[p] \ {v}]
  <2>1. \A w \in left[p] : IsNext(p, w) <=> w = v
    BY <1>1, NextIsUnique DEF SchemaInv
  <2>2. {w \in left[p] : ~IsNext(p, w)} = left[p] \ {v}
    BY <2>1
  <2> QED
    BY <1>4, <2>2 DEF Commit, Goto
<1>7. SchemaIsRecorded'
    BY <1>2, <1>3, <1>4 DEF SchemaIsRecorded
<1>8. LockHeld'
    BY <1>4, <1>5, <1>6 DEF LockHeld, InTransaction
<1>9. WorkIsNext'
    BY <1>4, <1>5, <1>6 DEF WorkIsNext, WorkOf, InTransaction
<1>10. KnownIsThere'
    BY <1>1, <1>2, <1>3, <1>4 DEF KnownIsThere, Commit
<1>11. PassedIsApplied'
  <2>1. \A q \in Server : \A w \in Bundled(q) :
            file.rows[w] = bundle[q][w] => file'.rows[w] = bundle[q][w]
    BY <1>1, <1>2, <1>3, <1>4 DEF Bundled
  <2>2. file'.rows[v] = bundle[p][v]
    BY <1>2, <1>3, <1>4
  <2>3. stage[p] \in InTransaction
    BY DEF Commit, InTransaction
  <2> QED
    BY <1>4, <1>6, <2>1, <2>2, <2>3 DEF PassedIsApplied, Bundled, InTransaction, Looping
<1> QED
    BY <1>7, <1>8, <1>9, <1>10, <1>11

LEMMA SchemaStep == SchemaInv /\ [LifeNext]_lifeVars => SchemaInv'
<1> SUFFICES ASSUME SchemaInv, [LifeNext]_lifeVars PROVE SchemaInv'
    OBVIOUS
<1>t. LifeTypeOK'
    BY LifeTypeStep DEF SchemaInv
<1>g. ASSUME NEW p \in Server, Gone(p) PROVE SchemaInv'
    BY <1>t, <1>g, GoneSchema
<1>s. ASSUME UNCHANGED <<fileVars, stage>> PROVE SchemaInv'
  <2> USE <1>s DEF SchemaInv, fileVars
  <2>1. SchemaIsRecorded' /\ LockHeld' /\ KnownIsThere' /\ PassedIsApplied'
    BY DEF SchemaIsRecorded, LockHeld, KnownIsThere, PassedIsApplied
  <2>2. WorkIsNext'
    BY WorkKept DEF WorkIsNext
  <2> QED
    BY <1>t, <2>1, <2>2
<1>1. ASSUME NEW p \in Server, ReadApplied(p) PROVE SchemaInv'
  <2> USE <1>1 DEF SchemaInv, LifeTypeOK, ReadApplied, Goto
  <2>1. SchemaIsRecorded' /\ KnownIsThere'
    BY DEF SchemaIsRecorded, KnownIsThere
  <2>2. LockHeld'
    BY DEF LockHeld, InTransaction
  <2>3. WorkIsNext'
    <3>1. ASSUME NEW q \in Server PROVE WorkOf(q)'
      <4>1. CASE q = p
        BY <4>1, WorkIdle DEF InTransaction
      <4>2. CASE q # p
        BY <4>2, WorkKept DEF WorkIsNext
      <4> QED
        BY <4>1, <4>2
    <3> QED
      BY <3>1 DEF WorkIsNext
  <2>4. PassedIsApplied'
    BY DEF PassedIsApplied, Bundled, InTransaction, Looping
  <2> QED
    BY <1>t, <2>1, <2>2, <2>3, <2>4
<1>2. ASSUME NEW p \in Server, SkipApplied(p) PROVE SchemaInv'
  <2> USE <1>2 DEF SchemaInv, LifeTypeOK
  <2>1. SchemaIsRecorded' /\ KnownIsThere' /\ LockHeld'
    BY DEF SchemaIsRecorded, KnownIsThere, LockHeld, SkipApplied
  <2>2. PICK v \in left[p] : known[p][v] = bundle[p][v] /\ left' = [left EXCEPT ![p] = @ \ {v}]
    BY DEF SkipApplied
  <2>3. WorkIsNext'
    <3>1. ASSUME NEW q \in Server PROVE WorkOf(q)'
      <4>1. CASE q = p
        BY <4>1, WorkIdle DEF InTransaction, SkipApplied
      <4>2. CASE q # p
        BY <2>2, <4>2, WorkKept DEF WorkIsNext, SkipApplied
      <4> QED
        BY <4>1, <4>2
    <3> QED
      BY <3>1 DEF WorkIsNext
  <2>4. v \in Bundled(p) => file.rows[v] = bundle[p][v]
    BY <2>2 DEF KnownIsThere, Bundled
  <2>5. PassedIsApplied'
    BY <2>2, <2>4 DEF PassedIsApplied, Bundled, InTransaction, Looping, SkipApplied
  <2> QED
    BY <1>t, <2>1, <2>3, <2>5
<1>3. ASSUME NEW p \in Server, Execute(p) PROVE SchemaInv'
  <2> USE <1>3 DEF SchemaInv, LifeTypeOK, Goto
  <2>1. SchemaIsRecorded' /\ KnownIsThere'
    BY DEF SchemaIsRecorded, KnownIsThere, Execute
  <2>2. LockHeld'
    BY StartupAssumption DEF LockHeld, InTransaction, Execute, StartupAssumption
  <2>3. PICK v \in left[p] : IsNext(p, v) /\ work' = [work EXCEPT ![p] = Apply(file, v)]
    BY DEF Execute
  <2>4. \A q \in Server : stage[q] \notin InTransaction
    BY StartupAssumption DEF LockHeld, Execute, StartupAssumption
  <2>5. WorkIsNext'
    BY <2>3, <2>4 DEF WorkIsNext, WorkOf, IsNext, Apply, InTransaction, Execute
  <2>6. PassedIsApplied'
    BY DEF PassedIsApplied, Bundled, InTransaction, Looping, Execute
  <2> QED
    BY <1>t, <2>1, <2>2, <2>5, <2>6
<1>4. ASSUME NEW p \in Server, Record(p) PROVE SchemaInv'
  <2> USE <1>4 DEF SchemaInv, LifeTypeOK, Goto
  <2>1. SchemaIsRecorded' /\ KnownIsThere'
    BY DEF SchemaIsRecorded, KnownIsThere, Record
  <2>2. LockHeld'
    BY DEF LockHeld, InTransaction, Record
  <2>3. PICK v \in left[p] : /\ IsNext(p, v)
                             /\ work[p].rows[v] = NoChecksum
                             /\ work' = [work EXCEPT ![p].rows[v] = bundle[p][v]]
    BY DEF Record
  <2>4. PICK w \in left[p] : IsNext(p, w) /\ work[p] = Apply(file, w)
    BY DEF WorkIsNext, WorkOf, Record
  <2>5. w = v
    BY <2>3, <2>4, NextIsUnique
  <2>6. file.rows[v] = NoChecksum
    BY <2>3, <2>4, <2>5 DEF Apply, Schema
  <2>7. work'[p] = [Apply(file, v) EXCEPT !.rows[v] = bundle[p][v]]
    BY <2>3, <2>4, <2>5
  <2>8. /\ left' = left /\ file' = file /\ stage' = [stage EXCEPT ![p] = "commit"]
        /\ \A q \in Server : q # p => work'[q] = work[q]
    BY <2>3 DEF Record
  <2>9. ASSUME NEW q \in Server PROVE WorkOf(q)'
    <3>1. CASE q = p
      BY <2>3, <2>6, <2>7, <2>8, <3>1 DEF WorkOf, IsNext, Apply
    <3>2. CASE q # p
      BY <2>8, <3>2, WorkKept DEF WorkIsNext
    <3> QED
      BY <3>1, <3>2
  <2>10. WorkIsNext'
    BY <2>9 DEF WorkIsNext, WorkOf
  <2>11. PassedIsApplied'
    BY DEF PassedIsApplied, Bundled, InTransaction, Looping, Record
  <2> QED
    BY <1>t, <2>1, <2>2, <2>10, <2>11
<1>5. ASSUME NEW p \in Server, Commit(p) PROVE SchemaInv'
    BY <1>5, <1>t, CommitSchema
<1>6. ASSUME NEW p \in Server, StartLoops(p) PROVE SchemaInv'
  <2> USE <1>6 DEF SchemaInv, LifeTypeOK, StartLoops, Goto
  <2>1. SchemaIsRecorded' /\ KnownIsThere'
    BY DEF SchemaIsRecorded, KnownIsThere, Empty
  <2>2. LockHeld'
    BY DEF LockHeld, InTransaction
  <2>3. ASSUME NEW q \in Server PROVE WorkOf(q)'
    <3>1. CASE q = p
      BY <3>1, WorkIdle DEF InTransaction
    <3>2. CASE q # p
      BY <3>2, WorkKept DEF WorkIsNext
    <3> QED
      BY <3>1, <3>2
  <2>4. PassedIsApplied'
    BY DEF PassedIsApplied, Bundled, InTransaction, Looping
  <2> QED
    BY <1>t, <2>1, <2>2, <2>3, <2>4 DEF WorkIsNext
<1>7. ASSUME NEW p \in Server,
             \/ Serve(p) \/ Signal(p) \/ CloseListener(p) \/ Drained(p) \/ StopLoops(p)
             \/ Close(p) \/ Open(p)
      PROVE  SchemaInv'
  <2> DEFINE Later == Stages \ ({"migrate"} \cup InTransaction)
  <2>1. /\ UNCHANGED fileVars
        /\ \E s \in Later : /\ stage' = [stage EXCEPT ![p] = s]
                            /\ s \in Looping \cup {"close"} => stage[p] \in Looping
    BY <1>7 DEF Serve, Signal, CloseListener, Drained, StopLoops, Close, Open, Goto, Stages,
       InTransaction, Looping
  <2> QED
    BY <1>t, <2>1, LaterSchema
<1>8. ASSUME NEW p \in Server,
             \/ RejectModified(p) \/ ExecuteTwice(p) \/ RecordTwice(p) \/ Exit(p)
             \/ BindFails(p) \/ StatementFails(p) \/ Crash(p)
      PROVE  SchemaInv'
    BY <1>8, <1>g DEF RejectModified, ExecuteTwice, RecordTwice, Exit, BindFails,
       StatementFails, Crash, Fatal
<1>9. ASSUME \/ \E p \in Server : LoopPass(p) \/ \E q \in Req : Accept(q, p)
             \/ \E q \in Req : BeginRequest(q) \/ EndRequest(q)
             \/ PassTime \/ UNCHANGED lifeVars
      PROVE  SchemaInv'
    BY <1>9, <1>s DEF LoopPass, Accept, BeginRequest, EndRequest, PassTime, lifeVars, fileVars
<1> QED
    BY <1>1, <1>2, <1>3, <1>4, <1>5, <1>6, <1>7, <1>8, <1>9
    DEF LifeNext, MainStep, Migrating, Disturb

LEMMA SchemaInvInit == LifeInit => SchemaInv
BY LifeTypeInit, StartupAssumption
   DEF StartupAssumption, LifeInit, SchemaInv, SchemaIsRecorded, LockHeld, WorkIsNext, WorkOf,
       KnownIsThere, PassedIsApplied, Empty, InTransaction, Looping, Bundled

LEMMA SchemaInvHolds == LifeSpec => []SchemaInv
<1>1. LifeInit => SchemaInv
    BY SchemaInvInit
<1>2. SchemaInv /\ [LifeNext]_lifeVars => SchemaInv'
    BY SchemaStep
<1> QED
    BY <1>1, <1>2, PTL DEF LifeSpec

\* However many processes migrate one file, and wherever they die, the migrations
\* in it are those that schema_version records.
THEOREM SchemaAlwaysRecorded == LifeSpec => []SchemaIsRecorded
<1>1. SchemaInv => SchemaIsRecorded
    BY DEF SchemaInv
<1> QED
    BY <1>1, SchemaInvHolds, PTL

\* A process that serves has the schema of its own release below it: the rows
\* it read while others were migrating cannot have misled it.
THEOREM AlwaysWorksOnItsSchema == LifeSpec => []WorksOnItsSchema
<1>1. SchemaInv => WorksOnItsSchema
    BY DEF SchemaInv, PassedIsApplied, WorksOnItsSchema
<1> QED
    BY <1>1, SchemaInvHolds, PTL

-----------------------------------------------------------------------------
(* The shutdown *)

Stopping == {"stop", "close", "exit"}

\* A request from before the signal is as old as the wait for it, or cancelled.
OldAsTheWait(p) ==
    \A q \in Req : req[q].on = p /\ req[q].is = "early" =>
        req[q].age >= RequestTimeout \/ req[q].age >= drained[p]

\* Once the wait is over, a connection is left only if it was waited for in full;
\* no loop is inside a pass once they are stopped.
StopOf(p) ==
    /\ stage[p] \notin Waiting \cup Stopping => drained[p] = 0
    /\ stage[p] \in Waiting \cup Stopping => OldAsTheWait(p)
    /\ stage[p] \in Stopping =>
        \A q \in Req : req[q].on = p => drained[p] = ShutdownTimeout
    /\ stage[p] \in {"close", "exit"} => p \notin ticking

StopInv == LifeTypeOK /\ \A p \in Server : StopOf(p)

LEMMA StopKept ==
    ASSUME LifeTypeOK, NEW p \in Server, StopOf(p),
           stage'[p] = stage[p], drained'[p] = drained[p], p \in ticking' => p \in ticking,
           \A q \in Req : req'[q].on = p => req'[q] = req[q]
    PROVE  StopOf(p)'
BY DEF StopOf, OldAsTheWait

LEMMA StopGone ==
    ASSUME StopInv, NEW p \in Server, Gone(p)
    PROVE  \A r \in Server : StopOf(r)'
<1> SUFFICES ASSUME NEW r \in Server PROVE StopOf(r)'
    OBVIOUS
<1> USE DEF StopInv, LifeTypeOK, Gone
<1>1. CASE r = p
  <2>1. stage'[p] = "off" /\ drained'[p] = 0
    OBVIOUS
  <2> QED
    BY <1>1, <2>1 DEF StopOf, Waiting, Stopping
<1>2. CASE r # p
  <2>1. \A q \in Req : req'[q].on = r => req'[q] = req[q]
    BY <1>2, StartupAssumption DEF NoReq, StartupAssumption
  <2> QED
    BY <1>2, <2>1, StopKept
<1> QED
    BY <1>1, <1>2

LEMMA WaitedInFull ==
    ASSUME LifeTypeOK, NEW p \in Server, drained[p] >= ShutdownTimeout
    PROVE  drained[p] = ShutdownTimeout
<1>1. drained[p] \in 0..ShutdownTimeout
    BY DEF LifeTypeOK
<1> QED
    BY <1>1, StartupAssumption DEF StartupAssumption

LEMMA StopStep == StopInv /\ [LifeNext]_lifeVars => StopInv'
<1> SUFFICES ASSUME StopInv, [LifeNext]_lifeVars PROVE StopInv'
    OBVIOUS
<1>t. LifeTypeOK'
    BY LifeTypeStep DEF StopInv
<1>g. ASSUME NEW p \in Server, Gone(p) PROVE StopInv'
    BY <1>t, <1>g, StopGone DEF StopInv
<1> SUFFICES ASSUME NEW r \in Server PROVE (StopInv' \/ StopOf(r)')
    BY <1>t DEF StopInv
<1> USE DEF StopInv, LifeTypeOK
<1>1. ASSUME NEW p \in Server,
             \/ RejectModified(p) \/ ExecuteTwice(p) \/ RecordTwice(p) \/ Exit(p)
             \/ BindFails(p) \/ StatementFails(p) \/ Crash(p)
      PROVE  StopInv'
    BY <1>1, <1>g DEF RejectModified, ExecuteTwice, RecordTwice, Exit, BindFails,
       StatementFails, Crash, Fatal
<1>b. \A q \in Req : req[q].age >= 0
    OBVIOUS
<1>2. ASSUME NEW p \in Server, NEW s \in Stages \ (Waiting \cup Stopping),
             stage[p] \notin Waiting \cup Stopping,
             stage' = [stage EXCEPT ![p] = s] \/ stage' = stage,
             UNCHANGED <<ticking, drained, req>>
      PROVE  StopOf(r)'
  <2>1. CASE r = p
    BY <1>2, <2>1 DEF StopOf, Stopping
  <2>2. CASE r # p
    BY <1>2, <2>2, StopKept
  <2> QED
    BY <2>1, <2>2
<1>3. ASSUME NEW p \in Server,
             \/ Open(p) \/ ReadApplied(p) \/ SkipApplied(p) \/ Execute(p) \/ Record(p)
             \/ Commit(p) \/ StartLoops(p) \/ Serve(p)
      PROVE  StopOf(r)'
  <2>1. /\ UNCHANGED <<ticking, drained, req>>
        /\ stage[p] \notin Waiting \cup Stopping
        /\ \E s \in Stages \ (Waiting \cup Stopping) :
                stage' = [stage EXCEPT ![p] = s] \/ stage' = stage
    BY <1>3 DEF Open, ReadApplied, SkipApplied, Execute, Record, Commit, StartLoops, Serve, Goto,
       Stages, Waiting, Stopping
  <2> QED
    BY <1>2, <2>1
<1>4. ASSUME NEW p \in Server, LoopPass(p) PROVE StopOf(r)'
  <2>1. CASE r = p
    BY <1>4, <2>1 DEF LoopPass, Looping, StopOf, OldAsTheWait
  <2>2. CASE r # p
    BY <1>4, <2>2, StopKept DEF LoopPass
  <2> QED
    BY <2>1, <2>2
<1>5. ASSUME NEW p \in Server, Signal(p) \/ CloseListener(p) PROVE StopOf(r)'
  <2>1. CASE r = p /\ Signal(p)
    <3>1. stage'[r] = "signalled" /\ drained'[r] = 0
      BY <2>1 DEF Signal, Goto, StopOf, Waiting, Stopping
    <3>2. OldAsTheWait(r)'
      BY <1>b, <2>1, <3>1 DEF OldAsTheWait, Signal
    <3> QED
      BY <3>1, <3>2 DEF StopOf, Waiting, Stopping
  <2>2. CASE r = p /\ CloseListener(p)
    <3>1. stage[r] = "signalled" /\ stage'[r] = "drain" /\ UNCHANGED <<drained, req>>
      BY <2>2 DEF CloseListener, Goto
    <3> QED
      BY <3>1 DEF StopOf, OldAsTheWait, Waiting, Stopping
  <2>3. CASE r # p
    BY <1>5, <2>3, StopKept DEF Signal, CloseListener, Goto
  <2> QED
    BY <1>5, <2>1, <2>2, <2>3
<1>6. ASSUME NEW p \in Server, Drained(p) PROVE StopOf(r)'
  <2>1. CASE r = p
    <3>1. stage[r] = "drain" /\ stage'[r] = "stop" /\ UNCHANGED <<drained, req>>
      BY <1>6, <2>1 DEF Drained, Goto
    <3>2. \A q \in Req : req[q].on = r => drained[r] = ShutdownTimeout
      <4>1. On(r) = {} \/ drained[r] >= ShutdownTimeout
        BY <1>6, <2>1 DEF Drained
      <4>2. drained[r] >= ShutdownTimeout => drained[r] = ShutdownTimeout
        BY WaitedInFull
      <4> QED
        BY <4>1, <4>2 DEF On
    <3> QED
      BY <3>1, <3>2 DEF StopOf, OldAsTheWait, Waiting, Stopping
  <2>2. CASE r # p
    BY <1>6, <2>2, StopKept DEF Drained, Goto
  <2> QED
    BY <2>1, <2>2
<1>7. ASSUME NEW p \in Server, StopLoops(p) \/ Close(p) PROVE StopOf(r)'
  <2>1. CASE r = p
    BY <1>7, <2>1 DEF StopLoops, Close, Goto, StopOf, OldAsTheWait, Waiting, Stopping
  <2>2. CASE r # p
    BY <1>7, <2>2, StopKept DEF StopLoops, Close, Goto
  <2> QED
    BY <2>1, <2>2
<1>8. ASSUME NEW q \in Req, NEW p \in Server, Accept(q, p) PROVE StopOf(r)'
  <2>1. \A k \in Req : req'[k].on = r => req'[k] = req[k] \/ (k = q /\ r = p)
    BY <1>8 DEF Accept
  <2>2. req'[q].is = "open" /\ stage[p] \in Listening
    BY <1>8 DEF Accept
  <2>3. OldAsTheWait(r) => OldAsTheWait(r)'
    BY <1>8, <2>1, <2>2 DEF OldAsTheWait, Accept
  <2> QED
    BY <1>8, <2>1, <2>2, <2>3 DEF StopOf, Accept, Listening, Waiting, Stopping
<1>12. ASSUME NEW q \in Req, BeginRequest(q) PROVE StopOf(r)'
  <2>1. \A k \in Req : /\ req'[k].on = req[k].on
                       /\ req'[k].is = "early" =>
                            req'[k] = req[k] \/ (k = q /\ stage[req[q].on] = "serve")
    BY <1>12 DEF BeginRequest
  <2>2. stage[r] # "serve" /\ OldAsTheWait(r) => OldAsTheWait(r)'
    BY <1>12, <2>1 DEF OldAsTheWait, BeginRequest
  <2>3. UNCHANGED <<stage, drained, ticking>>
    BY <1>12 DEF BeginRequest
  <2>4. CASE stage[r] = "serve"
    BY <2>3, <2>4 DEF StopOf, Waiting, Stopping
  <2>5. CASE stage[r] # "serve"
    BY <2>1, <2>2, <2>3, <2>5 DEF StopOf
  <2> QED
    BY <2>4, <2>5
<1>9. ASSUME NEW q \in Req, EndRequest(q) PROVE StopOf(r)'
  <2>1. \A k \in Req : req'[k].on = r => req'[k] = req[k]
    BY <1>9, StartupAssumption DEF EndRequest, NoReq, StartupAssumption
  <2> QED
    BY <1>9, <2>1, StopKept DEF EndRequest
<1>10. ASSUME PassTime PROVE StopOf(r)'
  <2>1. stage' = stage /\ ticking' = ticking
    BY <1>10 DEF PassTime
  <2>2. drained'[r] = IF stage[r] \in Waiting THEN Clip(drained[r], ShutdownTimeout)
                      ELSE drained[r]
    BY <1>10 DEF PassTime
  <2>3. \A q \in Req : /\ req'[q].on = req[q].on /\ req'[q].is = req[q].is
                       /\ req[q].is = "early" =>
                            req'[q].age = Clip(req[q].age, RequestTimeout)
    BY <1>10 DEF PassTime, Begun
  <2>4. ASSUME OldAsTheWait(r) PROVE OldAsTheWait(r)'
    <3> SUFFICES ASSUME NEW q \in Req, req'[q].on = r, req'[q].is = "early"
                 PROVE  req'[q].age >= RequestTimeout \/ req'[q].age >= drained'[r]
      BY DEF OldAsTheWait
    <3>1. req[q].age >= RequestTimeout \/ req[q].age >= drained[r]
      BY <2>3, <2>4 DEF OldAsTheWait
    <3>2. req'[q].age = Clip(req[q].age, RequestTimeout)
      BY <2>3
    <3>3. req[q].age \in 0..RequestTimeout /\ drained[r] \in 0..ShutdownTimeout
      OBVIOUS
    <3> QED
      BY <2>2, <3>1, <3>2, <3>3, StartupAssumption DEF Clip, StartupAssumption
  <2>5. CASE stage[r] \in Waiting
    BY <2>1, <2>4, <2>5 DEF StopOf, Waiting, Stopping
  <2>6. CASE stage[r] \notin Waiting
    BY <2>1, <2>2, <2>3, <2>4, <2>6 DEF StopOf
  <2> QED
    BY <2>5, <2>6
<1>11. CASE UNCHANGED lifeVars
    BY <1>11, StopKept DEF lifeVars
<1> QED
    BY <1>1, <1>3, <1>4, <1>5, <1>6, <1>7, <1>8, <1>9, <1>10, <1>11, <1>12
    DEF LifeNext, MainStep, Migrating, Disturb

LEMMA StopInvInit == LifeInit => StopInv
BY LifeTypeInit, StartupAssumption
   DEF LifeInit, StopInv, StopOf, OldAsTheWait, Waiting, Stopping, NoReq, StartupAssumption

LEMMA StopInvSuffices == StopInv => ClosedOnlyAfterWaiting
<1> SUFFICES ASSUME StopInv, NEW p \in Server, stage[p] = "exit"
             PROVE  /\ p \notin ticking
                    /\ On(p) # {} => drained[p] = ShutdownTimeout
                    /\ \A q \in On(p) : req[q].is = "early" =>
                        \/ req[q].age >= RequestTimeout
                        \/ req[q].age >= ShutdownTimeout
    BY DEF ClosedOnlyAfterWaiting
<1>1. StopOf(p)
    BY DEF StopInv
<1>2. /\ p \notin ticking
      /\ \A q \in Req : req[q].on = p => drained[p] = ShutdownTimeout
    BY <1>1 DEF StopOf, Stopping
<1>3. OldAsTheWait(p)
    BY <1>1 DEF StopOf, Stopping
<1> QED
    BY <1>2, <1>3 DEF OldAsTheWait, On

\* The file is closed under no loop, under a connection only after the whole wait,
\* and under a request from before the signal only when that has been cancelled or
\* has had the whole wait: whichever time-out is the longer, and however many
\* connections there are.
THEOREM AlwaysClosedOnlyAfterWaiting == LifeSpec => []ClosedOnlyAfterWaiting
<1>1. LifeInit => StopInv
    BY StopInvInit
<1>2. StopInv /\ [LifeNext]_lifeVars => StopInv'
    BY StopStep
<1>3. StopInv => ClosedOnlyAfterWaiting
    BY StopInvSuffices
<1> QED
    BY <1>1, <1>2, <1>3, PTL DEF LifeSpec
=============================================================================
