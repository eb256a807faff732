------------------------------ MODULE Startup ------------------------------
(***************************************************************************)
(* The life of an orchestrator process (cmd/orchestrator/main.go): it      *)
(* opens the SQLite file, applies the migrations it was built with         *)
(* (storage/sqlite.go), starts the background loops, listens, and on a     *)
(* signal drains its requests, stops the loops and closes the file.        *)
(*                                                                         *)
(* Several processes may be started on one file, of different releases     *)
(* and with overlapping lives; each may die at any step.  A transaction is *)
(* a working copy of the file's schema that becomes the file at COMMIT.    *)
(***************************************************************************)
EXTENDS Naturals, FiniteSets

CONSTANTS Server,           \* the processes started on the file
          NoServer,         \* "no process"
          Version,          \* the numbers of the migration files
          Checksum,         \* what their contents may hash to
          NoChecksum,       \* "no row" in schema_version
          bundle,           \* bundle[p][v]: the file v process p is built with,
                            \* or NoChecksum
          Idempotent,       \* migrations made of IF NOT EXISTS alone: 001
          Req,              \* the requests served at a time
          RequestTimeout,   \* the middleware's time-out, of the configuration
          ShutdownTimeout,  \* how long main waits for the requests: 30 s
          MaxFaults         \* bound on crashes and failing statements

ASSUME StartupAssumption ==
    /\ NoServer \notin Server
    /\ Version \subseteq Nat
    /\ IsFiniteSet(Version)
    /\ NoChecksum \notin Checksum
    /\ bundle \in [Server -> [Version -> Checksum \cup {NoChecksum}]]
    /\ Idempotent \subseteq Version
    /\ RequestTimeout \in Nat \ {0}
    /\ ShutdownTimeout \in Nat \ {0}
    /\ MaxFaults \in Nat

VARIABLES file,     \* the schema: effects of migrations, rows of schema_version
          lock,     \* the process that holds SQLite's write lock
          stage,    \* stage[p]: where main of process p is
          known,    \* known[p]: the rows of schema_version it read
          left,     \* left[p]: the migrations its loop has still to look at
          work,     \* work[p]: the file as its transaction has it
          ticking,  \* the processes with a background loop inside a pass
          drained,  \* drained[p]: how long p has waited for its requests
          req,      \* req[q]: the process a connection is open to, whether a
                    \* request runs on it since before or after the signal,
                    \* and that request's age
          faults    \* how many faults have happened

fileVars == <<file, lock, known, left, work>>
lifeVars == <<fileVars, stage, ticking, drained, req, faults>>

Rows == [Version -> Checksum \cup {NoChecksum}]
Schema == [effects : [Version -> 0..1], rows : Rows]
Empty == [effects |-> [v \in Version |-> 0], rows |-> [v \in Version |-> NoChecksum]]

Stages == {"off", "open", "migrate", "record", "commit",
           "wire", "serve", "signalled", "drain", "stop", "close", "exit"}
InTransaction == {"record", "commit"}
Looping == {"wire", "serve", "signalled", "drain", "stop"}
Listening == {"serve", "signalled"}
Waiting == {"signalled", "drain"}

LifeTypeOK ==
    /\ file \in Schema
    /\ lock \in Server \cup {NoServer}
    /\ stage \in [Server -> Stages]
    /\ known \in [Server -> Rows]
    /\ left \in [Server -> SUBSET Version]
    /\ work \in [Server -> Schema]
    /\ ticking \in SUBSET Server
    /\ drained \in [Server -> 0..ShutdownTimeout]
    /\ req \in [Req -> [on : Server \cup {NoServer}, age : 0..RequestTimeout,
                       is : {"none", "open", "early", "late"}]]
    /\ faults \in 0..MaxFaults

NoReq == [on |-> NoServer, age |-> 0, is |-> "none"]
On(p) == {q \in Req : req[q].on = p}
Begun(q) == req[q].is \in {"early", "late"}

LifeInit ==
    /\ file = Empty
    /\ lock = NoServer
    /\ stage = [p \in Server |-> "off"]
    /\ known = [p \in Server |-> Empty.rows]
    /\ left = [p \in Server |-> {}]
    /\ work = [p \in Server |-> Empty]
    /\ ticking = {}
    /\ drained = [p \in Server |-> 0]
    /\ req = [q \in Req |-> NoReq]
    /\ faults = 0

-----------------------------------------------------------------------------
(* The end of a process, at whatever stage *)

\* The operating system takes back what it held: its transaction is rolled
\* back, its requests and loops are gone.
Gone(p) ==
    /\ stage' = [stage EXCEPT ![p] = "off"]
    /\ lock' = IF lock = p THEN NoServer ELSE lock
    /\ known' = [known EXCEPT ![p] = Empty.rows]
    /\ left' = [left EXCEPT ![p] = {}]
    /\ work' = [work EXCEPT ![p] = Empty]
    /\ ticking' = ticking \ {p}
    /\ drained' = [drained EXCEPT ![p] = 0]
    /\ req' = [q \in Req |-> IF req[q].on = p THEN NoReq ELSE req[q]]
    /\ UNCHANGED file

\* logger.Fatal: no deferred call runs.
Fatal(p) == Gone(p) /\ UNCHANGED faults

Crash(p) ==
    /\ stage[p] # "off"
    /\ faults < MaxFaults
    /\ faults' = faults + 1
    /\ Gone(p)

-----------------------------------------------------------------------------
(* storage.New and Migrate *)

Goto(p, s) == stage' = [stage EXCEPT ![p] = s]

Open(p) ==
    /\ stage[p] = "off"
    /\ Goto(p, "open")
    /\ UNCHANGED <<fileVars, ticking, drained, req, faults>>

Bundled(p) == {v \in Version : bundle[p][v] # NoChecksum}

\* getAppliedMigrations: schema_version is created if it is missing, and read.
ReadApplied(p) ==
    /\ stage[p] = "open"
    /\ Goto(p, "migrate")
    /\ known' = [known EXCEPT ![p] = file.rows]
    /\ left' = [left EXCEPT ![p] = Bundled(p)]
    /\ UNCHANGED <<file, lock, work, ticking, drained, req, faults>>

\* The files are sorted by version.
IsNext(p, v) == v \in left[p] /\ \A w \in left[p] : v <= w

\* Mutant: the recorded checksum is not compared.
SkipAppliedUnread(p) ==
    /\ stage[p] = "migrate"
    /\ \E v \in left[p] :
        /\ IsNext(p, v)
        /\ known[p][v] # NoChecksum
        /\ left' = [left EXCEPT ![p] = @ \ {v}]
    /\ UNCHANGED <<file, lock, stage, known, work, ticking, drained, req, faults>>

\* A migration this process knows to be applied.
SkipApplied(p) ==
    /\ stage[p] = "migrate"
    /\ \E v \in left[p] :
        /\ IsNext(p, v)
        /\ known[p][v] = bundle[p][v]
        /\ left' = [left EXCEPT ![p] = @ \ {v}]
    /\ UNCHANGED <<file, lock, stage, known, work, ticking, drained, req, faults>>

\* "has been modified after being applied"
RejectModified(p) ==
    /\ stage[p] = "migrate"
    /\ \E v \in left[p] :
        /\ IsNext(p, v)
        /\ known[p][v] \notin {NoChecksum, bundle[p][v]}
    /\ Fatal(p)

\* Mutant: a statement that lost its IF NOT EXISTS.
ApplyAgain(f, v) == [f EXCEPT !.effects[v] = @ + 1]

\* What the statements of migration v make of f.
Apply(f, v) == [f EXCEPT !.effects[v] = 1]

\* Mutant: the statements run outside the transaction.
ExecuteAutocommit(p) ==
    /\ stage[p] = "migrate"
    /\ lock = NoServer
    /\ \E v \in left[p] :
        /\ IsNext(p, v)
        /\ known[p][v] = NoChecksum
        /\ v \in Idempotent \/ file.effects[v] = 0
        /\ file' = Apply(file, v)
        /\ work' = [work EXCEPT ![p] = file']
    /\ lock' = p
    /\ Goto(p, "record")
    /\ UNCHANGED <<known, left, ticking, drained, req, faults>>

\* applyMigration, first half: BEGIN and the statements of the file, on the
\* schema as it is now, whatever was read before.
Execute(p) ==
    /\ stage[p] = "migrate"
    /\ lock = NoServer
    /\ \E v \in left[p] :
        /\ IsNext(p, v)
        /\ known[p][v] = NoChecksum
        /\ v \in Idempotent \/ file.effects[v] = 0
        /\ work' = [work EXCEPT ![p] = Apply(file, v)]
    /\ lock' = p
    /\ Goto(p, "record")
    /\ UNCHANGED <<file, known, left, ticking, drained, req, faults>>

\* ALTER TABLE ... ADD COLUMN finds its column, added by another process since.
ExecuteTwice(p) ==
    /\ stage[p] = "migrate"
    /\ lock = NoServer
    /\ \E v \in left[p] \ Idempotent :
        /\ IsNext(p, v)
        /\ known[p][v] = NoChecksum
        /\ file.effects[v] # 0
    /\ Fatal(p)

\* The INSERT into schema_version, whose primary key is the version.
Record(p) ==
    /\ stage[p] = "record"
    /\ \E v \in left[p] :
        /\ IsNext(p, v)
        /\ work[p].rows[v] = NoChecksum
        /\ work' = [work EXCEPT ![p].rows[v] = bundle[p][v]]
    /\ Goto(p, "commit")
    /\ UNCHANGED <<file, lock, known, left, ticking, drained, req, faults>>

RecordTwice(p) ==
    /\ stage[p] = "record"
    /\ \E v \in left[p] : IsNext(p, v) /\ work[p].rows[v] # NoChecksum
    /\ Fatal(p)

Commit(p) ==
    /\ stage[p] = "commit"
    /\ file' = work[p]
    /\ lock' = NoServer
    /\ left' = [left EXCEPT ![p] = {v \in @ : ~IsNext(p, v)}]
    /\ work' = [work EXCEPT ![p] = Empty]
    /\ Goto(p, "migrate")
    /\ UNCHANGED <<known, ticking, drained, req, faults>>

\* A statement fails: the file is locked for too long, or the disk is full.
StatementFails(p) ==
    /\ stage[p] \in {"open", "migrate", "record", "commit"}
    /\ faults < MaxFaults
    /\ faults' = faults + 1
    /\ Gone(p)

-----------------------------------------------------------------------------
(* The rest of main *)

\* reg.Start, sched.Start: from here on the background loops use the file, and
\* nothing looks at the rows read any more.
StartLoops(p) ==
    /\ stage[p] = "migrate"
    /\ left[p] = {}
    /\ Goto(p, "wire")
    /\ known' = [known EXCEPT ![p] = Empty.rows]
    /\ UNCHANGED <<file, lock, left, work, ticking, drained, req, faults>>

\* The forwarders are set, and only then the server listens.
Serve(p) ==
    /\ stage[p] = "wire"
    /\ Goto(p, "serve")
    /\ UNCHANGED <<fileVars, ticking, drained, req, faults>>

\* The port is taken: "Server failed", from the goroutine of the listener.
BindFails(p) ==
    /\ stage[p] = "wire"
    /\ \E o \in Server \ {p} : stage[o] \in Listening
    /\ Fatal(p)

\* One pass of the completion tick or of the registry's sweep.  select takes
\* either channel when both are ready, so that a pass may begin after Stop.
LoopPass(p) ==
    /\ stage[p] \in Looping
    /\ ticking' = IF p \in ticking THEN ticking \ {p} ELSE ticking \cup {p}
    /\ UNCHANGED <<fileVars, stage, drained, req, faults>>

\* A connection is accepted, its request still to be read (http.StateNew).
Accept(q, p) ==
    /\ stage[p] \in Listening
    /\ req[q] = NoReq
    /\ req' = [req EXCEPT ![q] = [NoReq EXCEPT !.on = p, !.is = "open"]]
    /\ UNCHANGED <<fileVars, stage, ticking, drained, faults>>

\* The request on it is read and its handler starts.  server.Shutdown does not
\* prevent it, and once it has returned nothing looks at the connection.
BeginRequest(q) ==
    /\ req[q].is = "open"
    /\ req' = [req EXCEPT ![q].is = IF stage[req[q].on] = "serve" THEN "early" ELSE "late"]
    /\ UNCHANGED <<fileVars, stage, ticking, drained, faults>>

\* A handler returns; or a connection is hung up, or has been open for five
\* seconds, before its request came.
EndRequest(q) ==
    /\ req[q] # NoReq
    /\ req' = [req EXCEPT ![q] = NoReq]
    /\ UNCHANGED <<fileVars, stage, ticking, drained, faults>>

\* SIGINT or SIGTERM: the time of shutdownCtx runs, and the server listens on.
Signal(p) ==
    /\ stage[p] = "serve"
    /\ Goto(p, "signalled")
    /\ UNCHANGED <<fileVars, ticking, drained, req, faults>>

\* server.Shutdown closes the listener and begins to wait for the connections.
CloseListener(p) ==
    /\ stage[p] = "signalled"
    /\ Goto(p, "drain")
    /\ UNCHANGED <<fileVars, ticking, drained, req, faults>>

\* Mutant: main gives up one unit of time early.
DrainedEarly(p) ==
    /\ stage[p] = "drain"
    /\ On(p) = {} \/ drained[p] + 1 >= ShutdownTimeout
    /\ Goto(p, "stop")
    /\ UNCHANGED <<fileVars, ticking, drained, req, faults>>

\* Mutant: main waits for the requests without a deadline.
DrainedForever(p) ==
    /\ stage[p] = "drain"
    /\ On(p) = {}
    /\ Goto(p, "stop")
    /\ UNCHANGED <<fileVars, ticking, drained, req, faults>>

\* Every connection is closed, or shutdownCtx is over.
Drained(p) ==
    /\ stage[p] = "drain"
    /\ On(p) = {} \/ drained[p] >= ShutdownTimeout
    /\ Goto(p, "stop")
    /\ UNCHANGED <<fileVars, ticking, drained, req, faults>>

\* sched.Stop and reg.Stop wait for their loops ...
StopLoops(p) ==
    /\ stage[p] = "stop"
    /\ p \notin ticking
    /\ Goto(p, "close")
    /\ UNCHANGED <<fileVars, ticking, drained, req, faults>>

\* ... and the file is closed after them: deferred calls run last in, first out.
Close(p) ==
    /\ stage[p] = "close"
    /\ Goto(p, "exit")
    /\ UNCHANGED <<fileVars, ticking, drained, req, faults>>

Exit(p) ==
    /\ stage[p] = "exit"
    /\ Fatal(p)

Clip(n, max) == IF n < max THEN n + 1 ELSE max

\* A second passes for the deadlines of requests and shutdowns.
PassTime ==
    /\ drained' = [p \in Server |-> IF stage[p] \in Waiting
                                    THEN Clip(drained[p], ShutdownTimeout) ELSE drained[p]]
    /\ req' = [q \in Req |-> IF Begun(q)
                             THEN [req[q] EXCEPT !.age = Clip(@, RequestTimeout)]
                             ELSE req[q]]
    /\ <<drained, req>>' # <<drained, req>>
    /\ UNCHANGED <<fileVars, stage, ticking, faults>>

-----------------------------------------------------------------------------
(* Specification *)

Migrating(p) ==
    \/ ReadApplied(p) \/ SkipApplied(p) \/ RejectModified(p)
    \/ Execute(p) \/ ExecuteTwice(p) \/ Record(p) \/ RecordTwice(p) \/ Commit(p)

MainStep(p) ==
    \/ Migrating(p) \/ StartLoops(p) \/ Serve(p)
    \/ CloseListener(p) \/ Drained(p) \/ Close(p) \/ Exit(p)

\* What users, the clock and the outside world do to a process.
Disturb(p) == Open(p) \/ Signal(p) \/ BindFails(p) \/ StatementFails(p) \/ Crash(p)

LifeNext ==
    \/ \E p \in Server : MainStep(p) \/ LoopPass(p) \/ StopLoops(p) \/ Disturb(p)
    \/ \E q \in Req : BeginRequest(q) \/ EndRequest(q) \/ \E p \in Server : Accept(q, p)
    \/ PassTime

\* main goes on; a pass of a loop ends, and its loop sees that it is stopped
\* (select cannot take the ticker for ever); time passes.  A handler need not
\* end.
LifeFairness ==
    /\ \A p \in Server : WF_lifeVars(MainStep(p))
    /\ \A p \in Server : WF_lifeVars(p \in ticking /\ LoopPass(p))
    /\ \A p \in Server : SF_lifeVars(StopLoops(p))
    /\ WF_lifeVars(PassTime)

LifeSpec == LifeInit /\ [][LifeNext]_lifeVars
LifeFairSpec == LifeSpec /\ LifeFairness

-----------------------------------------------------------------------------
(* Properties *)

\* Whatever crashes, fails or starts at the same time, the schema has exactly
\* the migrations schema_version records, each applied once: the next start can
\* go on from any file it finds.
SchemaIsRecorded ==
    \A v \in Version :
        file.effects[v] = IF file.rows[v] = NoChecksum THEN 0 ELSE 1

\* A process whose loops and handlers use the file finds every migration of its
\* own release in it, with the content it was built with, although it decided
\* from rows read before another process may have migrated the file.
WorksOnItsSchema ==
    \A p \in Server : stage[p] \in Looping \cup {"close"} =>
        \A v \in Bundled(p) : file.rows[v] = bundle[p][v]

\* main closes the file under no loop that is inside a pass; under a connection
\* only when it has waited as long as it may, and under a request that came before
\* the signal only when that has been cancelled or has had all that time.  Requests
\* that connections accepted before the listener closed begin later have no such
\* time: they may find the file closed at any age.
ClosedOnlyAfterWaiting ==
    \A p \in Server : stage[p] = "exit" =>
        /\ p \notin ticking
        /\ On(p) # {} => drained[p] = ShutdownTimeout
        /\ \A q \in On(p) : req[q].is = "early" =>
                \/ req[q].age >= RequestTimeout
                \/ req[q].age >= ShutdownTimeout

\* A start ends in a serving process or in none; a shutdown ends, however long
\* a request takes.
StartsAndStops ==
    \A p \in Server :
        /\ stage[p] = "open" ~> stage[p] \in {"serve", "off"}
        /\ stage[p] = "signalled" ~> stage[p] = "off"
=============================================================================
