------------------------------- MODULE Users -------------------------------
(***************************************************************************)
(* The impersonation users of the orchestrator: the table                  *)
(* (storage/users.go) and the handlers of /api/users (handlers.go).        *)
(*                                                                         *)
(* An update reads the row, merges the request into it and writes every    *)
(* column back; a bulk creation is one INSERT per user, in no transaction. *)
(* The handlers of different requests interleave between their statements, *)
(* a statement fails once its request is cancelled, and a process that     *)
(* dies leaves what its statements have done.                              *)
(***************************************************************************)
EXTENDS Sequences, SequencesExt

CONSTANTS Id,     \* the ids uuid.New may return, each once
          Name,   \* the user names
          Field,  \* the columns a PUT may change
          Req,    \* the requests served at a time
          MaxBulk \* bound on the users of one bulk creation

ASSUME UsersAssumption == MaxBulk \in Nat \ {0}

VARIABLES users,  \* users[i]: the row of id i, or why there is none
          call    \* call[q]: the handler of request q

uvars == <<users, call>>

\* put: the columns that hold what a PUT gave them, the others what the INSERT
\* left there.
Row ==
    [is : {"row"}, name : Name, put : SUBSET Field]
        \cup [is : {"unused", "deleted"}, name : {"none"}, put : {{}}]
NoRow == [is |-> "unused", name |-> "none", put |-> {}]
IsRow(i) == users[i].is = "row"

\* stale: since this handler read its row, another one wrote it (history).
NoCall == [step |-> "none", cancelled |-> FALSE, id |-> "none", fields |-> {}, row |-> NoRow,
           stale |-> FALSE, asked |-> <<>>, created |-> {}, errors |-> {}]

Call == [step : {"none", "insert", "read", "write", "delete", "bulk", "reply"},
         cancelled : BOOLEAN, id : Id \cup {"none"}, fields : SUBSET Field, row : Row,
         stale : BOOLEAN, asked : BoundedSeq(Name, MaxBulk),
         created : SUBSET ((1..MaxBulk) \X Id), errors : SUBSET (1..MaxBulk)]

UTypeOK ==
    /\ users \in [Id -> Row]
    /\ call \in [Req -> Call]

UInit ==
    /\ users = [i \in Id |-> NoRow]
    /\ call = [q \in Req |-> NoCall]

-----------------------------------------------------------------------------
(* Requests *)

\* The requests that come as far as their first statement.
Receive(q, c) ==
    /\ call[q] = NoCall
    /\ call' = [call EXCEPT ![q] = c]
    /\ UNCHANGED users

PostUser(q) ==
    \E n \in Name : Receive(q, [NoCall EXCEPT !.step = "insert", !.asked = <<n>>])

PostBulk(q) ==
    \E ns \in BoundedSeq(Name, MaxBulk) \ {<<>>} :
        Receive(q, [NoCall EXCEPT !.step = "bulk", !.asked = ns])

PutUser(q) ==
    \E i \in Id, fs \in (SUBSET Field) \ {{}} :
        Receive(q, [NoCall EXCEPT !.step = "read", !.id = i, !.fields = fs])

DeleteUser(q) ==
    \E i \in Id : Receive(q, [NoCall EXCEPT !.step = "delete", !.id = i])

\* The time-out of the middleware, or a client that goes away: r.Context() is
\* cancelled, and the handler finds out at its next statement.
Cancel(q) ==
    /\ call[q].step \in {"insert", "read", "write", "delete", "bulk"}
    /\ ~call[q].cancelled
    /\ call' = [call EXCEPT ![q].cancelled = TRUE]
    /\ UNCHANGED users

\* The handler's last act; 200, 404 or 500 is in what it did before.
Reply(q) ==
    /\ call[q].step = "reply"
    /\ call' = [call EXCEPT ![q] = NoCall]
    /\ UNCHANGED users

\* The process dies with its handlers; what they have written stays.
Crash ==
    /\ call' = [q \in Req |-> NoCall]
    /\ UNCHANGED users

-----------------------------------------------------------------------------
(* Statements *)

\* A statement of a cancelled request fails; any may fail for reasons of its own.
Executable(q) == ~call[q].cancelled
FailStatement == UNCHANGED users

Noted(q, c) == call' = [call EXCEPT ![q] = c]
Answer(q) == Noted(q, [NoCall EXCEPT !.step = "reply", !.asked = call[q].asked,
                         !.created = call[q].created, !.errors = call[q].errors])

\* A handler wrote or deleted row i: whoever has read it holds an old copy.
Outdate(i, c) ==
    [r \in Req |-> IF c[r].step = "write" /\ c[r].id = i
                   THEN [c[r] EXCEPT !.stale = TRUE] ELSE c[r]]

\* INSERT: user names are UNIQUE, the id is a new one (any: ids are alike).
Taken(n) == \E i \in Id : IsRow(i) /\ users[i].name = n
Fresh(i) == users[i].is = "unused" /\ i = CHOOSE j \in Id : users[j].is = "unused"
NewRow(n) == [NoRow EXCEPT !.is = "row", !.name = n]
InsertRow(q, n, i) ==
    /\ Executable(q)
    /\ ~Taken(n)
    /\ Fresh(i)
    /\ users' = [users EXCEPT ![i] = NewRow(n)]

InsertUser(q) ==
    /\ call[q].step = "insert"
    /\ FailStatement \/ \E i \in Id : InsertRow(q, call[q].asked[1], i)
    /\ Noted(q, [NoCall EXCEPT !.step = "reply"])

\* The entry a bulk creation is at.
Entry(c) == 1 + Cardinality(c.created) + Cardinality(c.errors)

\* Mutant: no continue after a failed INSERT.
BulkTallyTwice(c, i, done) ==
    [c EXCEPT !.errors = IF done THEN @ ELSE @ \cup {Entry(c)},
              !.created = @ \cup {<<Entry(c), i>>}]

\* The next user of a bulk creation was inserted as id i, or was not: the error
\* is noted, and the loop goes on.
BulkTally(c, i, done) ==
    [c EXCEPT !.errors = IF done THEN @ ELSE @ \cup {Entry(c)},
              !.created = IF done THEN @ \cup {<<Entry(c), i>>} ELSE @]

BulkInsert(q) ==
    LET c == call[q] IN
    /\ c.step = "bulk"
    /\ Entry(c) <= Len(c.asked)
    /\ \E i \in Id :
        \/ InsertRow(q, c.asked[Entry(c)], i) /\ Noted(q, BulkTally(c, i, TRUE))
        \/ FailStatement /\ Noted(q, BulkTally(c, i, FALSE))

BulkDone(q) ==
    /\ call[q].step = "bulk"
    /\ Entry(call[q]) > Len(call[q].asked)
    /\ Answer(q)
    /\ UNCHANGED users

\* UpdateImpersonationUser of the handlers: the row is read; no row is 404.
ReadUser(q) ==
    /\ call[q].step = "read"
    /\ \/ /\ Executable(q)
          /\ IsRow(call[q].id)
          /\ Noted(q, [call[q] EXCEPT !.step = "write", !.row = users[call[q].id]])
       \/ Executable(q) /\ ~IsRow(call[q].id) /\ Answer(q)
       \/ FailStatement /\ Answer(q)
    /\ UNCHANGED users

\* Mutant: a field that is not in the request is cleared.
MergeAll(c) == [c.row EXCEPT !.put = c.fields]

\* "Update fields": those the request has.
Merge(c) == [c.row EXCEPT !.put = @ \cup c.fields]

\* Mutant: the write inserts the row when it is gone.
UpsertRow(i, row) == users' = [users EXCEPT ![i] = row]

\* UPDATE ... WHERE id: every column, of the row that is there now.  No row
\* affected is an error.
UpdateRow(i, row) == users' = IF IsRow(i) THEN [users EXCEPT ![i] = row] ELSE users

WriteUser(q) ==
    /\ call[q].step = "write"
    /\ \/ /\ Executable(q)
          /\ UpdateRow(call[q].id, Merge(call[q]))
          /\ call' = [Outdate(call[q].id, call) EXCEPT ![q] = [NoCall EXCEPT !.step = "reply"]]
       \/ FailStatement /\ Answer(q)

\* Mutant: the row is marked, and kept.
DeletedRowKept(row) == [row EXCEPT !.is = "deleted"]

\* Nothing is left of a deleted row.
DeletedRow(row) == [NoRow EXCEPT !.is = "deleted"]

\* DELETE ... WHERE id; no row affected is 404.
DeleteRow(q) ==
    /\ call[q].step = "delete"
    /\ \/ /\ Executable(q)
          /\ users' = IF IsRow(call[q].id)
                      THEN [users EXCEPT ![call[q].id] = DeletedRow(@)]
                      ELSE users
          /\ call' = [Outdate(call[q].id, call) EXCEPT ![q] = [NoCall EXCEPT !.step = "reply"]]
       \/ FailStatement /\ Answer(q)

-----------------------------------------------------------------------------
(* Specification *)

UNext ==
    \/ Crash
    \/ \E q \in Req :
        \/ PostUser(q) \/ PostBulk(q) \/ PutUser(q) \/ DeleteUser(q) \/ Cancel(q)
        \/ InsertUser(q) \/ BulkInsert(q) \/ BulkDone(q)
        \/ ReadUser(q) \/ WriteUser(q) \/ DeleteRow(q) \/ Reply(q)

USpec == UInit /\ [][UNext]_uvars

-----------------------------------------------------------------------------
(* Properties *)

\* "Update fields if provided": an update changes a field its request does not
\* have only if another handler wrote the user between its read and its write.
UpdateKeepsOthers ==
    [][\A q \in Req, i \in Id :
        /\ call[q].step = "write" /\ call'[q].step = "reply"
        /\ users'[i] # users[i]
        => \/ call[q].stale
           \/ users'[i].put \ call[q].fields = users[i].put \ call[q].fields]_uvars

\* A user that was deleted does not come back, not even through an update that
\* had read it before.
DeletedStaysDeleted ==
    [][\A i \in Id : users[i].is = "deleted" => users'[i].is = "deleted"]_uvars

\* The report of a bulk creation: when it is sent, every entry asked for is in
\* exactly one of its lists, and one listed as created is the row of that name,
\* under an id no other report names, or was deleted since; whatever the other
\* calls do between its statements, and wherever it was cut off.
BulkReportTrue ==
    \A q \in Req :
        LET c == call[q] IN
        /\ c.step = "reply" =>
            {x[1] : x \in c.created} = (1..Len(c.asked)) \ c.errors
        /\ \A x \in c.created :
            /\ users[x[2]].is # "unused"
            /\ IsRow(x[2]) => users[x[2]].name = c.asked[x[1]]
            /\ \A r \in Req : \A y \in call[r].created : y[2] = x[2] => r = q /\ x = y
=============================================================================
