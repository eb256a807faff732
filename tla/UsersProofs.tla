----------------------------- MODULE UsersProofs -----------------------------
(***************************************************************************)
(* Proofs about Users for every set of ids, names, columns and requests,   *)
(* and every length of a bulk creation.                                    *)
(***************************************************************************)
EXTENDS Users, FiniteSetTheorems, TLAPS

\* A handler about to write holds a copy of the row it writes: the row itself
\* unless another handler wrote it since, and always its name, which no
\* statement changes.
RowOf(q) ==
    call[q].step = "write" =>
        /\ call[q].row.is = "row"
        /\ users[call[q].id].is # "unused"
        /\ IsRow(call[q].id) => users[call[q].id].name = call[q].row.name
        /\ ~call[q].stale => users[call[q].id] = call[q].row

\* What a request names.
Asks(c) ==
    /\ c.step = "insert" => Len(c.asked) = 1
    /\ c.step \in {"read", "write", "delete"} => c.id \in Id

\* Every entry a bulk creation is past is in one of its lists.
Listed(c) == {x[1] : x \in c.created}
Tallied(c) ==
    /\ IsFiniteSet(c.created)
    /\ c.step \notin {"bulk", "reply"} => c.created = {} /\ c.errors = {}
    /\ c.step \in {"read", "write", "delete"} => c.asked = <<>>
    /\ c.step = "bulk" =>
        /\ Entry(c) <= Len(c.asked) + 1
        /\ c.errors \subseteq 1..(Entry(c) - 1)
        /\ Listed(c) = (1..(Entry(c) - 1)) \ c.errors
    /\ c.step = "reply" => Listed(c) = (1..Len(c.asked)) \ c.errors

\* An entry listed as created is the row of that name, or was, and no other's.
CreatedTrue(q, x) ==
    /\ users[x[2]].is # "unused"
    /\ IsRow(x[2]) => users[x[2]].name = call[q].asked[x[1]]
    /\ \A r \in Req : \A y \in call[r].created : y[2] = x[2] => r = q /\ x = y

UInv ==
    /\ UTypeOK
    /\ \A q \in Req : RowOf(q) /\ Asks(call[q]) /\ Tallied(call[q])
    /\ \A q \in Req : \A x \in call[q].created : CreatedTrue(q, x)

-----------------------------------------------------------------------------
(* Sequences and counts *)

LEMMA BoundedSeqIs ==
    ASSUME NEW S, NEW n \in Nat
    PROVE  /\ BoundedSeq(S, n) = UNION {[1..m -> S] : m \in 0..n}
           /\ <<>> \in BoundedSeq(S, n)
           /\ \A s \in BoundedSeq(S, n) : /\ s \in Seq(S)
                                          /\ Len(s) \in 0..n
                                          /\ \A i \in 1..Len(s) : s[i] \in S
BY DEF BoundedSeq, SeqOf

LEMMA EntryIsNat ==
    ASSUME NEW c \in Call, Tallied(c)
    PROVE  /\ Entry(c) \in Nat \ {0}
           /\ IsFiniteSet(c.errors)
<1>1. IsFiniteSet(c.created) /\ Cardinality(c.created) \in Nat
    BY FS_CardinalityType DEF Tallied
<1>2. IsFiniteSet(1..MaxBulk)
    BY FS_Interval, UsersAssumption DEF UsersAssumption
<1>3. c.errors \subseteq 1..MaxBulk
    BY DEF Call
<1>4. IsFiniteSet(c.errors) /\ Cardinality(c.errors) \in Nat
    BY <1>2, <1>3, FS_Subset, FS_CardinalityType
<1> QED
    BY <1>1, <1>4 DEF Entry

\* Every constructor but that of a bulk creation lists nothing.
LEMMA TalliedEmpty ==
    ASSUME NEW c, c.created = {}, c.errors = {}, c.step # "bulk",
           c.step \in {"reply", "read", "write", "delete"} => c.asked = <<>>
    PROVE  Tallied(c)
BY FS_EmptySet DEF Tallied, Listed

LEMMA TalliedSame ==
    ASSUME NEW c, NEW d, Tallied(c), c.step = d.step, c.asked = d.asked,
           c.created = d.created, c.errors = d.errors
    PROVE  Tallied(d)
BY DEF Tallied, Listed, Entry

LEMMA TalliedNext ==
    ASSUME NEW c \in Call, Tallied(c), c.step = "bulk", Entry(c) <= Len(c.asked),
           NEW i \in Id, NEW done \in BOOLEAN
    PROVE  Tallied(BulkTally(c, i, done))
<1> DEFINE d == BulkTally(c, i, done)
           n == Entry(c)
<1>1. n \in Nat \ {0} /\ IsFiniteSet(c.errors) /\ IsFiniteSet(c.created)
    BY EntryIsNat DEF Tallied
<1>2. c.errors \subseteq 1..(n - 1) /\ Listed(c) = (1..(n - 1)) \ c.errors
    BY DEF Tallied
<1>3. /\ Cardinality(c.created) \in Nat
      /\ Cardinality(c.errors) \in Nat
      /\ n = 1 + Cardinality(c.created) + Cardinality(c.errors)
    BY <1>1, FS_CardinalityType DEF Entry
<1>4. d.step = "bulk" /\ d.asked = c.asked
    BY DEF BulkTally, Call
<1>5. CASE done
  <2>1. d.errors = c.errors /\ d.created = c.created \cup {<<n, i>>}
    BY <1>5 DEF BulkTally, Call
  <2>2. <<n, i>> \notin c.created
    BY <1>1, <1>2 DEF Listed
  <2>3. IsFiniteSet(d.created) /\ Cardinality(d.created) = Cardinality(c.created) + 1
    BY ZenonT(60), <1>1, <2>1, <2>2, FS_AddElement
  <2>4. Entry(d) = n + 1
    BY <1>3, <2>1, <2>3 DEF Entry
  <2>5. Listed(d) = Listed(c) \cup {n}
    <3>1. Listed(d) = {x[1] : x \in c.created \cup {<<n, i>>}}
      BY <2>1 DEF Listed
    <3>2. <<n, i>>[1] = n
      OBVIOUS
    <3> HIDE DEF d, n
    <3> QED
      BY <3>1, <3>2 DEF Listed
  <2>6. Listed(d) = (1..n) \ c.errors
    BY <1>1, <1>2, <2>5
  <2>7. Len(c.asked) \in Nat
    BY BoundedSeqIs, UsersAssumption DEF Call, UsersAssumption
  <2> QED
    BY <1>1, <1>2, <1>4, <2>1, <2>3, <2>4, <2>6, <2>7 DEF Tallied
<1>6. CASE ~done
  <2>1. d.errors = c.errors \cup {n} /\ d.created = c.created
    BY <1>6 DEF BulkTally, Call
  <2>2. n \notin c.errors
    BY <1>1, <1>2
  <2>3. Cardinality(d.errors) = Cardinality(c.errors) + 1
    BY ZenonT(60), <1>1, <2>1, <2>2, FS_AddElement
  <2>4. Entry(d) = n + 1
    BY <1>3, <2>1, <2>3 DEF Entry
  <2>5. Listed(d) = (1..n) \ d.errors
    BY <1>1, <1>2, <2>1 DEF Listed
  <2>6. Len(c.asked) \in Nat
    BY BoundedSeqIs, UsersAssumption DEF Call, UsersAssumption
  <2> QED
    BY <1>1, <1>2, <1>4, <2>1, <2>4, <2>5, <2>6 DEF Tallied
<1> QED
    BY <1>5, <1>6

-----------------------------------------------------------------------------
(* Types *)

LEMMA RowTypes ==
    /\ NoRow \in Row
    /\ \A n \in Name : NewRow(n) \in Row
    /\ \A r \in Row : DeletedRow(r) \in Row
    /\ \A c \in Call : c.row.is = "row" => Merge(c) \in Row
BY DEF Row, NoRow, NewRow, DeletedRow, Merge, Call

LEMMA EmptyAsked == <<>> \in BoundedSeq(Name, MaxBulk)
BY BoundedSeqIs, UsersAssumption DEF UsersAssumption

LEMMA OneAsked == \A n \in Name : <<n>> \in BoundedSeq(Name, MaxBulk)
<1> SUFFICES ASSUME NEW n \in Name PROVE <<n>> \in BoundedSeq(Name, MaxBulk)
    OBVIOUS
<1>1. <<n>> \in [1..1 -> Name]
    OBVIOUS
<1>2. MaxBulk \in Nat /\ 1 \in 0..MaxBulk
    BY UsersAssumption DEF UsersAssumption
<1>3. BoundedSeq(Name, MaxBulk) = UNION {[1..m -> Name] : m \in 0..MaxBulk}
    BY <1>2, BoundedSeqIs
<1> HIDE DEF BoundedSeq
<1> QED
    BY <1>1, <1>2, <1>3

LEMMA ReceiveType ==
    ASSUME UTypeOK, NEW q \in Req, NEW c \in Call, Receive(q, c)
    PROVE  UTypeOK'
BY DEF UTypeOK, Receive

LEMMA NoCallType == NoCall \in Call
BY RowTypes, EmptyAsked DEF NoCall, Call

LEMMA AnswerType ==
    ASSUME UTypeOK, NEW q \in Req, Answer(q) \/ Noted(q, [NoCall EXCEPT !.step = "reply"])
    PROVE  call' \in [Req -> Call]
<1>1. /\ [NoCall EXCEPT !.step = "reply"] \in Call
      /\ \A c \in Call : [NoCall EXCEPT !.step = "reply", !.asked = c.asked,
                            !.created = c.created, !.errors = c.errors] \in Call
    BY ZenonT(60), NoCallType DEF NoCall, Call
<1> QED
    BY <1>1 DEF UTypeOK, Answer, Noted

LEMMA OutdateType ==
    ASSUME UTypeOK, NEW q \in Req, NEW i,
           call' = [Outdate(i, call) EXCEPT ![q] = [NoCall EXCEPT !.step = "reply"]]
    PROVE  call' \in [Req -> Call]
<1>1. [NoCall EXCEPT !.step = "reply"] \in Call
    BY NoCallType DEF NoCall, Call
<1>2. \A c \in Call : [c EXCEPT !.stale = TRUE] \in Call
    BY DEF Call
<1> QED
    BY <1>1, <1>2 DEF UTypeOK, Outdate

LEMMA BulkType ==
    ASSUME NEW c \in Call, Tallied(c), c.step = "bulk", Entry(c) <= Len(c.asked),
           NEW i \in Id, NEW done \in BOOLEAN
    PROVE  BulkTally(c, i, done) \in Call
<1>1. Entry(c) \in 1..MaxBulk
    BY EntryIsNat, BoundedSeqIs, UsersAssumption DEF Call, UsersAssumption
<1>2. /\ c.errors \cup {Entry(c)} \in SUBSET (1..MaxBulk)
      /\ c.created \cup {<<Entry(c), i>>} \in SUBSET ((1..MaxBulk) \X Id)
    BY <1>1 DEF Call
<1>3. CASE done
    BY <1>2, <1>3 DEF BulkTally, Call
<1>4. CASE ~done
    BY <1>2, <1>4 DEF BulkTally, Call
<1> QED
    BY <1>3, <1>4

LEMMA UTypeStep == UInv /\ [UNext]_uvars => UTypeOK'
<1> SUFFICES ASSUME UInv, [UNext]_uvars PROVE UTypeOK'
    OBVIOUS
<1> USE DEF UInv
<1>1. CASE Crash
    BY <1>1, NoCallType DEF Crash, UTypeOK
<1>2. ASSUME NEW q \in Req, PostUser(q) PROVE UTypeOK'
  <2>1. PICK n \in Name : Receive(q, [NoCall EXCEPT !.step = "insert", !.asked = <<n>>])
    BY <1>2 DEF PostUser
  <2>2. [NoCall EXCEPT !.step = "insert", !.asked = <<n>>] \in Call
    BY OneAsked, NoCallType DEF NoCall, Call
  <2> QED
    BY <2>1, <2>2, ReceiveType
<1>3. ASSUME NEW q \in Req, PostBulk(q) PROVE UTypeOK'
  <2>1. PICK ns \in BoundedSeq(Name, MaxBulk) :
            Receive(q, [NoCall EXCEPT !.step = "bulk", !.asked = ns])
    BY <1>3 DEF PostBulk
  <2>2. [NoCall EXCEPT !.step = "bulk", !.asked = ns] \in Call
    BY NoCallType DEF NoCall, Call
  <2> QED
    BY <2>1, <2>2, ReceiveType
<1>4. ASSUME NEW q \in Req, PutUser(q) PROVE UTypeOK'
  <2>1. PICK i \in Id, fs \in SUBSET Field :
            Receive(q, [NoCall EXCEPT !.step = "read", !.id = i, !.fields = fs])
    BY <1>4 DEF PutUser
  <2>2. [NoCall EXCEPT !.step = "read", !.id = i, !.fields = fs] \in Call
    BY NoCallType DEF NoCall, Call
  <2> QED
    BY <2>1, <2>2, ReceiveType
<1>5. ASSUME NEW q \in Req, DeleteUser(q) PROVE UTypeOK'
  <2>1. PICK i \in Id : Receive(q, [NoCall EXCEPT !.step = "delete", !.id = i])
    BY <1>5 DEF DeleteUser
  <2>2. [NoCall EXCEPT !.step = "delete", !.id = i] \in Call
    BY NoCallType DEF NoCall, Call
  <2> QED
    BY <2>1, <2>2, ReceiveType
<1>6. ASSUME NEW q \in Req, Cancel(q) PROVE UTypeOK'
  <2>1. [call[q] EXCEPT !.cancelled = TRUE] \in Call
    BY ZenonT(60) DEF UTypeOK, Call
  <2> QED
    BY <1>6, <2>1 DEF Cancel, UTypeOK
<1>7. ASSUME NEW q \in Req, Reply(q) PROVE UTypeOK'
    BY <1>7, NoCallType DEF Reply, UTypeOK
<1>i. ASSUME NEW q \in Req, NEW n \in Name, NEW i \in Id, InsertRow(q, n, i)
      PROVE  users' \in [Id -> Row]
    BY <1>i, RowTypes DEF InsertRow, UTypeOK
<1>8. ASSUME NEW q \in Req, InsertUser(q) PROVE UTypeOK'
  <2>1. call[q] \in Call /\ Len(call[q].asked) = 1
    BY <1>8 DEF InsertUser, UTypeOK, Asks
  <2>2. call[q].asked[1] \in Name
    BY <2>1, BoundedSeqIs, UsersAssumption DEF Call, UsersAssumption
  <2>3. users' \in [Id -> Row]
    BY <1>8, <1>i, <2>2 DEF InsertUser, FailStatement, UTypeOK
  <2> QED
    BY <1>8, <2>3, AnswerType DEF InsertUser, UTypeOK
<1>9. ASSUME NEW q \in Req, BulkInsert(q) PROVE UTypeOK'
  <2>1. /\ call[q] \in Call
        /\ Tallied(call[q])
        /\ call[q].step = "bulk"
        /\ Entry(call[q]) <= Len(call[q].asked)
    BY <1>9 DEF BulkInsert, UTypeOK
  <2>2. call[q].asked[Entry(call[q])] \in Name
    BY <2>1, EntryIsNat, BoundedSeqIs, UsersAssumption DEF Call, UsersAssumption
  <2>3. PICK i \in Id :
            \/ /\ InsertRow(q, call[q].asked[Entry(call[q])], i)
               /\ Noted(q, BulkTally(call[q], i, TRUE))
            \/ FailStatement /\ Noted(q, BulkTally(call[q], i, FALSE))
    BY <1>9 DEF BulkInsert
  <2>4. BulkTally(call[q], i, TRUE) \in Call /\ BulkTally(call[q], i, FALSE) \in Call
    BY <2>1, BulkType
  <2>5. users' \in [Id -> Row]
    BY <1>i, <2>2, <2>3 DEF FailStatement, UTypeOK
  <2> QED
    BY <2>3, <2>4, <2>5 DEF Noted, UTypeOK
<1>10. ASSUME NEW q \in Req, BulkDone(q) PROVE UTypeOK'
    BY <1>10, AnswerType DEF BulkDone, UTypeOK
<1>11. ASSUME NEW q \in Req, ReadUser(q) PROVE UTypeOK'
  <2>1. CASE Answer(q)
    BY <1>11, <2>1, AnswerType DEF ReadUser, UTypeOK
  <2>2. CASE /\ IsRow(call[q].id)
             /\ Noted(q, [call[q] EXCEPT !.step = "write", !.row = users[call[q].id]])
    <3>1. call[q] \in Call /\ call[q].id \in Id
      BY <1>11 DEF ReadUser, UTypeOK, Asks
    <3>2. users[call[q].id] \in Row
      BY <3>1 DEF UTypeOK
    <3>3. [call[q] EXCEPT !.step = "write", !.row = users[call[q].id]] \in Call
      BY <3>1, <3>2 DEF Call
    <3> QED
      BY <1>11, <2>2, <3>3 DEF ReadUser, Noted, UTypeOK
  <2> QED
    BY <1>11, <2>1, <2>2 DEF ReadUser
<1>12. ASSUME NEW q \in Req, WriteUser(q) PROVE UTypeOK'
  <2>1. CASE FailStatement /\ Answer(q)
    BY <2>1, AnswerType DEF FailStatement, UTypeOK
  <2>2. CASE /\ UpdateRow(call[q].id, Merge(call[q]))
             /\ call' = [Outdate(call[q].id, call) EXCEPT ![q] = [NoCall EXCEPT !.step = "reply"]]
    <3>1. call[q] \in Call /\ call[q].row.is = "row"
      BY <1>12 DEF WriteUser, UTypeOK, RowOf
    <3>2. users' \in [Id -> Row]
      BY <2>2, <3>1, RowTypes DEF UpdateRow, UTypeOK
    <3> QED
      BY <2>2, <3>2, OutdateType DEF UTypeOK
  <2> QED
    BY <1>12, <2>1, <2>2 DEF WriteUser
<1>13. ASSUME NEW q \in Req, DeleteRow(q) PROVE UTypeOK'
  <2>1. CASE FailStatement /\ Answer(q)
    BY <2>1, AnswerType DEF FailStatement, UTypeOK
  <2>2. CASE /\ users' = IF IsRow(call[q].id)
                         THEN [users EXCEPT ![call[q].id] = DeletedRow(@)] ELSE users
             /\ call' = [Outdate(call[q].id, call) EXCEPT ![q] = [NoCall EXCEPT !.step = "reply"]]
    <3>1. call[q].id \in Id
      BY <1>13 DEF DeleteRow, Asks
    <3>2. users' \in [Id -> Row]
      BY <2>2, <3>1, RowTypes DEF UTypeOK
    <3> QED
      BY <2>2, <3>2, OutdateType DEF UTypeOK
  <2> QED
    BY <1>13, <2>1, <2>2 DEF DeleteRow
<1>14. CASE UNCHANGED uvars
    BY <1>14 DEF uvars, UTypeOK
<1> QED
    BY <1>1, <1>2, <1>3, <1>4, <1>5, <1>6, <1>7, <1>8, <1>9, <1>10, <1>11, <1>12, <1>13, <1>14
    DEF UNext

-----------------------------------------------------------------------------
(* Rows *)

\* What a statement may make of a row: none comes back, and none is renamed.
Evolves(i) ==
    /\ users[i].is # "unused" => users'[i].is # "unused"
    /\ users[i].is = "deleted" => users'[i].is = "deleted"
    /\ users[i].is # "unused" /\ users'[i].is = "row" =>
        users[i].is = "row" /\ users'[i].name = users[i].name

LEMMA InsertEvolves ==
    ASSUME UTypeOK, NEW q \in Req, NEW n, NEW i \in Id, InsertRow(q, n, i), NEW k \in Id
    PROVE  Evolves(k)
<1>1. users[i].is = "unused" /\ users' = [users EXCEPT ![i] = NewRow(n)]
    BY DEF InsertRow, Fresh
<1>2. CASE k = i
    BY <1>1, <1>2 DEF Evolves
<1>3. CASE k # i
    BY <1>1, <1>3 DEF Evolves, UTypeOK
<1> QED
    BY <1>2, <1>3

LEMMA RowsEvolve == UInv /\ [UNext]_uvars => \A i \in Id : Evolves(i)
<1> SUFFICES ASSUME UInv, [UNext]_uvars, NEW i \in Id PROVE Evolves(i)
    OBVIOUS
<1> USE DEF UInv
<1>1. CASE UNCHANGED users
    BY <1>1 DEF Evolves
<1>2. ASSUME NEW q \in Req, NEW n, NEW k \in Id, InsertRow(q, n, k) PROVE Evolves(i)
    BY <1>2, InsertEvolves
<1>3. ASSUME NEW q \in Req, WriteUser(q) PROVE Evolves(i)
  <2>1. CASE UpdateRow(call[q].id, Merge(call[q]))
    <3>1. /\ call[q] \in Call
          /\ call[q].row.is = "row"
          /\ IsRow(call[q].id) => users[call[q].id].name = call[q].row.name
      BY <1>3 DEF WriteUser, UTypeOK, RowOf
    <3>2. Merge(call[q]).is = "row" /\ Merge(call[q]).name = call[q].row.name
      BY <3>1 DEF Merge, Call, Row
    <3>3. CASE IsRow(call[q].id) /\ i = call[q].id
      BY <2>1, <3>1, <3>2, <3>3 DEF UpdateRow, Evolves, UTypeOK, IsRow
    <3>4. CASE ~(IsRow(call[q].id) /\ i = call[q].id)
      BY <2>1, <3>4 DEF UpdateRow, Evolves, UTypeOK
    <3> QED
      BY <3>3, <3>4
  <2> QED
    BY <1>1, <1>3, <2>1 DEF WriteUser, FailStatement
<1>4. ASSUME NEW q \in Req, DeleteRow(q) PROVE Evolves(i)
  <2>1. CASE users' = [users EXCEPT ![call[q].id] = DeletedRow(@)]
    <3>1. CASE i = call[q].id
      <4>1. users'[i].is = "deleted"
        BY <2>1, <3>1 DEF UTypeOK, DeletedRow, NoRow
      <4> QED
        BY <4>1 DEF Evolves
    <3>2. CASE i # call[q].id
      BY <2>1, <3>2 DEF Evolves, UTypeOK
    <3> QED
      BY <3>1, <3>2
  <2> QED
    BY <1>1, <1>4, <2>1 DEF DeleteRow, FailStatement
<1>5. ASSUME NEW q \in Req, InsertUser(q) \/ BulkInsert(q) PROVE Evolves(i)
    BY <1>1, <1>2, <1>5 DEF InsertUser, BulkInsert, FailStatement
<1>6. ASSUME \/ Crash \/ UNCHANGED uvars
             \/ \E q \in Req :
                \/ PostUser(q) \/ PostBulk(q) \/ PutUser(q) \/ DeleteUser(q) \/ Cancel(q)
                \/ BulkDone(q) \/ ReadUser(q) \/ Reply(q)
      PROVE  Evolves(i)
    BY <1>1, <1>6 DEF Crash, uvars, PostUser, PostBulk, PutUser, DeleteUser, Receive, Cancel,
       BulkDone, ReadUser, Reply
<1> QED
    BY <1>3, <1>4, <1>5, <1>6 DEF UNext

\* What a step leaves of the copy another handler holds.
Holds(r) ==
    \/ call'[r].step # "write"
    \/ /\ call[r].step = "write"
       /\ call'[r].id = call[r].id
       /\ call'[r].row = call[r].row
       /\ call[r].stale => call'[r].stale
       /\ call'[r].stale \/ users'[call[r].id] = users[call[r].id]

LEMMA RowKept ==
    ASSUME NEW r \in Req, RowOf(r), Asks(call[r]), \A i \in Id : Evolves(i), Holds(r)
    PROVE  RowOf(r)'
<1>1. CASE call'[r].step # "write"
    BY <1>1 DEF RowOf
<1>2. CASE call'[r].step = "write" /\ call[r].step = "write"
  <2>1. Evolves(call[r].id)
    BY <1>2 DEF Asks
  <2> QED
    BY <1>2, <2>1 DEF RowOf, Holds, IsRow, Evolves
<1> QED
    BY <1>1, <1>2 DEF Holds

\* A handler that writes or deletes a row outdates every copy of it.
LEMMA OutdateHolds ==
    ASSUME UTypeOK, NEW q \in Req, NEW i,
           call' = [Outdate(i, call) EXCEPT ![q] = [NoCall EXCEPT !.step = "reply"]],
           \A k \in Id \ {i} : users'[k] = users[k],
           NEW r \in Req, Asks(call[r])
    PROVE  Holds(r)
<1>1. CASE r = q
    BY <1>1 DEF Outdate, NoCall, Holds
<1>2. CASE r # q
  <2>1. call'[r] = IF call[r].step = "write" /\ call[r].id = i
                   THEN [call[r] EXCEPT !.stale = TRUE] ELSE call[r]
    BY <1>2 DEF Outdate
  <2>2. CASE call[r].step = "write" /\ call[r].id = i
    BY <2>1, <2>2 DEF Holds, UTypeOK, Call
  <2>3. CASE call[r].step = "write" /\ call[r].id # i
    BY <2>1, <2>3 DEF Holds, Asks
  <2>4. CASE call[r].step # "write"
    BY <2>1, <2>4 DEF Holds
  <2> QED
    BY <2>2, <2>3, <2>4
<1> QED
    BY <1>1, <1>2

LEMMA RowStep == UInv /\ [UNext]_uvars => \A r \in Req : RowOf(r)'
<1> SUFFICES ASSUME UInv, [UNext]_uvars, NEW r \in Req PROVE RowOf(r)'
    OBVIOUS
<1> USE DEF UInv
<1>k. ASSUME Holds(r) PROVE RowOf(r)'
    BY <1>k, RowsEvolve, RowKept
<1>1. ASSUME NEW q \in Req, NEW c, c.step # "write", call' = [call EXCEPT ![q] = c],
             UNCHANGED users
      PROVE  RowOf(r)'
  <2>1. Holds(r)
    BY <1>1 DEF Holds, UTypeOK
  <2> QED
    BY <1>k, <2>1
<1>2. ASSUME NEW q \in Req, Answer(q), UNCHANGED users PROVE RowOf(r)'
    BY <1>1, <1>2 DEF Answer, Noted, NoCall
<1>3. ASSUME NEW q \in Req, PostUser(q) \/ PostBulk(q) \/ PutUser(q) \/ DeleteUser(q)
      PROVE  RowOf(r)'
    BY <1>1, <1>3 DEF PostUser, PostBulk, PutUser, DeleteUser, Receive, NoCall
<1>4. ASSUME NEW q \in Req, Cancel(q) PROVE RowOf(r)'
  <2>1. Holds(r)
    BY <1>4 DEF Holds, Cancel, UTypeOK, Call
  <2> QED
    BY <1>k, <2>1
<1>5. ASSUME NEW q \in Req, InsertUser(q) \/ BulkInsert(q) PROVE RowOf(r)'
  <2>1. \A k \in Id : users[k].is # "unused" => users'[k] = users[k]
    BY <1>5 DEF InsertUser, BulkInsert, InsertRow, Fresh, FailStatement, UTypeOK
  <2>2. call'[q].step # "write" /\ \A o \in Req \ {q} : call'[o] = call[o]
    <3>1. CASE InsertUser(q)
      BY <3>1 DEF InsertUser, Noted, NoCall, UTypeOK
    <3>2. CASE BulkInsert(q)
      <4>1. PICK i \in Id, done \in BOOLEAN : Noted(q, BulkTally(call[q], i, done))
        BY <3>2 DEF BulkInsert
      <4>2. BulkTally(call[q], i, done).step = "bulk"
        BY <3>2 DEF BulkInsert, BulkTally, UTypeOK, Call
      <4> QED
        BY <4>1, <4>2 DEF Noted, UTypeOK
    <3> QED
      BY <1>5, <3>1, <3>2
  <2>3. Holds(r)
    BY <2>1, <2>2 DEF Holds, RowOf, Asks
  <2> QED
    BY <1>k, <2>3
<1>6. ASSUME NEW q \in Req, ReadUser(q) PROVE RowOf(r)'
  <2>1. CASE /\ IsRow(call[q].id)
             /\ Noted(q, [call[q] EXCEPT !.step = "write", !.row = users[call[q].id]])
    <3>1. call[q].id \in Id /\ UNCHANGED users
      BY <1>6 DEF ReadUser, Asks
    <3>2. CASE r = q
      <4>1. /\ call'[r].step = "write"
            /\ call'[r].id = call[r].id
            /\ call'[r].row = users[call[r].id]
        BY <2>1, <3>2 DEF Noted, UTypeOK, Call
      <4> QED
        BY <2>1, <3>1, <3>2, <4>1 DEF RowOf, IsRow
    <3>3. CASE r # q
      <4>1. Holds(r)
        BY <2>1, <3>1, <3>3 DEF Noted, UTypeOK, Holds
      <4> QED
        BY <1>k, <4>1
    <3> QED
      BY <3>2, <3>3
  <2> QED
    BY <1>2, <1>6, <2>1 DEF ReadUser
<1>7. ASSUME NEW q \in Req, WriteUser(q) PROVE RowOf(r)'
  <2>1. CASE /\ UpdateRow(call[q].id, Merge(call[q]))
             /\ call' = [Outdate(call[q].id, call) EXCEPT ![q] = [NoCall EXCEPT !.step = "reply"]]
    <3>1. \A k \in Id \ {call[q].id} : users'[k] = users[k]
      BY <2>1 DEF UpdateRow, UTypeOK
    <3> QED
      BY <1>k, <2>1, <3>1, OutdateHolds
  <2> QED
    BY <1>2, <1>7, <2>1 DEF WriteUser, FailStatement
<1>8. ASSUME NEW q \in Req, DeleteRow(q) PROVE RowOf(r)'
  <2>1. CASE /\ users' = IF IsRow(call[q].id)
                         THEN [users EXCEPT ![call[q].id] = DeletedRow(@)] ELSE users
             /\ call' = [Outdate(call[q].id, call) EXCEPT ![q] = [NoCall EXCEPT !.step = "reply"]]
    <3>1. \A k \in Id \ {call[q].id} : users'[k] = users[k]
      BY <2>1 DEF UTypeOK
    <3> QED
      BY <1>k, <2>1, <3>1, OutdateHolds
  <2> QED
    BY <1>2, <1>8, <2>1 DEF DeleteRow, FailStatement
<1>9. ASSUME NEW q \in Req, BulkDone(q) \/ Reply(q) PROVE RowOf(r)'
    BY <1>1, <1>2, <1>9 DEF BulkDone, Reply, NoCall
<1>10. CASE Crash \/ UNCHANGED uvars
  <2>1. Holds(r)
    BY <1>10 DEF Crash, uvars, Holds, NoCall
  <2> QED
    BY <1>k, <2>1
<1> QED
    BY <1>3, <1>4, <1>5, <1>6, <1>7, <1>8, <1>9, <1>10 DEF UNext

-----------------------------------------------------------------------------
(* Requests and reports *)

LEMMA ReceivedTallies ==
    ASSUME NEW c, c.created = {}, c.errors = {}, c.step = "bulk", Len(c.asked) \in Nat
    PROVE  Tallied(c)
<1>1. Entry(c) = 1
    BY FS_EmptySet DEF Entry
<1>2. Listed(c) = {} /\ IsFiniteSet({})
    BY FS_EmptySet DEF Listed
<1> QED
    BY <1>1, <1>2 DEF Tallied

LEMMA CallStep ==
    UInv /\ [UNext]_uvars => \A r \in Req : Asks(call'[r]) /\ Tallied(call'[r])
<1> SUFFICES ASSUME UInv, [UNext]_uvars, NEW r \in Req
             PROVE  Asks(call'[r]) /\ Tallied(call'[r])
    OBVIOUS
<1> DEFINE Good(c) == Asks(c) /\ Tallied(c)
<1> USE DEF UInv
<1>1. ASSUME NEW q \in Req, NEW c, Good(c), call' = [call EXCEPT ![q] = c]
      PROVE  Good(call'[r])
    BY <1>1 DEF UTypeOK
<1>2. Good(NoCall) /\ Good([NoCall EXCEPT !.step = "reply"])
    BY TalliedEmpty DEF NoCall, Asks
<1>3. ASSUME NEW q \in Req, Answer(q),
             \/ call[q].step \in {"read", "write", "delete"}
             \/ call[q].step = "bulk" /\ Entry(call[q]) > Len(call[q].asked)
      PROVE  Good(call'[r])
  <2> DEFINE d == [NoCall EXCEPT !.step = "reply", !.asked = call[q].asked,
                     !.created = call[q].created, !.errors = call[q].errors]
  <2>1. /\ d.step = "reply" /\ d.asked = call[q].asked
        /\ d.created = call[q].created /\ d.errors = call[q].errors
    BY DEF NoCall
  <2>2. CASE call[q].step \in {"read", "write", "delete"}
    <3>1. d.created = {} /\ d.errors = {} /\ d.asked = <<>>
      BY <2>1, <2>2 DEF Tallied
    <3> QED
      BY <1>1, <1>3, <2>1, <3>1, TalliedEmpty DEF Answer, Noted, Asks
  <2>3. CASE call[q].step = "bulk" /\ Entry(call[q]) > Len(call[q].asked)
    <3>1. call[q] \in Call /\ Tallied(call[q])
      BY DEF UTypeOK
    <3>2. Entry(call[q]) \in Nat /\ Len(call[q].asked) \in Nat
      BY <3>1, EntryIsNat, BoundedSeqIs, UsersAssumption DEF Call, UsersAssumption
    <3>3. Entry(call[q]) - 1 = Len(call[q].asked)
      BY <2>3, <3>1, <3>2 DEF Tallied
    <3>4. Tallied(d)
      BY <2>1, <2>3, <3>1, <3>3 DEF Tallied, Listed
    <3> QED
      BY <1>1, <1>3, <2>1, <3>4 DEF Answer, Noted, Asks
  <2> QED
    BY <1>3, <2>2, <2>3
<1>4. ASSUME NEW q \in Req, NEW i,
             call' = [Outdate(i, call) EXCEPT ![q] = [NoCall EXCEPT !.step = "reply"]]
      PROVE  Good(call'[r])
  <2>1. CASE r = q
    BY <1>2, <1>4, <2>1 DEF Outdate
  <2>2. CASE r # q
    <3>1. \/ call'[r] = [call[r] EXCEPT !.stale = TRUE]
          \/ call'[r] = call[r]
      BY <1>4, <2>2 DEF Outdate
    <3>2. /\ call'[r].step = call[r].step /\ call'[r].asked = call[r].asked
          /\ call'[r].created = call[r].created /\ call'[r].errors = call[r].errors
          /\ call'[r].id = call[r].id
      BY <3>1 DEF UTypeOK, Call
    <3> QED
      BY <3>2, TalliedSame DEF Asks
  <2> QED
    BY <2>1, <2>2
<1>5. ASSUME NEW q \in Req, PostUser(q) PROVE Good(call'[r])
  <2>1. PICK n \in Name :
            call' = [call EXCEPT ![q] = [NoCall EXCEPT !.step = "insert", !.asked = <<n>>]]
    BY <1>5 DEF PostUser, Receive
  <2>2. Good([NoCall EXCEPT !.step = "insert", !.asked = <<n>>])
    BY TalliedEmpty DEF NoCall, Asks
  <2> QED
    BY <1>1, <2>1, <2>2
<1>6. ASSUME NEW q \in Req, PostBulk(q) PROVE Good(call'[r])
  <2>1. PICK ns \in BoundedSeq(Name, MaxBulk) :
            call' = [call EXCEPT ![q] = [NoCall EXCEPT !.step = "bulk", !.asked = ns]]
    BY <1>6 DEF PostBulk, Receive
  <2>2. Len(ns) \in Nat
    BY BoundedSeqIs, UsersAssumption DEF UsersAssumption
  <2>3. Good([NoCall EXCEPT !.step = "bulk", !.asked = ns])
    BY <2>2, ReceivedTallies DEF NoCall, Asks
  <2> QED
    BY <1>1, <2>1, <2>3
<1>7. ASSUME NEW q \in Req, PutUser(q) \/ DeleteUser(q) PROVE Good(call'[r])
  <2>1. PICK c : /\ call' = [call EXCEPT ![q] = c]
                 /\ c.step \in {"read", "delete"} /\ c.id \in Id
                 /\ c.asked = <<>> /\ c.created = {} /\ c.errors = {}
    <3>1. CASE PutUser(q)
      <4>1. PICK i \in Id, fs \in SUBSET Field :
                call' = [call EXCEPT ![q] = [NoCall EXCEPT !.step = "read", !.id = i, !.fields = fs]]
        BY <3>1 DEF PutUser, Receive
      <4> WITNESS [NoCall EXCEPT !.step = "read", !.id = i, !.fields = fs]
      <4> QED
        BY <4>1 DEF NoCall
    <3>2. CASE DeleteUser(q)
      <4>1. PICK i \in Id :
                call' = [call EXCEPT ![q] = [NoCall EXCEPT !.step = "delete", !.id = i]]
        BY <3>2 DEF DeleteUser, Receive
      <4> WITNESS [NoCall EXCEPT !.step = "delete", !.id = i]
      <4> QED
        BY <4>1 DEF NoCall
    <3> QED
      BY <1>7, <3>1, <3>2
  <2> QED
    BY <1>1, <2>1, TalliedEmpty DEF Asks
<1>8. ASSUME NEW q \in Req, Cancel(q) PROVE Good(call'[r])
  <2>1. /\ call'[r].step = call[r].step /\ call'[r].asked = call[r].asked
        /\ call'[r].created = call[r].created /\ call'[r].errors = call[r].errors
        /\ call'[r].id = call[r].id
    BY <1>8 DEF Cancel, UTypeOK, Call
  <2> QED
    BY <2>1, TalliedSame DEF Asks
<1>9. ASSUME NEW q \in Req, InsertUser(q) \/ Reply(q) PROVE Good(call'[r])
    BY <1>1, <1>2, <1>9 DEF InsertUser, Reply, Noted
<1>10. ASSUME NEW q \in Req, BulkInsert(q) PROVE Good(call'[r])
  <2>1. PICK i \in Id, done \in BOOLEAN : Noted(q, BulkTally(call[q], i, done))
    BY <1>10 DEF BulkInsert
  <2>2. /\ call[q] \in Call /\ Tallied(call[q]) /\ call[q].step = "bulk"
        /\ Entry(call[q]) <= Len(call[q].asked)
    BY <1>10 DEF BulkInsert, UTypeOK
  <2>3. Tallied(BulkTally(call[q], i, done))
    BY <2>2, TalliedNext
  <2>4. BulkTally(call[q], i, done).step = "bulk"
    BY <2>2 DEF BulkTally, Call
  <2> QED
    BY <1>1, <2>1, <2>3, <2>4 DEF Noted, Asks
<1>11. ASSUME NEW q \in Req, BulkDone(q) PROVE Good(call'[r])
    BY <1>3, <1>11 DEF BulkDone
<1>12. ASSUME NEW q \in Req, ReadUser(q) PROVE Good(call'[r])
  <2>1. CASE Noted(q, [call[q] EXCEPT !.step = "write", !.row = users[call[q].id]])
    <3> DEFINE d == [call[q] EXCEPT !.step = "write", !.row = users[call[q].id]]
    <3>1. /\ call[q].asked = <<>> /\ call[q].created = {} /\ call[q].errors = {}
          /\ call[q].id \in Id
      BY <1>12 DEF ReadUser, Tallied, Asks
    <3>2. /\ d.step = "write" /\ d.asked = <<>> /\ d.created = {} /\ d.errors = {}
          /\ d.id \in Id
      BY <3>1 DEF UTypeOK, Call
    <3> QED
      BY <1>1, <2>1, <3>2, TalliedEmpty DEF Noted, Asks
  <2>2. CASE Answer(q)
    <3>1. call[q].step = "read"
      BY <1>12 DEF ReadUser
    <3> QED
      BY <1>3, <2>2, <3>1
  <2> QED
    BY <1>12, <2>1, <2>2 DEF ReadUser
<1>13. ASSUME NEW q \in Req, WriteUser(q) \/ DeleteRow(q) PROVE Good(call'[r])
  <2>1. call[q].step \in {"write", "delete"}
    BY <1>13 DEF WriteUser, DeleteRow
  <2>2. CASE Answer(q)
    BY <1>3, <2>1, <2>2
  <2>3. CASE call' = [Outdate(call[q].id, call) EXCEPT ![q] = [NoCall EXCEPT !.step = "reply"]]
    BY <1>4, <2>3
  <2> QED
    BY <1>13, <2>2, <2>3 DEF WriteUser, DeleteRow
<1>14. CASE Crash \/ UNCHANGED uvars
    BY <1>2, <1>14 DEF Crash, uvars
<1> QED
    BY <1>5, <1>6, <1>7, <1>8, <1>9, <1>10, <1>11, <1>12, <1>13, <1>14 DEF UNext

\* A list of created users stays true while it only stays or is dropped.
LEMMA CreatedKept ==
    ASSUME UInv, \A i \in Id : Evolves(i),
           \A r \in Req : \/ call'[r].created = {}
                         \/ /\ call'[r].created = call[r].created
                            /\ call'[r].asked = call[r].asked
    PROVE  \A q \in Req : \A x \in call'[q].created : CreatedTrue(q, x)'
<1> SUFFICES ASSUME NEW q \in Req, NEW x \in call'[q].created PROVE CreatedTrue(q, x)'
    OBVIOUS
<1>1. \A r \in Req : call'[r].created \subseteq call[r].created
    OBVIOUS
<1>2. x \in call[q].created /\ call'[q].asked = call[q].asked
    OBVIOUS
<1>3. x[2] \in Id
    BY <1>2 DEF UInv, UTypeOK, Call
<1>4. CreatedTrue(q, x) /\ Evolves(x[2])
    BY <1>2, <1>3 DEF UInv
<1> QED
    BY <1>1, <1>2, <1>3, <1>4 DEF CreatedTrue, Evolves, IsRow

LEMMA CreatedBulk ==
    ASSUME UInv, \A i \in Id : Evolves(i), NEW q \in Req, BulkInsert(q)
    PROVE  \A r \in Req : \A x \in call'[r].created : CreatedTrue(r, x)'
<1>1. call[q] \in Call /\ Tallied(call[q])
    BY DEF UInv, UTypeOK
<1> PICK n \in Nat \ {0} : n = Entry(call[q])
    BY <1>1, EntryIsNat
<1>2. PICK i \in Id :
          \/ /\ InsertRow(q, call[q].asked[n], i)
             /\ Noted(q, BulkTally(call[q], i, TRUE))
          \/ FailStatement /\ Noted(q, BulkTally(call[q], i, FALSE))
    BY DEF BulkInsert
<1>3. \A r \in Req \ {q} : call'[r] = call[r]
    BY <1>2 DEF Noted, UInv, UTypeOK
<1>4. CASE FailStatement /\ Noted(q, BulkTally(call[q], i, FALSE))
  <2>1. call'[q].created = call[q].created /\ call'[q].asked = call[q].asked
    BY <1>1, <1>4 DEF BulkTally, Noted, UInv, UTypeOK, Call
  <2> QED
    BY <1>3, <2>1, CreatedKept
<1>5. CASE InsertRow(q, call[q].asked[n], i) /\ Noted(q, BulkTally(call[q], i, TRUE))
  <2>1. call'[q].created = call[q].created \cup {<<n, i>>} /\ call'[q].asked = call[q].asked
    BY <1>1, <1>5 DEF BulkTally, Noted, UInv, UTypeOK, Call
  <2>2. users[i].is = "unused" /\ users' = [users EXCEPT ![i] = NewRow(call[q].asked[n])]
    BY <1>5 DEF InsertRow, Fresh
  <2>3. users'[i].is = "row" /\ users'[i].name = call[q].asked[n]
    BY <2>2 DEF NewRow, NoRow, UInv, UTypeOK
  <2>4. ASSUME NEW r \in Req, NEW x \in call[r].created
        PROVE  /\ x[2] \in Id /\ x[2] # i
               /\ CreatedTrue(r, x)
    BY <2>2, <2>4 DEF UInv, UTypeOK, Call, CreatedTrue
  <2>5. ASSUME NEW r \in Req, NEW x \in call[r].created PROVE CreatedTrue(r, x)'
    <3>1. Evolves(x[2]) /\ call'[r].asked = call[r].asked
      BY <1>3, <2>1, <2>4
    <3>2. \A o \in Req : \A y \in call'[o].created : y[2] = x[2] => y \in call[o].created
      <4>1. <<n, i>>[2] = i
        OBVIOUS
      <4> QED
        BY <1>3, <2>1, <2>4, <4>1
    <3> QED
      BY <2>4, <3>1, <3>2 DEF CreatedTrue, Evolves, IsRow
  <2>6. CreatedTrue(q, <<n, i>>)'
    <3>1. \A o \in Req : \A y \in call'[o].created : y[2] = i => o = q /\ y = <<n, i>>
      BY <1>3, <2>1, <2>4
    <3>2. <<n, i>>[1] = n /\ <<n, i>>[2] = i
      OBVIOUS
    <3> QED
      BY <2>1, <2>3, <3>1, <3>2 DEF CreatedTrue, IsRow
  <2> QED
    BY <1>3, <2>1, <2>5, <2>6
<1> QED
    BY <1>2, <1>4, <1>5

LEMMA CreatedStep ==
    UInv /\ [UNext]_uvars => \A q \in Req : \A x \in call'[q].created : CreatedTrue(q, x)'
<1> SUFFICES ASSUME UInv, [UNext]_uvars
             PROVE  \A q \in Req : \A x \in call'[q].created : CreatedTrue(q, x)'
    OBVIOUS
<1> DEFINE Kept(r) == \/ call'[r].created = {}
                      \/ /\ call'[r].created = call[r].created
                         /\ call'[r].asked = call[r].asked
<1>1. \A i \in Id : Evolves(i)
    BY RowsEvolve
<1>2. ASSUME NEW q \in Req, BulkInsert(q)
      PROVE  \A r \in Req : \A x \in call'[r].created : CreatedTrue(r, x)'
    BY <1>1, <1>2, CreatedBulk
<1>3. ASSUME NEW q \in Req, \A r \in Req \ {q} : call'[r] = call[r],
             \/ call'[q].created = {}
             \/ call'[q].created = call[q].created /\ call'[q].asked = call[q].asked,
             NEW r \in Req
      PROVE  Kept(r)
    BY <1>3
<1>4. ASSUME NEW q \in Req, Answer(q), NEW r \in Req PROVE Kept(r)
    BY <1>4 DEF Answer, Noted, NoCall, UInv, UTypeOK
<1>5. ASSUME NEW q \in Req, NEW i,
             call' = [Outdate(i, call) EXCEPT ![q] = [NoCall EXCEPT !.step = "reply"]],
             NEW r \in Req
      PROVE  Kept(r)
    BY <1>5 DEF Outdate, NoCall, UInv, UTypeOK, Call
<1>6. ASSUME NEW q \in Req, PostUser(q) \/ PostBulk(q) \/ PutUser(q) \/ DeleteUser(q),
             NEW r \in Req
      PROVE  Kept(r)
    BY ZenonT(60), <1>6 DEF PostUser, PostBulk, PutUser, DeleteUser, Receive, NoCall, UInv, UTypeOK
<1>7. ASSUME NEW q \in Req, Cancel(q) \/ InsertUser(q) \/ Reply(q), NEW r \in Req
      PROVE  Kept(r)
    BY <1>7 DEF Cancel, InsertUser, Reply, Noted, NoCall, UInv, UTypeOK, Call
<1>8. ASSUME NEW q \in Req, ReadUser(q), NEW r \in Req PROVE Kept(r)
  <2>1. CASE Noted(q, [call[q] EXCEPT !.step = "write", !.row = users[call[q].id]])
    BY <2>1 DEF Noted, UInv, UTypeOK, Call
  <2> QED
    BY <1>4, <1>8, <2>1 DEF ReadUser
<1>9. ASSUME NEW q \in Req, WriteUser(q) \/ DeleteRow(q) \/ BulkDone(q), NEW r \in Req
      PROVE  Kept(r)
  <2>1. CASE Answer(q)
    BY <1>4, <2>1
  <2>2. CASE call' = [Outdate(call[q].id, call) EXCEPT ![q] = [NoCall EXCEPT !.step = "reply"]]
    BY <1>5, <2>2
  <2> QED
    BY <1>9, <2>1, <2>2 DEF WriteUser, DeleteRow, BulkDone
<1>10. ASSUME Crash \/ UNCHANGED uvars, NEW r \in Req PROVE Kept(r)
    BY <1>10 DEF Crash, uvars, NoCall
<1> QED
    BY <1>1, <1>2, <1>6, <1>7, <1>8, <1>9, <1>10, CreatedKept DEF UNext

-----------------------------------------------------------------------------
(* Theorems *)

LEMMA UInvInit == UInit => UInv
<1> SUFFICES ASSUME UInit PROVE UInv
    OBVIOUS
<1>1. UTypeOK
    BY RowTypes, NoCallType DEF UInit, UTypeOK
<1>2. Tallied(NoCall) /\ Asks(NoCall)
    BY TalliedEmpty DEF NoCall, Asks
<1> QED
    BY <1>1, <1>2 DEF UInit, UInv, RowOf, NoCall

LEMMA UInvHolds == USpec => []UInv
<1>1. UInv /\ [UNext]_uvars => UInv'
    BY UTypeStep, RowStep, CallStep, CreatedStep DEF UInv
<1> QED
    BY <1>1, UInvInit, PTL DEF USpec

\* Rows and handlers keep their types.
THEOREM UTypeCorrect == USpec => []UTypeOK
<1>1. UInv => UTypeOK
    BY DEF UInv
<1> QED
    BY <1>1, UInvHolds, PTL

\* The report of a bulk creation is true, whatever interleaves with it.
THEOREM BulkReportCorrect == USpec => []BulkReportTrue
<1>1. UInv => BulkReportTrue
    BY DEF UInv, BulkReportTrue, Tallied, Listed, CreatedTrue
<1> QED
    BY <1>1, UInvHolds, PTL

\* A deleted user stays deleted, whatever updates have read it before.
THEOREM DeletedCorrect == USpec => DeletedStaysDeleted
<1>1. UInv /\ [UNext]_uvars =>
        [\A i \in Id : users[i].is = "deleted" => users'[i].is = "deleted"]_uvars
    BY RowsEvolve DEF Evolves
<1> QED
    BY <1>1, UInvHolds, PTL DEF USpec, DeletedStaysDeleted

\* The fields a request does not have change only under a copy that was outdated.
LEMMA UpdateStep ==
    ASSUME UInv, [UNext]_uvars, NEW q \in Req, NEW i \in Id,
           call[q].step = "write", call'[q].step = "reply", users'[i] # users[i]
    PROVE  call[q].stale \/ users'[i].put \ call[q].fields = users[i].put \ call[q].fields
<1> USE DEF UInv
<1>1. CASE WriteUser(q)
  <2>1. UpdateRow(call[q].id, Merge(call[q]))
    BY <1>1 DEF WriteUser, FailStatement
  <2>2. i = call[q].id /\ IsRow(i) /\ users'[i] = Merge(call[q])
    BY <2>1 DEF UpdateRow, UTypeOK
  <2>3. call[q] \in Call /\ call[q].row \in Row
    BY DEF UTypeOK, Call
  <2>4. users'[i].put = call[q].row.put \cup call[q].fields
    BY <2>2, <2>3 DEF Merge, Row
  <2>5. call[q].stale \/ users[i] = call[q].row
    BY <2>2 DEF RowOf
  <2> QED
    BY <2>4, <2>5
<1>2. ASSUME ~WriteUser(q) PROVE FALSE
  <2> USE DEF UTypeOK
  <2>1. ASSUME NEW r \in Req, NEW c, call' = [call EXCEPT ![r] = c], call[r].step # "write"
        PROVE  FALSE
    BY <2>1
  <2>2. ASSUME NEW r \in Req, NEW k,
               call' = [Outdate(k, call) EXCEPT ![r] = [NoCall EXCEPT !.step = "reply"]], r # q
        PROVE  FALSE
    BY <2>2 DEF Outdate, Call
  <2>3. ASSUME NEW r \in Req, r # q, WriteUser(r) PROVE FALSE
    BY <2>2, <2>3 DEF WriteUser, FailStatement, Answer, Noted
  <2>4. ASSUME NEW r \in Req, DeleteRow(r) PROVE FALSE
    <3>1. call[r].step = "delete" /\ r # q
      BY <2>4 DEF DeleteRow
    <3> QED
      BY <2>1, <2>2, <2>4, <3>1 DEF DeleteRow, Answer, Noted
  <2>5. ASSUME \/ Crash \/ UNCHANGED uvars
               \/ \E r \in Req : Cancel(r)
        PROVE  FALSE
    BY <2>5 DEF Crash, uvars, Cancel, NoCall, Call
  <2>6. ASSUME NEW r \in Req,
               \/ PostUser(r) \/ PostBulk(r) \/ PutUser(r) \/ DeleteUser(r)
               \/ InsertUser(r) \/ BulkInsert(r) \/ BulkDone(r) \/ ReadUser(r) \/ Reply(r)
        PROVE  FALSE
    BY <2>1, <2>6 DEF PostUser, PostBulk, PutUser, DeleteUser, InsertUser, BulkInsert, BulkDone,
       ReadUser, Reply, Receive, Answer, Noted, NoCall
  <2> QED
    BY <1>2, <2>3, <2>4, <2>5, <2>6 DEF UNext
<1> QED
    BY <1>1, <1>2

\* An update keeps what its request does not have, unless the row it read was
\* written by another handler before it wrote.
THEOREM UpdateCorrect == USpec => UpdateKeepsOthers
<1> DEFINE A == \A q \in Req, i \in Id :
                    /\ call[q].step = "write" /\ call'[q].step = "reply"
                    /\ users'[i] # users[i]
                    => \/ call[q].stale
                       \/ users'[i].put \ call[q].fields = users[i].put \ call[q].fields
<1>1. UInv /\ [UNext]_uvars => [A]_uvars
    BY UpdateStep
<1> QED
    BY <1>1, UInvHolds, PTL DEF USpec, UpdateKeepsOthers
=============================================================================
