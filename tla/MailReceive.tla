---------------------------- MODULE MailReceive ----------------------------
(***************************************************************************)
(* The agent's email_receive handler (agent/actions/email_receive.go) with *)
(* its IMAP and Outlook backends (email_receive_imap.go,                   *)
(* email_receive_outlook.go): connect, find a mail, read it, save its      *)
(* attachments, start them, disconnect.  New mail arrives and mails go     *)
(* while it works; in Outlook an attachment may be taken out of a mail.    *)
(*                                                                         *)
(* COM counts its initialisations thread by thread, and Connect and        *)
(* Disconnect act on the thread their goroutine happens to be on.          *)
(***************************************************************************)
EXTENDS Naturals, Sequences, FiniteSets, SequencesExt

CONSTANTS Mail,      \* the mails, numbered in the order they arrive
          Sat,       \* Sat[b][m]: the parts of a filter mail m satisfies for backend b
          Attached,  \* Attached[m]: the names of its attachments
          AllowedAttachment, \* those isAllowedAttachment, isWithinSizeLimit pass
          AllowedExecutable, \* those isAllowedExecutable lets pass, by their base name
          Climbing,  \* those filepath.Join leads out of save_directory with: "../x"
          MaxResults,    \* bound on max_results
          Thread,        \* the threads of the agent
          MaxApartments  \* bound on the initialisations of COM on a thread

Name == UNION {ToSet(Attached[m]) : m \in Mail}

ASSUME MailAssumption ==
    /\ Mail \subseteq Nat \ {0}
    /\ IsFiniteSet(Mail)
    /\ MaxResults \in Nat \ {0}
    /\ MaxApartments \in Nat \ {0}
    /\ Attached \in [Mail -> Seq(Name)]

VARIABLES mail,     \* the handler that runs
          box,      \* the mails in the folder
          attached, \* attached[m]: what is left of its attachments
          conn,     \* what the handler holds of the mail server, or of Outlook
          files,    \* the files it wrote, in save_directory or outside
          com,      \* com[t]: how often COM is initialised on thread t
          on        \* the thread the handler's goroutine is on

mailVars == <<mail, box, attached, conn, files, com>>

IsSubSeqOf(s, t) == \E f \in [DOMAIN s -> DOMAIN t] :
    /\ \A i, k \in DOMAIN s : i < k => f[i] < f[k]
    /\ \A i \in DOMAIN s : s[i] = t[f[i]]

\* unread: unread = true, as no backend looks at unread = false; dates: since and
\* before; words: subject and sender; attachment: has_attachment.
Part == {"unread", "dates", "words", "attachment"}

\* byId: message_id is given.  saves, runs: the configuration allows the
\* directory and the execution.  infos: the attachments ReadEmail lists, todo
\* those still to be saved.  History: Restrict failed (unrestricted); an
\* attachment was taken out (edited).
NoMail == [op |-> "none", backend |-> "none", filter |-> {}, byId |-> FALSE, max |-> 1,
           saves |-> FALSE, runs |-> FALSE, step |-> "idle", found |-> {}, msg |-> 0,
           infos |-> <<>>, todo |-> {}, saved |-> <<>>, started |-> {},
           unrestricted |-> FALSE, edited |-> FALSE]
Operation == {"list", "read", "extract", "execute"}
MailSteps == {"idle", "connect", "create", "dispatch", "find", "read", "again", "save",
              "start", "succeed", "fail", "completed", "failed", "panic"}
File == [name : Name, outside : BOOLEAN]
NoApartment == [t \in Thread |-> 0]

MailTypeOK ==
    /\ DOMAIN mail = DOMAIN NoMail
    /\ mail.op \in Operation \cup {"none", "unknown"}
    /\ mail.backend \in {"none", "imap", "outlook"}
    /\ mail.filter \in SUBSET Part
    /\ mail.max \in 1..MaxResults
    /\ {mail.byId, mail.saves, mail.runs, mail.unrestricted, mail.edited} \subseteq BOOLEAN
    /\ mail.step \in MailSteps
    /\ mail.found \in SUBSET Mail /\ mail.msg \in Mail \cup {0}
    /\ ToSet(mail.infos) \subseteq Name /\ mail.todo \subseteq DOMAIN mail.infos
    /\ ToSet(mail.saved) \subseteq Name /\ mail.started \subseteq ToSet(mail.saved)
    /\ box \in SUBSET Mail
    /\ \A m \in Mail : IsSubSeqOf(attached[m], Attached[m])
    /\ conn \in SUBSET {"client", "unknown", "app", "ns"}
    /\ files \in SUBSET File
    /\ com \in [Thread -> 0..MaxApartments]
    /\ on \in Thread

MailInit ==
    /\ mail = NoMail
    /\ box = {}
    /\ attached = Attached
    /\ conn = {}
    /\ files = {}
    /\ com = NoApartment

-----------------------------------------------------------------------------
(* The mailbox *)

\* A date that is no RFC 3339 time is left out of the filter, without an error.
BuildFilter(asked, parses) == IF parses THEN asked ELSE asked \ {"dates"}

\* selectBackend, buildConnectionConfig and buildFilter; the mailbox is in any
\* state.
BeginMail ==
    /\ mail.step = "idle"
    /\ \E o \in Operation \cup {"unknown"}, b \in {"imap", "outlook"}, id, s, r \in BOOLEAN,
          asked \in SUBSET Part, parses \in BOOLEAN, n \in 1..MaxResults, known \in BOOLEAN :
        /\ id => asked = {} /\ o # "list"
        /\ s \/ r => o \in {"extract", "execute"}
        /\ n > 1 => o = "list"
        /\ mail' = IF known
                    THEN [NoMail EXCEPT !.op = o, !.backend = b, !.byId = id,
                                        !.filter = BuildFilter(asked, parses),
                                        !.max = n, !.saves = s, !.runs = r, !.step = "connect"]
                    ELSE [NoMail EXCEPT !.step = "failed"]
    /\ box' \in SUBSET Mail
    /\ UNCHANGED <<attached, conn, files, com>>

\* Between two looks at the folder; before the first, any folder is possible anyway.
Looking == mail.step \in {"read", "again", "save"}

Arrive ==
    /\ Looking
    /\ \E m \in Mail \ box : (\A n \in box : n < m) /\ box' = box \cup {m}
    /\ UNCHANGED <<mail, attached, conn, files, com>>

Vanish ==
    /\ Looking
    /\ \E m \in box : box' = box \ {m}
    /\ UNCHANGED <<mail, attached, conn, files, com>>

\* A mail on an IMAP server does not change.
TakeOut ==
    /\ mail.step \in {"again", "save"}
    /\ mail.backend = "outlook"
    /\ \E m \in box : \E i \in DOMAIN attached[m] :
        attached' = [attached EXCEPT ![m] = RemoveAt(@, i)]
    /\ mail' = [mail EXCEPT !.edited = TRUE]
    /\ UNCHANGED <<box, conn, files, com>>

-----------------------------------------------------------------------------
(* Backends *)

Go(s) == mail' = [mail EXCEPT !.step = s]
Alone == UNCHANGED <<box, attached, conn, files, com>>

\* A failed login closes the connection.
ConnectIMAP ==
    /\ mail.step = "connect"
    /\ mail.backend = "imap"
    /\ \/ conn' = {"client"} /\ Go("dispatch")
       \/ conn' = {} /\ Go("failed")
    /\ UNCHANGED <<box, attached, files, com>>

\* CoInitialize; its error is logged, and Connect goes on.
InitializeCOM ==
    /\ mail.step = "connect"
    /\ mail.backend = "outlook"
    /\ Go("create")
    /\ \/ com[on] < MaxApartments /\ com' = [com EXCEPT ![on] = @ + 1]
       \/ UNCHANGED com
    /\ UNCHANGED <<box, attached, conn, files>>

\* CoUninitialize, for the thread the goroutine is on by now.
Uninitialize == com' = [com EXCEPT ![on] = IF @ > 0 THEN @ - 1 ELSE @]

\* CreateObject, QueryInterface, GetNamespace: what fails releases what was got
\* before it, but for the IUnknown, which nobody releases once it was asked.
CreateOutlook ==
    /\ mail.step = "create"
    /\ \/ conn' = {"unknown", "app", "ns"} /\ Go("dispatch") /\ UNCHANGED com
       \/ conn' \in {{}, {"unknown"}} /\ Go("failed") /\ Uninitialize
    /\ UNCHANGED <<box, attached, files>>

\* From CoInitialize to CoUninitialize.
InOutlook ==
    mail.backend = "outlook" /\ mail.step \notin {"idle", "connect", "completed", "failed"}

Disconnect(c) == c \ {"client", "app", "ns"}

\* The newest n of the mails M.
Newest(M, n) == {m \in M : Cardinality({k \in M : k > m}) < n}
Satisfying(M, parts) == {m \in M : mail.filter \cap parts \subseteq Sat[mail.backend][m]}
Limit == IF mail.op = "list" THEN mail.max ELSE 1

\* The server searches, and looks at no more of since and before than their days;
\* the newest are fetched, and only then the rest of the filter is applied.
ListIMAP ==
    /\ mail.step = "find"
    /\ mail.backend = "imap"
    /\ \/ mail' = [mail EXCEPT !.step = "read",
                    !.found = Satisfying(Newest(Satisfying(box, {"unread", "dates"}), Limit),
                                         {"words", "attachment"})]
       \/ Go("fail")
    /\ Alone

\* Mutant: has_attachment is left to Restrict.
OutlookUnfiltered(M) == {some \in SUBSET M : Cardinality(some) <= Limit}

\* The first that Restrict leaves, or of all: the newest, if the Sort whose error
\* nobody looks at has worked.  An item that cannot be had is passed over.
OutlookItems(M) ==
    {Satisfying(some, {"attachment"}) : some \in {F \in SUBSET M : Cardinality(F) <= Limit}}

\* since and before are cut to the minute, and meant in Outlook's own zone.
ListOutlook ==
    /\ mail.step = "find"
    /\ mail.backend = "outlook"
    /\ \/ \E some \in OutlookItems(Satisfying(box, {"unread", "dates", "words"})) :
            mail' = [mail EXCEPT !.step = "read", !.found = some]
       \/ \E some \in OutlookItems(box) :
            mail' = [mail EXCEPT !.step = "read", !.found = some, !.unrestricted = TRUE]
       \/ Go("fail")
    /\ Alone

\* ReadEmail: on IMAP the folder is only selected by a list, and a part that
\* cannot be read ends the listing of attachments.
Readable(m) == m \in box /\ (mail.backend = "imap" => ~mail.byId)
Listing(m) == IF mail.backend = "imap" THEN Prefixes(attached[m]) ELSE {attached[m]}

\* GetAttachment, by the index ReadEmail gave it: the name of what is there now.
Fetchable(m, i) == Readable(m) /\ i \in DOMAIN attached[m]

-----------------------------------------------------------------------------
(* Operations *)

\* handleExecute and handleExtract look at the configuration first, and both
\* read before they save.
Dispatch ==
    /\ mail.step = "dispatch"
    /\ Go(IF \/ mail.op = "unknown"
             \/ mail.op = "execute" /\ ~mail.runs
             \/ mail.op \in {"extract", "execute"} /\ ~mail.saves
          THEN "fail" ELSE IF mail.byId THEN "read" ELSE "find")
    /\ Alone

HandleList ==
    /\ mail.step = "read"
    /\ mail.op = "list"
    /\ Go("succeed")
    /\ Alone

\* The search is over: its filter and what it found are of no more use.
Searched == [mail EXCEPT !.filter = {}, !.found = {}, !.unrestricted = FALSE]

\* handleRead: the mail that is named, or the one that was found.
HandleRead ==
    /\ mail.step = "read"
    /\ mail.op # "list"
    /\ \/ \E m \in IF mail.byId THEN Mail ELSE mail.found :
            /\ Readable(m)
            /\ mail' = [Searched EXCEPT !.msg = m,
                                        !.step = IF mail.op = "read" THEN "succeed" ELSE "again"]
       \/ Go("fail")
    /\ Alone

\* handleExtract reads it once more, and creates the directory.
ReadAgain ==
    /\ mail.step = "again"
    /\ \/ /\ Readable(mail.msg)
          /\ \E l \in Listing(mail.msg) :
                mail' = [mail EXCEPT !.step = "save", !.infos = l, !.todo = DOMAIN l]
       \/ Go("fail")
    /\ Alone

\* isAllowedAttachment and isWithinSizeLimit; isAllowedExecutable.
IsAllowedAttachment(name) == name \in AllowedAttachment
IsAllowedExecutable(name) == name \in AllowedExecutable

\* What ReadEmail listed as attachment i may be saved.
Savable(i) == IsAllowedAttachment(mail.infos[i])

\* filepath.Join(save_directory, name)
PathOf(name) == [name |-> name, outside |-> name \in Climbing]

\* The next attachment is saved under the name it has now, or passed over.
SaveAttachment ==
    /\ mail.step = "save"
    /\ \E i \in mail.todo :
        /\ \A k \in mail.todo : i <= k
        /\ \/ /\ Savable(i)
              /\ Fetchable(mail.msg, i)
              /\ files' = files \cup {PathOf(attached[mail.msg][i])}
              /\ mail' = [mail EXCEPT !.todo = @ \ {i},
                                      !.saved = Append(@, attached[mail.msg][i])]
           \/ mail' = [mail EXCEPT !.todo = @ \ {i}] /\ UNCHANGED files
    /\ UNCHANGED <<box, attached, conn, com>>

EndExtract ==
    /\ mail.step = "save"
    /\ mail.todo = {}
    /\ mail' = [mail EXCEPT !.infos = <<>>,
                            !.step = IF mail.op = "execute" THEN "start" ELSE "succeed"]
    /\ Alone

\* executeFile, of the saved files that may be: some do not start.
ExecuteFiles ==
    /\ mail.step = "start"
    /\ \E some \in SUBSET {n \in ToSet(mail.saved) : IsAllowedExecutable(n)} :
        mail' = [mail EXCEPT !.step = "succeed", !.started = some]
    /\ Alone

\* The mails whose answers are being read from Outlook.
InHand ==
    CASE mail.step = "find" -> box
      [] mail.step = "read" /\ mail.op # "list" ->
            box \cap (IF mail.byId THEN Mail ELSE mail.found)
      [] mail.step = "again" \/ (mail.step = "save" /\ \E i \in mail.todo : Savable(i)) ->
            box \cap {mail.msg}
      [] OTHER -> {}

\* A property that could not be had is a nil VARIANT, and the time of a mail is
\* taken for a float64, which a VT_DATE need not be: either may panic.
OutlookPanics ==
    /\ mail.backend = "outlook"
    /\ InHand # {}
    /\ Go("panic")
    /\ Alone

\* Disconnect is deferred once Connect succeeded.
Finish ==
    /\ mail.step \in {"succeed", "fail"}
    /\ Go(IF mail.step = "succeed" THEN "completed" ELSE "failed")
    /\ conn' = Disconnect(conn)
    /\ IF mail.backend = "outlook" THEN Uninitialize ELSE UNCHANGED com
    /\ UNCHANGED <<box, attached, files>>

MailEnded == mail.step \in {"completed", "failed"}
EndMail ==
    /\ mail' = NoMail /\ box' = {} /\ attached' = Attached /\ conn' = {} /\ files' = {}
    /\ UNCHANGED com

\* With the process its apartments go.
ProcessDies == com' = NoApartment /\ UNCHANGED <<mail, box, attached, conn, files>>

MailStep ==
    \/ Arrive \/ Vanish \/ TakeOut
    \/ ConnectIMAP \/ InitializeCOM \/ CreateOutlook
    \/ Dispatch \/ ListIMAP \/ ListOutlook \/ HandleList
    \/ HandleRead \/ ReadAgain \/ SaveAttachment \/ EndExtract \/ ExecuteFiles
    \/ OutlookPanics \/ Finish

-----------------------------------------------------------------------------
(* Properties *)

\* What is found, to be listed or to be read without a message_id, satisfies the
\* filter that was built, read as the backend reads it, and of one that Outlook
\* refused to restrict to at least has_attachment; and it is no more than was asked
\* for.  Only attachments whose name and size were allowed are saved, unless somebody
\* took one out between the check and the fetch by index, and outside the directory
\* only under a name that leads out of it; and whatever was fetched, only files of
\* an allowed name are started.
MailIsAsAsked ==
    /\ \A m \in mail.found :
        mail.filter \cap (IF mail.unrestricted THEN {"attachment"} ELSE Part)
            \subseteq Sat[mail.backend][m]
    /\ Cardinality(mail.found) <= Limit
    /\ MailEnded =>
        /\ \A f \in files : f.name \in AllowedAttachment \/ mail.edited
        /\ \A f \in files : f.outside => f.name \in Climbing
        /\ files # {} => mail.saves
        /\ mail.started \subseteq AllowedExecutable
        /\ mail.started # {} => mail.runs

\* However the handler ended, it holds nothing of the server or of Outlook but
\* the IUnknown that Connect forgets.
MailHoldsNothing == MailEnded => conn \subseteq {"unknown"}
=============================================================================
