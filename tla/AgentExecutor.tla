--------------------------- MODULE AgentExecutor ---------------------------
(***************************************************************************)
(* The agent's executor (agent/executor/executor.go) with its registry of  *)
(* handlers (agent/actions/registry.go) and its impersonation manager      *)
(* (agent/impersonation): one action at a time, run as the service account *)
(* or, on Windows, as another user.                                        *)
(*                                                                         *)
(* Windows impersonates, and initialises COM, per thread, and the Go       *)
(* runtime may go on with a goroutine on another thread whenever it        *)
(* blocks.                                                                 *)
(***************************************************************************)
EXTENDS Observation, Activity, MailReceive

CONSTANTS User,           \* who runAs may name
          domainOf,       \* domainOf[u]: what is before the backslash, or "none"
          AllowedUsers,   \* allowed_users, whatever their case
          AllowedDomain,  \* the X of allowed_user_pattern = X\*, or "no pattern"
          Enabled         \* impersonation.enabled

ASSUME ExecutorAssumption ==
    /\ AllowedUsers \subseteq User
    /\ "self" \notin User
    /\ Enabled \in BOOLEAN

VARIABLES job,     \* the ExecuteAs that runs
          as,      \* the threads that impersonate somebody
          tokens   \* the logon tokens that are open

execVars == <<job, on, as, tokens>>
agentVars == <<execVars, probeVars, actVars, mailVars>>

\* The handlers NewRegistry registers.
Registered == ObservationActions \cup SimulationActions \cup {"email_receive"}

\* strayed: since the agent started, a goroutine changed its thread while it
\* impersonated, or RevertToSelf failed ("as"); or it changed its thread between
\* CoInitialize and CoUninitialize ("com"): history.
NoJob == [action |-> "none", runAs |-> "self", step |-> "idle", strayed |-> {}]
NewJob(a, u, s) == [job EXCEPT !.action = a, !.runAs = u, !.step = s]

ExecTypeOK ==
    /\ job.action \in Registered \cup {"none", "unknown"}
    /\ job.runAs \in User \cup {"self"}
    /\ job.step \in {"idle", "handler", "completed", "failed", "dead"}
    /\ job.strayed \subseteq {"as", "com"}
    /\ as \in SUBSET Thread
    /\ tokens \in SUBSET User

AgentTypeOK == ExecTypeOK /\ ProbeTypeOK /\ ActTypeOK /\ MailTypeOK

ExecInit ==
    /\ job = NoJob
    /\ on \in Thread
    /\ as = {}
    /\ tokens = {}

AgentInit == ExecInit /\ ProbeInit /\ ActInit /\ MailInit

-----------------------------------------------------------------------------
(* Impersonation *)

IsUserAllowed(u) == Enabled /\ (u \in AllowedUsers \/ domainOf[u] = AllowedDomain)

\* LogonUser and ImpersonateLoggedOnUser; a token that is of no use is closed.
Impersonate(u) ==
    /\ tokens' = tokens \cup {u}
    /\ as' = as \cup {on}

\* Mutant: only RevertToSelf.
RevertOnly ==
    /\ as' = as \ {on}
    /\ UNCHANGED tokens

\* RevertToSelf, for the thread the goroutine is on by now, and token.Close.
Revert ==
    /\ as' = as \ {on}
    /\ tokens' = tokens \ {job.runAs}

-----------------------------------------------------------------------------
(* ExecuteAs *)

Handlers == <<probeVars, actVars, mailVars>>

Begin(a) ==
    \/ a \in ObservationActions /\ BeginProbe(a) /\ UNCHANGED <<actVars, mailVars>>
    \/ a \in SimulationActions /\ BeginAct(a) /\ UNCHANGED <<probeVars, mailVars>>
    \/ a = "email_receive" /\ BeginMail /\ UNCHANGED <<probeVars, actVars>>

\* An unknown action, a user who is not allowed and a failing logon end the job
\* before its handler.
Refuse(a, u) ==
    /\ job.step = "idle"
    /\ a \notin Registered \/ u # "self"
    /\ job' = NewJob(a, u, "failed")
    /\ UNCHANGED <<on, as, tokens, Handlers>>

Execute(a) ==
    /\ job.step = "idle"
    /\ job' = NewJob(a, "self", "handler")
    /\ Begin(a)
    /\ UNCHANGED <<on, as, tokens>>

ExecuteWithImpersonation(a, u) ==
    /\ job.step = "idle"
    /\ IsUserAllowed(u)
    /\ Impersonate(u)
    /\ job' = NewJob(a, u, "handler")
    /\ Begin(a)
    /\ UNCHANGED on

HandlerStep ==
    /\ job.step = "handler"
    /\ \/ ProbeStep /\ UNCHANGED <<actVars, mailVars>>
       \/ ActStep /\ UNCHANGED <<probeVars, mailVars>>
       \/ MailStep /\ UNCHANGED <<probeVars, actVars>>
    /\ UNCHANGED execVars

\* Nothing locks the goroutine to its thread.
Move(t) ==
    /\ job.step = "handler"
    /\ t # on
    /\ on' = t
    /\ job' = [job EXCEPT !.strayed = @ \cup {x \in {"as", "com"} :
                    IF x = "as" THEN job.runAs # "self" ELSE InOutlook}]
    /\ UNCHANGED <<as, tokens, Handlers>>

Answer == IF "completed" \in {probe.step, act.step, mail.step} THEN "completed" ELSE "failed"

\* The deferred revert runs whether the handler failed or not.
Return ==
    /\ job.step = "handler"
    /\ ProbeEnded \/ ActEnded \/ MailEnded
    /\ job' = [job EXCEPT !.step = Answer]
    /\ IF job.runAs = "self" THEN UNCHANGED <<as, tokens>> ELSE Revert
    /\ UNCHANGED <<on, Handlers>>

\* RevertToSelf fails, which is logged.
RevertFails ==
    /\ job.step = "handler"
    /\ ProbeEnded \/ ActEnded \/ MailEnded
    /\ job.runAs # "self"
    /\ job' = [job EXCEPT !.step = Answer, !.strayed = @ \cup {"as"}]
    /\ tokens' = tokens \ {job.runAs}
    /\ UNCHANGED <<as, on, Handlers>>

\* A panic in a handler ends the agent.
Panic ==
    /\ job.step = "handler"
    /\ "panic" \in {act.step, mail.step}
    /\ job' = [job EXCEPT !.step = "dead"]
    /\ as' = {} /\ tokens' = {}
    /\ ProcessDies
    /\ UNCHANGED <<on, probeVars, actVars>>

\* executeJob reports the result, or the error as retryable.
Report ==
    /\ job.step \in {"completed", "failed"}
    /\ job' = [NoJob EXCEPT !.strayed = job.strayed]
    /\ EndProbe /\ EndAct /\ EndMail
    /\ UNCHANGED <<on, as, tokens>>

\* The service manager starts the agent again.
Restart ==
    /\ job.step = "dead"
    /\ job' = NoJob
    /\ EndProbe /\ EndAct /\ EndMail
    /\ UNCHANGED <<on, as, tokens>>

AgentNext ==
    \/ \E a \in Registered \cup {"unknown"}, u \in User \cup {"self"} : Refuse(a, u)
    \/ \E a \in Registered : Execute(a) \/ \E u \in User : ExecuteWithImpersonation(a, u)
    \/ HandlerStep
    \/ \E t \in Thread : Move(t)
    \/ Return \/ RevertFails \/ Panic \/ Report \/ Restart

AgentSpec == AgentInit /\ [][AgentNext]_agentVars

-----------------------------------------------------------------------------
(* Properties *)

\* Nothing is left of a job: no logon token, no thread that impersonates unless
\* a goroutine changed its thread or RevertToSelf failed, no thread with COM
\* initialised unless a goroutine changed its thread in between, and nothing of its
\* handler.
NothingIsLeft ==
    job.step \in {"completed", "failed"} =>
        /\ tokens = {}
        /\ as = {} \/ "as" \in job.strayed
        /\ com = NoApartment \/ "com" \in job.strayed
        /\ ActLeavesNothing
        /\ MailHoldsNothing
=============================================================================
