---------------------------- MODULE JobLifecycle ----------------------------
(***************************************************************************)
(* What the orchestrator promises about one job, whoever asks, reports,    *)
(* fails or crashes: it waits, it is out with one agent, and from there it *)
(* comes back for a counted retry, is settled for good, or is lost.  A     *)
(* DELETE may cancel it: for good, if nobody had it; otherwise the poll    *)
(* that picked it still hands it out, and the agent that has it still      *)
(* settles it or puts it back.  Nothing else happens to it.  Several jobs  *)
(* may move in one step (a batch is handed out, an agent dies with the     *)
(* batch it holds, a DELETE cancels a scenario).                           *)
(***************************************************************************)
EXTENDS Naturals

CONSTANTS Job, MaxRetries,
          Cancellable  \* the jobs of scenarios that may be deleted

VARIABLES phase,  \* phase[j]: where job j is
          tries   \* tries[j]: how often j has been put back

\* A cancelled job is "picked" when a poll had selected it before, "recalled"
\* when an agent has it, and "cancelled" when nobody can bring it back.
Phases == {"none", "waiting", "out", "completed", "failed", "lost",
           "cancelled", "picked", "recalled"}

Init ==
    /\ phase = [j \in Job |-> "none"]
    /\ tries = [j \in Job |-> 0]

\* The moves that leave the number of retries alone.
Moves == {<<"none", "waiting">>, <<"waiting", "out">>,
          <<"out", "completed">>, <<"out", "failed">>, <<"out", "lost">>,
          <<"picked", "out">>, <<"picked", "cancelled">>,
          <<"recalled", "completed">>, <<"recalled", "failed">>, <<"recalled", "cancelled">>}

Cancellations == {<<"waiting", "cancelled">>, <<"waiting", "picked">>,
                  <<"out", "recalled">>, <<"lost", "cancelled">>}

Move(j) == <<phase[j], phase'[j]>> \in Moves /\ tries'[j] = tries[j]

Cancel(j) ==
    /\ j \in Cancellable
    /\ <<phase[j], phase'[j]>> \in Cancellations
    /\ tries'[j] = tries[j]

Requeue(j) ==
    /\ phase[j] \in {"out", "recalled"}
    /\ phase'[j] = "waiting"
    /\ tries[j] < MaxRetries
    /\ tries'[j] = tries[j] + 1

Rest(j) == phase'[j] = phase[j] /\ tries'[j] = tries[j]

Next ==
    /\ phase' \in [Job -> Phases]
    /\ tries' \in [Job -> Nat]
    /\ \A j \in Job : Move(j) \/ Cancel(j) \/ Requeue(j) \/ Rest(j)

Spec == Init /\ [][Next]_<<phase, tries>>
=============================================================================
