----------------------------- MODULE PlannedRun -----------------------------
(***************************************************************************)
(* A scenario from its plan to an agent: the pipeline composed with the    *)
(* agent's executor and handlers.  A job an agent runs comes from a        *)
(* compiled scenario, or from a client that posted it, and then it may     *)
(* have any action and any parameters.  ExecuteAs with a user is called by *)
(* no code of this version; it is modelled for what it promises.           *)
(***************************************************************************)
EXTENDS AgentExecutor, Pipeline

runVars == <<agentVars, pipe>>

RunTypeOK == AgentTypeOK /\ PipeTypeOK

RunInit == AgentInit /\ PipeInit

\* A compiled job has reached its agent: executeJob hands its action and its
\* parameters to Execute, and not its run_as, which the compiler has dropped.
Deliver(j) ==
    LET s == pipe.steps[j.step]
    IN /\ pipe.step = "compiled"
       /\ pipe' = [NoPipe EXCEPT !.step = "running"]
       /\ IF s.action \in Registered
          THEN Execute(s.action) /\ act'.lo = OrSize(s.lo, 1)
                                 /\ act'.hi = OrSize(s.hi, DefaultSize)
          ELSE Refuse(s.action, "self")

RunNext ==
    \/ job.step = "idle" /\ PipeStep /\ UNCHANGED agentVars
    \/ \E j \in pipe.jobs : Deliver(j)
    \/ /\ pipe.step \in {"idle", "running"}
       /\ AgentNext
       /\ pipe' = IF job'.step = "idle" THEN NoPipe ELSE pipe

RunSpec == RunInit /\ [][RunNext]_runVars

-----------------------------------------------------------------------------
(* Properties *)

\* What the validator passes, the agents can run: every agent knows the action,
\* and the parameters do not end its process, but for the one thing the validator
\* does not compare, a file_size_kb_max below file_size_kb_min; and the compiler
\* asks of the agents what the steps say.
ScenarioIsCarriedOut ==
    /\ CompiledAsAsked
    /\ pipe.step = "running" => job.action \in Registered
    /\ pipe.step = "running" /\ job.step = "dead" => act.hi < act.lo
=============================================================================
