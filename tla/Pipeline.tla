------------------------------ MODULE Pipeline ------------------------------
(***************************************************************************)
(* From an intent to jobs: the planner (orchestrator/planner), the         *)
(* validator (orchestrator/validator) of the scenario language (pkg/dsl),  *)
(* and the compiler (orchestrator/compiler).  The agents that are online   *)
(* change between the plan and its compilation.                            *)
(***************************************************************************)
EXTENDS Integers, Sequences, FiniteSets, FiniteSetsExt, SequencesExt

CONSTANTS Agent,     \* the agents of the lab
          LabelsOf,  \* LabelsOf[a][k]: the value of label k of agent a, "" without one
          Drafts,    \* the steps a scenario may be written with
          MaxSteps,  \* bound on the steps of a scenario
          MaxSize,   \* the greatest file_size_kb_max
          Answers    \* Generate answers; the client of this version never does

ASSUME PipelineAssumption ==
    /\ IsFiniteSet(Agent)
    /\ MaxSteps \in Nat \ {0}
    /\ MaxSize \in Nat
    /\ \A s \in Drafts : s.lo \in Int /\ s.hi \in Int /\ s.count.n \in Int
    /\ Answers \in BOOLEAN

VARIABLE pipe  \* the scenario on its way

\* The schema and the id of a scenario, and its other fields.
Heads == [schema : {"right", "wrong", "missing"}, id : {"uuid", "other", "missing"},
          fields : BOOLEAN]

\* steps, jobs, errors: the result of Compile.  online: the agents it saw (history).
NoPipe == [step |-> "idle", steps |-> <<>>, jobs |-> {}, errors |-> {}, online |-> {}]

PipeTypeOK ==
    /\ DOMAIN pipe = DOMAIN NoPipe
    /\ pipe.step \in {"idle", "refused", "valid", "failed", "compiled", "running"}
    /\ pipe.steps \in BoundedSeq(Drafts, MaxSteps)
    /\ pipe.jobs \subseteq [step : DOMAIN pipe.steps, agent : Agent]
    /\ pipe.errors \subseteq DOMAIN pipe.steps
    /\ pipe.online \subseteq Agent

PipeInit == pipe = NoPipe

-----------------------------------------------------------------------------
(* Validator *)

AllowedActions == {"simulate_browsing", "simulate_file_activity",
                   "simulate_email_traffic", "simulate_process_activity"}
IsValidAction(a) == a \in AllowedActions

\* Sscanf reads the number at the start of the string, and leaves the rest.
CountIsValid(c) == c.kind \in {"all", "any"} \/ (c.kind \in {"number", "prefix"} /\ c.n >= 1)

\* Mutant: min=1 is left off the minimum.
SizesBelowMax(s) == s.hi <= MaxSize

\* omitempty: 0 passes.
SizesAreValid(s) == (s.lo = 0 \/ s.lo >= 1) /\ s.hi <= MaxSize

\* Parameters that cannot be parsed, those that fail a tag, and those that
\* validateSecurityConstraints rejects.
ValidateParameters(s) == s.params = "good" /\ SizesAreValid(s)

\* validateStep
ValidateStep(s) ==
    /\ IsValidAction(s.action)
    /\ s.labels # {}
    /\ CountIsValid(s.count)
    /\ ValidateParameters(s)

ValidateStepOrder(steps) == \A i \in DOMAIN steps : steps[i].order = i
ValidateUniqueStepIDs(steps) == IsInjective([i \in DOMAIN steps |-> steps[i].id])

ValidateScenario(head, steps) ==
    /\ head.schema = "right" /\ head.id = "uuid" /\ head.fields
    /\ steps # <<>>
    /\ ValidateStepOrder(steps)
    /\ \A i \in DOMAIN steps : ValidateStep(steps[i])
    /\ ValidateUniqueStepIDs(steps)

-----------------------------------------------------------------------------
(* Planner *)

\* parseAIResponse gives a scenario an id and a schema when it has none.
Completed(head) == [head EXCEPT !.id = IF @ = "missing" THEN "uuid" ELSE @,
                                !.schema = IF @ = "missing" THEN "right" ELSE @]

Accept(head, steps) ==
    pipe' = IF ValidateScenario(head, steps)
            THEN [NoPipe EXCEPT !.step = "valid", !.steps = steps]
            ELSE [NoPipe EXCEPT !.step = "refused"]

\* An inventory that cannot be read is an error; no answer, one without a
\* balanced pair of braces and one that is no scenario are a refusal.
Plan ==
    /\ pipe.step = "idle"
    /\ \/ pipe' = [NoPipe EXCEPT !.step = "failed"]
       \/ pipe' = [NoPipe EXCEPT !.step = "refused"]
       \/ /\ Answers
          /\ \E head \in Heads, steps \in BoundedSeq(Drafts, MaxSteps) :
                Accept(Completed(head), steps)

\* ValidateScenarioJSON
Submit ==
    /\ pipe.step = "idle"
    /\ \/ pipe' = [NoPipe EXCEPT !.step = "refused"]
       \/ \E head \in Heads, steps \in BoundedSeq(Drafts, MaxSteps) : Accept(head, steps)

-----------------------------------------------------------------------------
(* Compiler *)

\* A selector is pairs of a key and a value; a key the agent lacks has the value "".
MatchesLabels(a, selector) == \A l \in selector : LabelsOf[a][l[1]] = l[2]
FindMatchingAgents(online, selector) == {a \in online : MatchesLabels(a, selector)}

\* selectTargetAgents: the choices it has; no choice is an error.  Atoi, unlike
\* the validator, wants a number and nothing else.
SelectTargetAgents(M, c) ==
    CASE c.kind = "all" -> {M}
      [] c.kind = "any" -> kSubset(1, M)
      [] c.kind = "number" /\ c.n >= 1 -> kSubset(Min({c.n, Cardinality(M)}), M)
      [] OTHER -> {}

\* What a step may be turned into: no agent at all is an entry of Errors.
Targets(s, online) ==
    LET M == FindMatchingAgents(online, s.labels)
    IN IF M = {} \/ SelectTargetAgents(M, s.count) = {} THEN {{}}
       ELSE SelectTargetAgents(M, s.count)

\* Every step is kept; each agent it is for gets a job with its action and
\* parameters.
Compile ==
    /\ pipe.step = "valid"
    /\ \E online \in SUBSET Agent :
        \/ pipe' = [NoPipe EXCEPT !.step = "failed"]
        \/ /\ online # {}
           /\ \E target \in [DOMAIN pipe.steps -> SUBSET online] :
                /\ \A i \in DOMAIN target : target[i] \in Targets(pipe.steps[i], online)
                /\ pipe' = [pipe EXCEPT !.step = "compiled", !.online = online,
                      !.jobs = {j \in [step : DOMAIN target, agent : online] :
                                  j.agent \in target[j.step]},
                      !.errors = {i \in DOMAIN target : target[i] = {}}]

\* A scenario that was refused, or that is of no more use.
Discard == pipe.step \in {"refused", "failed", "compiled"} /\ pipe' = NoPipe

PipeStep == Plan \/ Submit \/ Compile \/ Discard

-----------------------------------------------------------------------------
(* Properties *)

\* The agents a step is for: those with its labels, and, where it wants a label to
\* be empty, those without the label.
Wanted(s, online) == {a \in online : \A l \in s.labels : LabelsOf[a][l[1]] = l[2]}

\* The number of agents a step asks for, in words: all of them, one, or as many as
\* there are up to n.  A count like "2abc", which the validator passes and the
\* compiler does not read, asks for none.
Asked(s, online) ==
    LET n == Cardinality(Wanted(s, online))
    IN CASE s.count.kind = "all" -> n
         [] s.count.kind = "any" -> Min({1, n})
         [] s.count.kind = "number" -> Min({s.count.n, n})
         [] OTHER -> 0

\* Compile is told only valid scenarios, and each step of one has as many jobs as
\* it asks for, each on another agent that was online and carries its labels; one
\* without a job is in Errors, and only it.
CompiledAsAsked ==
    pipe.step = "compiled" =>
        \A i \in DOMAIN pipe.steps :
            LET s == pipe.steps[i]
                chosen == {j \in pipe.jobs : j.step = i}
            IN /\ i \in pipe.errors <=> chosen = {}
               /\ \A j \in chosen : j.agent \in Wanted(s, pipe.online)
               /\ Cardinality(chosen) = Asked(s, pipe.online)
=============================================================================
