------------------------------- MODULE MCRunner -------------------------------
(* Instances of the in-process runner for TLC: the reading of a contract,   *)
(* one review through its passes, and one through failing table calls and   *)
(* the restarts of the process that runs it.  The three share no variable,  *)
(* and a behaviour moves one of them.                                       *)
EXTENDS ReviewPipeline, DtsReviewProps, MCReading, TLC

CONSTANTS r1, h1

\* Two places of one topic, a hard rejection if the playbook's Floor has it.
TwoSections == {Issue("liability", "s1"), Issue("liability", "s2")}

VARIABLE subject

runnerVars == <<subject, pipelineVars, readingVars, watched>>

\* The review is over.
PipelineIdle ==
  /\ basis = [floor |-> {}, ledger |-> {}, sided |-> FALSE]
  /\ stage = "done" /\ call = PassCall /\ billed = 0 /\ owed = 0
  /\ raised = <<>> /\ answer = NoAnswer
  /\ violated = {} /\ satisfied = {} /\ unjudged = {}
  /\ outcome = NoOutcome /\ result = NoResult
  /\ cancelled = FALSE /\ late = 0 /\ blind = 0

RunnerInit ==
  /\ subject \in {"reading", "passes", "process"}
  /\ WatchedInit /\ ReadingInit
  /\ IF subject = "passes" THEN PipelineInit ELSE PipelineIdle

RunnerNext ==
  /\ UNCHANGED subject
  /\ \/ subject = "reading" /\ ReadingNext /\ UNCHANGED <<pipelineVars, watched>>
     \/ subject = "passes" /\ PipelineNext /\ UNCHANGED <<readingVars, watched>>
     \/ subject = "process" /\ WatchedNext /\ UNCHANGED <<pipelineVars, readingVars>>

\* The fairness of PipelineSpec and of FairSpec, each for what moves.
RunnerSpec ==
  /\ RunnerInit /\ [][RunnerNext]_runnerVars
  /\ WF_pipelineVars(subject = "passes" /\ Step)
  /\ \A r \in Reviews :
       /\ WF_vars(subject = "process" /\ RunStep(r))
       /\ SF_vars(subject = "process" /\ Relabel(r))
  /\ WF_vars(subject = "process" /\ proc = "stopping" /\ Die)
  /\ WF_vars(subject = "process" /\ Boot)
  /\ SF_vars(subject = "process" /\ Recover)

=============================================================================
