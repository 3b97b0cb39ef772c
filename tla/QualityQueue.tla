------------------------------ MODULE QualityQueue ------------------------------
(***************************************************************************)
(* The queue that puts a staged candidate's evaluation on the GPU once     *)
(* (queue_quality.py), with seal_baseline.py, around LayerEvaluation: wait *)
(* for the original control and seal its results, ask that the output is   *)
(* not there and the GPU free, run the container, wait, seal its results.  *)
(* Launches of the queue contend for its lock and may die anywhere, which  *)
(* a container survives.  An operator may evaluate by hand (README.md) at  *)
(* any time, between the checks of the queue and its run too; only two     *)
(* evaluations never overlap, as in LayerEvaluation: the run waits.        *)
(*                                                                         *)
(* Abstractions.  The stage receipt passed and the frozen files match.     *)
(* Other owners of the GPU only delay a launch; they are left out.         *)
(***************************************************************************)
EXTENDS LayerEvaluation

CONSTANTS
  Queues,  \* launches of the queue
  Pinned   \* the candidate it is for

Notices == {"WAITING_ORIGINAL_Q3_CONTROL", "SEALING_ORIGINAL_Q3_RESULTS", "WAITING_GPU_OWNER_CLEAR",
            "QUALITY_LAUNCHED", "CANDIDATE_QUALITY_COMPLETE_SEALED", "FAILED_PRESERVED_NO_RETRY"}
Told == Notices \cup {None}

ASSUME PinnedAssumption == Pinned \in Candidates
ASSUME ToldAssumption == None \notin Notices

VARIABLES
  queue,     \* queue[q]: where the launch is
  baseline,  \* the container of the original control: "running", "ok", "failed"
  original,  \* are the original results sealed?
  launched,  \* is there a quality-launch.json?
  seal,      \* candidate-results-seal.json
  told       \* the state in queue-status.json

files == <<original, launched, seal, told>>
vars == <<queue, baseline, files, evalVars>>

Labels == {"off", "guard", "baseline", "fresh", "gpu", "run", "receipt", "tell", "wait", "seal", "sealed", "failed"}

TypeOK ==
  /\ EvalTypeOK
  /\ queue \in [Queues -> Labels]
  /\ baseline \in {"running", "ok", "failed"}
  /\ original \in BOOLEAN /\ launched \in BOOLEAN
  /\ seal \in Reports \cup {None}
  /\ told \in Told

Init ==
  /\ EvalInit
  /\ queue = [q \in Queues |-> "off"]
  /\ baseline = "running"
  /\ original = FALSE /\ launched = FALSE
  /\ seal = None
  /\ told = None

------------------------------------------------------------------------------
Go(q, label) == queue' = [queue EXCEPT ![q] = label]

\* A step of the launch alone: at one label, to the next or to its failure.
Step(q, label, passes, next) ==
  /\ queue[q] = label
  /\ Go(q, IF passes THEN next ELSE "failed")
  /\ UNCHANGED <<baseline, evalVars>>

\* The lock is let go before the failure is told.
Holds(q) == queue[q] \notin {"off", "failed"}

Start(q) ==
  /\ Step(q, "off", \A o \in Queues : ~Holds(o), "guard")
  /\ UNCHANGED files

Guard(q) ==
  /\ Step(q, "guard", ~launched, "baseline")
  /\ UNCHANGED files

WaitBaseline(q) ==
  /\ queue[q] = "baseline" /\ baseline = "running"
  /\ told' = "WAITING_ORIGINAL_Q3_CONTROL"
  /\ UNCHANGED <<queue, baseline, original, launched, seal, evalVars>>

\* seal_baseline.py on the results of a control that exited with 0.
SealBaseline(q) ==
  /\ baseline # "running"
  /\ Step(q, "baseline", baseline = "ok", "fresh")
  /\ told' = IF baseline = "ok" THEN "SEALING_ORIGINAL_Q3_RESULTS" ELSE told
  /\ original' = (original \/ baseline = "ok")
  /\ UNCHANGED <<launched, seal>>

Fresh(q) ==
  /\ Step(q, "fresh", output = "none", "gpu")
  /\ UNCHANGED files

WaitOwner(q) ==
  /\ queue[q] = "gpu" /\ ev.pc # "off"
  /\ told' = "WAITING_GPU_OWNER_CLEAR"
  /\ UNCHANGED <<queue, baseline, original, launched, seal, evalVars>>

OwnerClear(q) ==
  /\ ev.pc = "off"
  /\ Step(q, "gpu", TRUE, "run")
  /\ UNCHANGED files

\* Mutant: the container has no name that docker would refuse.
RunUnnamed(q) ==
  /\ queue[q] = "run"
  /\ container' = "running"
  /\ Begin("queue", Pinned, "all")
  /\ Go(q, "receipt")
  /\ UNCHANGED <<baseline, files>>

\* docker run refuses the name of a container that was created before.
Run(q) ==
  /\ queue[q] = "run"
  /\ \/ /\ container = None
        /\ container' = "running"
        /\ Begin("queue", Pinned, "all")
        /\ Go(q, "receipt")
     \/ container # None /\ Go(q, "failed") /\ UNCHANGED evalVars
  /\ UNCHANGED <<baseline, files>>

Receipt(q) ==
  /\ Step(q, "receipt", TRUE, "tell")
  /\ launched' = TRUE
  /\ UNCHANGED <<original, seal, told>>

Tell(q) ==
  /\ Step(q, "tell", TRUE, "wait")
  /\ told' = "QUALITY_LAUNCHED"
  /\ UNCHANGED <<original, launched, seal>>

Wait(q) ==
  /\ container # "running"
  /\ Step(q, "wait", container = "ok", "seal")
  /\ UNCHANGED files

\* seal_baseline.py candidate: the report, its manifest and the rows are of each other.
Sealable == report # None /\ report.cand = Pinned /\ report.bound /\ normalized = norm

SealCandidate(q) ==
  /\ Step(q, "seal", Sealable, "sealed")
  /\ seal' = IF Sealable THEN report ELSE seal
  /\ UNCHANGED <<original, launched, told>>

TellSealed(q) ==
  /\ Step(q, "sealed", TRUE, "off")
  /\ told' = "CANDIDATE_QUALITY_COMPLETE_SEALED"
  /\ UNCHANGED <<original, launched, seal>>

TellFailed(q) ==
  /\ Step(q, "failed", TRUE, "off")
  /\ told' = "FAILED_PRESERVED_NO_RETRY"
  /\ UNCHANGED <<original, launched, seal>>

Die(q) ==
  /\ queue[q] # "off"
  /\ Go(q, "off")
  /\ UNCHANGED <<baseline, files, evalVars>>

------------------------------------------------------------------------------
(* What the queue does not do: the control, and the operator. *)

BaselineExit(code) ==
  /\ baseline = "running"
  /\ baseline' = code
  /\ UNCHANGED <<queue, files, evalVars>>

ByHand(c, phase) ==
  /\ Begin("hand", c, phase)
  /\ UNCHANGED <<container, queue, baseline, files>>

Evaluate == EvalNext /\ UNCHANGED <<queue, baseline, files>>

Next ==
  \/ Evaluate
  \/ \E q \in Queues :
       \/ Start(q) \/ Guard(q) \/ WaitBaseline(q) \/ SealBaseline(q) \/ Fresh(q) \/ WaitOwner(q) \/ OwnerClear(q)
       \/ Run(q) \/ Receipt(q) \/ Tell(q) \/ Wait(q) \/ SealCandidate(q)
       \/ TellSealed(q) \/ TellFailed(q) \/ Die(q)
  \/ \E code \in {"ok", "failed"} : BaselineExit(code)
  \/ \E c \in Candidates, phase \in Phases : ByHand(c, phase)

Spec == Init /\ [][Next]_vars

------------------------------------------------------------------------------
\* A report, and what the queue seals of it, scores every row after every layer of the candidate
\* the output is bound to, however often the evaluation died and was resumed by hand; a sealed
\* candidate is the pinned one, beside the sealed original (run_layers, seal_baseline.py).
ScoresExact ==
  /\ report # None => report.cand = output /\ Exact(output, report.rows)
  /\ seal # None => original /\ seal.cand = Pinned /\ Exact(Pinned, seal.rows)
  /\ told = "CANDIDATE_QUALITY_COMPLETE_SEALED" => seal # None

\* The queue evaluates its candidate once, ever.  What its container came to is final: no later
\* launch runs it again, not after one that died between docker run and the launch receipt while
\* the container worked or left half an evaluation.  What is sealed is of the launch a receipt is
\* there for, whose container exited with 0: not of a failed one that was finished by hand.
OneEvaluation ==
  /\ [][container' # container => container \in {None, "running"}]_vars
  /\ [](seal # None => launched /\ container = "ok")
==============================================================================
