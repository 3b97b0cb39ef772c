----------------------------- MODULE LayerEvaluation -----------------------------
(***************************************************************************)
(* The quality evaluation of a candidate (evaluate_pruned_quality.py, on   *)
(* the rows and slots of evaluate_low_bpw_quality.py): bind the output to  *)
(* the candidate, advance every row through the layers between two slots   *)
(* of state files, normalize the last rows, compare and report.  A run may *)
(* die between any two writes; the next run resumes from what it finds.    *)
(*                                                                         *)
(* Abstractions.  A hidden state is the candidate it was computed with and *)
(* the number of layers applied to it, in order; any other is Wrong.  A    *)
(* digest is what it digests.  One process of one GPU does the rows in     *)
(* order, and one evaluation of an output runs at a time: the output has   *)
(* no lock, and who runs it is in QualityQueue.  A row that fails (memory, *)
(* non-finite output) ends the run as a crash there does.                  *)
(***************************************************************************)
EXTENDS Integers

CONSTANTS
  Candidates,
  NumRows,
  NumLayers,
  None

ASSUME SizesAssumption == NumRows \in Nat \ {0} /\ NumLayers \in Nat \ {0}

Rows == 0 .. NumRows - 1
Layers == 0 .. NumLayers - 1
Slots == {"slot-a", "slot-b"}
Phases == {"preflight", "capture", "compare", "all"}

Wrong == [cand |-> None, depth |-> 0]
Values == [cand : Candidates, depth : 0 .. NumLayers] \cup {Wrong}
Reports == [cand : Candidates, rows : [Rows -> Values], bound : BOOLEAN]
Sidecars == [layer : -1 .. NumLayers - 1, of : Values]
Progresses == [layer : -1 .. NumLayers - 1, slot : Slots]

ASSUME CandidatesAssumption == Candidates \cap {"none", "empty", "littered"} = {}
ASSUME NoneAssumption ==
  /\ None \notin Values \cup Reports \cup Sidecars \cup Progresses \cup {"running", "ok", "failed"}
  /\ None \notin [Rows -> Values \cup {None}]

VARIABLES
  ev,          \* the evaluator: where it is, for whom, at which layer and row
  container,   \* what the queue's container came to: None, "running", "ok", "failed"
  output,      \* the output directory: "none", "empty", "littered" or the candidate it is bound to
  data,        \* data[slot][row]: the state file
  side,        \* side[slot][row]: its sidecar
  made,        \* made[slot]: the layer in the manifest of the slot
  progress,    \* progress.json
  norm,        \* norm[row]: the normalized row
  normalized,  \* the manifest of the normalized rows
  report       \* quality-report.json; bound: to the manifest that is there

slots == <<data, side, made>>
stream == <<slots, progress>>
results == <<norm, normalized, report>>
evalVars == <<ev, container, output, stream, results>>

EvLabels == {"off", "bind", "bound", "initialize", "clearA", "embed", "embedSide", "layer", "clearOut",
             "row", "rowSide", "clearIn", "progress", "normalize", "manifest", "report"}

Evaluators == [pc : EvLabels, by : {"queue", "hand"}, cand : Candidates, phase : Phases, layer : -1 .. NumLayers,
               row : 0 .. NumRows, input : Slots]

EvalTypeOK ==
  /\ ev \in Evaluators
  /\ container \in {None, "running", "ok", "failed"}
  /\ output \in {"none", "empty", "littered"} \cup Candidates
  /\ data \in [Slots -> [Rows -> Values \cup {None}]]
  /\ side \in [Slots -> [Rows -> Sidecars \cup {None}]]
  /\ made \in [Slots -> Layers \cup {None}]
  /\ progress \in Progresses \cup {None}
  /\ norm \in [Rows -> Values \cup {None}]
  /\ normalized \in [Rows -> Values] \cup {None}
  /\ report \in Reports \cup {None}

Idle == [pc |-> "off", by |-> "hand", cand |-> CHOOSE c \in Candidates : TRUE, phase |-> "all",
         layer |-> -1, row |-> 0, input |-> "slot-a"]

EvalInit ==
  /\ ev = Idle
  /\ container = None
  /\ output = "none"
  /\ data = [s \in Slots |-> [r \in Rows |-> None]]
  /\ side = [s \in Slots |-> [r \in Rows |-> None]]
  /\ made = [s \in Slots |-> None]
  /\ progress = None
  /\ norm = [r \in Rows |-> None]
  /\ normalized = None
  /\ report = None

------------------------------------------------------------------------------
Goto(label) == ev' = [ev EXCEPT !.pc = label]
GotoRow(label, r) == ev' = [ev EXCEPT !.pc = label, !.row = r]

\* The evaluator ends; the queue sees its exit code if it ran in the queue's container.
Exit(code) ==
  /\ ev' = Idle
  /\ container' = IF ev.by = "queue" THEN code ELSE container

Begin(by, c, phase) ==
  /\ ev.pc = "off"
  /\ ev' = [Idle EXCEPT !.pc = "bind", !.by = by, !.cand = c, !.phase = phase]
  /\ UNCHANGED <<output, stream, results>>

Crash ==
  /\ ev.pc # "off"
  /\ Exit("failed")
  /\ UNCHANGED <<output, stream, results>>

------------------------------------------------------------------------------
(* The identity of the output. *)

AfterBinding ==
  CASE ev.phase = "preflight" -> Exit("ok")
    [] ev.phase = "compare" -> Goto("report") /\ UNCHANGED container
    [] ev.phase \in {"capture", "all"} -> Goto("initialize") /\ UNCHANGED container

\* The directory is made; atomic_json opens its temporary file in it.
Bind ==
  /\ ev.pc = "bind"
  /\ \/ /\ output = "none"
        /\ output' = "empty"
        /\ UNCHANGED <<ev, container>>
     \/ /\ output = "empty"
        /\ output' = "littered"
        /\ Goto("bound")
        /\ UNCHANGED container
     \/ /\ output = "littered" \/ output \in Candidates \ {ev.cand}
        /\ Exit("failed")
        /\ UNCHANGED output
     \/ /\ output = ev.cand
        /\ AfterBinding
        /\ UNCHANGED output
  /\ UNCHANGED <<stream, results>>

Bound ==
  /\ ev.pc = "bound"
  /\ output' = ev.cand
  /\ AfterBinding
  /\ UNCHANGED <<stream, results>>

------------------------------------------------------------------------------
(* The slots. *)

Other(s) == IF s = "slot-a" THEN "slot-b" ELSE "slot-a"
Output == Other(ev.input)

\* Mutant: the layer of the sidecar is not compared.
VerifiedAnyLayer(s, r, l) ==
  /\ data[s][r] # None
  /\ side[s][r] # None
  /\ side[s][r].of = data[s][r]

\* verified_state
Verified(s, r, l) == data[s][r] # None /\ side[s][r] = [layer |-> l, of |-> data[s][r]]
AllVerified(s, l) == \A r \in Rows : Verified(s, r, l)

\* write_state replaces the data first, then the sidecar.
WriteData(s, r, v) == data' = [data EXCEPT ![s][r] = v] /\ UNCHANGED <<side, made>>
WriteSide(s, r, l) ==
  /\ side' = [side EXCEPT ![s][r] = [layer |-> l, of |-> data[s][r]]]
  /\ UNCHANGED <<data, made>>

\* rmtree: one file after the other, in any order.
Cleared(s) == made[s] = None /\ \A r \in Rows : data[s][r] = None /\ side[s][r] = None
RemoveOne(s) ==
  \/ made[s] # None /\ made' = [made EXCEPT ![s] = None] /\ UNCHANGED <<data, side>>
  \/ \E r \in Rows :
       \/ data[s][r] # None /\ data' = [data EXCEPT ![s][r] = None] /\ UNCHANGED <<side, made>>
       \/ side[s][r] # None /\ side' = [side EXCEPT ![s][r] = None] /\ UNCHANGED <<data, made>>

Clear(label, s, next) ==
  /\ ev.pc = label
  /\ \/ RemoveOne(s) /\ UNCHANGED ev
     \/ Cleared(s) /\ ev' = next /\ UNCHANGED slots
  /\ UNCHANGED <<container, output, progress, results>>

\* Where a run starts from: the slot of progress.json, which must be whole, or the embeddings.
Initialize ==
  /\ ev.pc = "initialize"
  /\ IF progress = None THEN Goto("clearA") /\ UNCHANGED container
     ELSE IF AllVerified(progress.slot, progress.layer)
     THEN /\ ev' = [ev EXCEPT !.pc = "layer", !.layer = progress.layer + 1, !.input = progress.slot]
          /\ UNCHANGED container
     ELSE Exit("failed")
  /\ UNCHANGED <<output, stream, results>>

ClearA == Clear("clearA", "slot-a", [ev EXCEPT !.pc = "embed"])

Embed ==
  /\ ev.pc = "embed"
  /\ WriteData("slot-a", ev.row, [cand |-> ev.cand, depth |-> 0])
  /\ Goto("embedSide")
  /\ UNCHANGED <<container, output, progress, results>>

EmbedSide ==
  /\ ev.pc = "embedSide"
  /\ WriteSide("slot-a", ev.row, -1)
  /\ IF ev.row + 1 \in Rows THEN GotoRow("embed", ev.row + 1)
     ELSE ev' = [ev EXCEPT !.pc = "progress", !.row = 0, !.input = "slot-b"]
  /\ UNCHANGED <<container, output, progress, results>>

------------------------------------------------------------------------------
(* run_layers, layer_worker *)

\* Mutant: one layer too many.
LayerPastLast ==
  /\ ev.pc = "layer"
  /\ IF ev.layer > NumLayers THEN GotoRow("normalize", 0)
     ELSE GotoRow(IF made[Output] \notin {None, ev.layer} THEN "clearOut" ELSE "row", 0)
  /\ UNCHANGED <<container, output, stream, results>>

\* An output slot whose manifest is of another layer is removed.
Layer ==
  /\ ev.pc = "layer"
  /\ GotoRow(IF ev.layer = NumLayers THEN "normalize"
             ELSE IF made[Output] \notin {None, ev.layer} THEN "clearOut" ELSE "row", 0)
  /\ UNCHANGED <<container, output, stream, results>>

ClearOut == Clear("clearOut", Output, [ev EXCEPT !.pc = "row"])

Applied(l, v) ==
  IF v = [cand |-> ev.cand, depth |-> l] THEN [cand |-> ev.cand, depth |-> l + 1] ELSE Wrong

\* A verified row is skipped.  The input row is not verified again.
Row ==
  /\ ev.pc = "row" /\ ev.row \in Rows
  /\ \/ Verified(Output, ev.row, ev.layer) /\ GotoRow("row", ev.row + 1) /\ UNCHANGED <<container, slots>>
     \/ /\ ~Verified(Output, ev.row, ev.layer)
        /\ IF data[ev.input][ev.row] = None THEN Exit("failed") /\ UNCHANGED slots
           ELSE /\ WriteData(Output, ev.row, Applied(ev.layer, data[ev.input][ev.row]))
                /\ Goto("rowSide")
                /\ UNCHANGED container
  /\ UNCHANGED <<output, progress, results>>

RowSide ==
  /\ ev.pc = "rowSide"
  /\ WriteSide(Output, ev.row, ev.layer)
  /\ GotoRow("row", ev.row + 1)
  /\ UNCHANGED <<container, output, progress, results>>

\* Mutant: the input slot is removed before progress.json points past it.
CompleteThenClear ==
  /\ ev.pc = "row" /\ ev.row = NumRows
  /\ IF AllVerified(Output, ev.layer)
     THEN /\ made' = [made EXCEPT ![Output] = ev.layer]
          /\ Goto("clearIn")
          /\ UNCHANGED container
     ELSE Exit("failed") /\ UNCHANGED made
  /\ UNCHANGED <<output, data, side, progress, results>>

Complete ==
  /\ ev.pc = "row" /\ ev.row = NumRows
  /\ IF AllVerified(Output, ev.layer)
     THEN /\ made' = [made EXCEPT ![Output] = ev.layer]
          /\ Goto("progress")
          /\ UNCHANGED container
     ELSE Exit("failed") /\ UNCHANGED made
  /\ UNCHANGED <<output, data, side, progress, results>>

\* progress.json: of the embeddings, where nothing is removed, or of a layer.
Progress ==
  /\ ev.pc = "progress"
  /\ progress' = [layer |-> ev.layer, slot |-> Output]
  /\ IF ev.layer = -1 THEN ev' = [ev EXCEPT !.pc = "layer", !.layer = 0, !.input = Output]
     ELSE Goto("clearIn")
  /\ UNCHANGED <<container, output, slots, results>>

ClearIn == Clear("clearIn", ev.input, [ev EXCEPT !.pc = "layer", !.layer = @ + 1, !.input = Output])

------------------------------------------------------------------------------
(* seal_normalized, validate_normalized, the comparison and the report *)

Normalize ==
  /\ ev.pc = "normalize"
  /\ norm' = [norm EXCEPT ![ev.row] = data[ev.input][ev.row]]
  /\ IF ev.row + 1 \in Rows THEN GotoRow("normalize", ev.row + 1) ELSE Goto("manifest")
  /\ UNCHANGED <<container, output, stream, normalized, report>>

\* It has the time in it: a report is of the manifest that was there.
Manifest ==
  /\ ev.pc = "manifest"
  /\ normalized' = norm
  /\ report' = IF report = None THEN None ELSE [report EXCEPT !.bound = FALSE]
  /\ IF ev.phase = "all" THEN Goto("report") /\ UNCHANGED container ELSE Exit("ok")
  /\ UNCHANGED <<output, stream, norm>>

Report ==
  /\ ev.pc = "report"
  /\ \/ /\ normalized = norm
        /\ report' = [cand |-> ev.cand, rows |-> norm, bound |-> TRUE]
        /\ Exit("ok")
     \/ normalized # norm /\ Exit("failed") /\ UNCHANGED report
  /\ UNCHANGED <<output, stream, norm, normalized>>

EvalNext ==
  \/ Crash \/ Bind \/ Bound
  \/ Initialize \/ ClearA \/ Embed \/ EmbedSide
  \/ Layer \/ ClearOut \/ Row \/ RowSide \/ Complete \/ Progress \/ ClearIn
  \/ Normalize \/ Manifest \/ Report

------------------------------------------------------------------------------
\* progress.json never points to a state that is not whole: once the output is bound, initialize
\* never refuses what an evaluation that died anywhere left (initialize, run_layers).  A death
\* before, while the identity is written, is not covered: it leaves an output with no identity in
\* it, which main refuses.
ProgressWhole == progress # None => AllVerified(progress.slot, progress.layer)

\* What is exact: every row of the candidate, after every layer.
Exact(c, rows) == \A r \in Rows : rows[r] = [cand |-> c, depth |-> NumLayers]
==============================================================================
