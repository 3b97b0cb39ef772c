--------------------------- MODULE QualityQueueProofs ---------------------------
(***************************************************************************)
(* TypeOK, ProgressWhole, ScoresExact and OneEvaluation of QualityQueue    *)
(* for any number of launches, candidates, rows and layers.  The invariant *)
(* says label by label what the evaluator knows of its slots, that every   *)
(* sidecar, normalized row and report is of the candidate the output is    *)
(* bound to, and what the holder of the queue's lock may rely on.          *)
(***************************************************************************)
EXTENDS QualityQueue, TLAPS

------------------------------------------------------------------------------
(* The invariant of the evaluator. *)

State(l) == [cand |-> output, depth |-> l]

\* Past the binding the output is the evaluator's own; before, it is nobody's.
Binding ==
  /\ ev.pc \notin {"off", "bind", "bound"} => output = ev.cand
  /\ ev.pc = "bound" => output = "littered"

\* Until there is progress: the embeddings, row by row.
Embedding ==
  /\ ev.pc \in {"bind", "bound", "initialize", "clearA", "embed", "embedSide"} => ev.layer = -1
  /\ ev.pc \in {"bind", "bound", "initialize", "clearA"} => ev.row = 0
  /\ ev.pc \in {"clearA", "embed", "embedSide"} => progress = None
  /\ ev.pc \in {"embed", "embedSide"} =>
       ev.row \in Rows /\ \A r \in 0 .. ev.row - 1 : Verified("slot-a", r, -1)
  /\ ev.pc = "embedSide" => data["slot-a"][ev.row] = State(0)

\* From layer to layer progress is the input, until it becomes the output.
Streaming ==
  /\ ev.pc \in {"layer", "clearOut", "row", "rowSide"} => progress = [layer |-> ev.layer - 1, slot |-> ev.input]
  /\ ev.pc = "layer" => ev.layer \in 0 .. NumLayers
  /\ ev.pc \in {"clearOut", "row", "rowSide", "clearIn"} => ev.layer \in Layers
  /\ ev.pc = "rowSide" => ev.row \in Rows /\ data[Output][ev.row] = State(ev.layer + 1)
  /\ ev.pc = "progress" =>
       /\ ev.layer \in -1 .. NumLayers - 1
       /\ AllVerified(Output, ev.layer)
  /\ ev.pc = "clearIn" => progress = [layer |-> ev.layer, slot |-> Output]

\* The last rows.
Normalizing ==
  /\ ev.pc = "normalize" =>
       /\ progress = [layer |-> NumLayers - 1, slot |-> ev.input]
       /\ ev.row \in Rows
       /\ \A r \in 0 .. ev.row - 1 : norm[r] # None
  /\ ev.pc = "manifest" => \A r \in Rows : norm[r] # None

\* What has a digest is of the candidate of the output, after the layer it says.
Scored ==
  /\ \A s \in Slots, r \in Rows : side[s][r] # None => output \in Candidates /\ side[s][r].of = State(side[s][r].layer + 1)
  /\ \A r \in Rows : norm[r] # None => output \in Candidates /\ norm[r] = State(NumLayers)
  /\ normalized # None => output \in Candidates /\ \A r \in Rows : normalized[r] = State(NumLayers)
  /\ report # None => output \in Candidates /\ report.cand = output /\ Exact(output, report.rows)

EvalInv == EvalTypeOK /\ ProgressWhole /\ Binding /\ Embedding /\ Streaming /\ Normalizing /\ Scored

------------------------------------------------------------------------------
(* The invariant of the queue. *)

Sealing == {"fresh", "gpu", "run", "receipt", "tell", "wait", "seal", "sealed"}

\* One launch holds the lock; the container runs as long as its evaluator.
HolderInv ==
  /\ \A p, q \in Queues : Holds(p) /\ Holds(q) => p = q
  /\ ev.pc # "off" /\ ev.by = "queue" => container = "running"

\* What a launch past its receipt, past the end of the container, past the seal may rely on.
SealInv ==
  /\ \A q \in Queues :
       /\ queue[q] \in Sealing => original
       /\ queue[q] \in {"tell", "wait", "seal", "sealed"} => launched
       /\ queue[q] \in {"seal", "sealed"} => container = "ok"
       /\ queue[q] = "sealed" => seal # None
  /\ seal # None => launched /\ container = "ok"

IInv == TypeOK /\ EvalInv /\ HolderInv /\ SealInv /\ ScoresExact
------------------------------------------------------------------------------
(* The steps of the evaluator. *)

LEMMA RowsZero == 0 \in Rows /\ Rows \subseteq 0 .. NumRows /\ NumRows \in Nat /\ NumLayers \in Nat /\ NumLayers # 0
  BY SizesAssumption DEF Rows

LEMMA IdleTyped ==
  Idle \in Evaluators
  BY PinnedAssumption, RowsZero DEF Idle, Evaluators, EvLabels, Phases, Slots

\* The evaluator ends: nothing is claimed of a process that is off.
LEMMA ExitStep ==
  ASSUME EvalInv, NEW code \in {"ok", "failed"}, Exit(code), UNCHANGED <<output, stream, norm, normalized, report>>
  PROVE  EvalInv'
  <1>1. UNCHANGED <<output, data, side, made, progress, norm, normalized, report>>
    BY DEF stream, slots
  <1>2. ev' = Idle /\ ev'.pc = "off"
    BY DEF Exit, Idle
  <1>3. EvalTypeOK'
    BY <1>1, IdleTyped DEF EvalInv, EvalTypeOK, Exit, Values, Reports
  <1>4. ProgressWhole' /\ Scored'
    BY <1>1 DEF EvalInv, ProgressWhole, Scored, AllVerified, Verified, State, Exact
  <1>5. Binding' /\ Embedding' /\ Streaming' /\ Normalizing'
    BY <1>2 DEF Binding, Embedding, Streaming, Normalizing
  <1>. QED  BY <1>3, <1>4, <1>5 DEF EvalInv

LEMMA AfterBindingCases ==
  ASSUME EvalInv, AfterBinding
  PROVE  Exit("ok") \/ \E l \in {"report", "initialize"} : ev' = [ev EXCEPT !.pc = l] /\ UNCHANGED container
  BY DEF AfterBinding, Goto, EvalInv, EvalTypeOK, Evaluators, Phases

\* The binding of the output: nothing has a digest before it.
LEMMA BindStep ==
  ASSUME EvalInv, Bind
  PROVE  EvalInv'
  <1>1. UNCHANGED <<data, side, made, progress, norm, normalized, report>>
    BY DEF Bind, stream, slots, results
  <1>2. CASE output = ev.cand /\ AfterBinding /\ UNCHANGED output
    <2>1. CASE Exit("ok")
      BY <1>1, <1>2, <2>1, ExitStep DEF stream, slots
    <2>2. CASE \E l \in {"report", "initialize"} : ev' = [ev EXCEPT !.pc = l] /\ UNCHANGED container
      <3>2. EvalTypeOK'
        BY <1>1, <1>2, <2>2 DEF EvalInv, EvalTypeOK, Evaluators, EvLabels
      <3>3. ProgressWhole' /\ Scored'
        BY <1>1, <1>2 DEF EvalInv, ProgressWhole, Scored, AllVerified, Verified, State, Exact
      <3>4. Binding' /\ Embedding' /\ Streaming' /\ Normalizing'
        BY <1>2, <2>2 DEF Bind, EvalInv, EvalTypeOK, Evaluators, Binding, Embedding, Streaming, Normalizing
      <3>. QED  BY <3>2, <3>3, <3>4 DEF EvalInv
    <2>. QED  BY <1>2, <2>1, <2>2, AfterBindingCases
  <1>3. CASE Exit("failed") /\ UNCHANGED output
    BY <1>1, <1>3, ExitStep DEF stream, slots
  <1>4. CASE output \in {"none", "empty"}
    <2>1. /\ ev' = ev \/ ev' = [ev EXCEPT !.pc = "bound"]
          /\ output' \in {"empty", "littered"}
          /\ ev'.pc = "bound" => output' = "littered"
          /\ UNCHANGED container
      BY <1>4, CandidatesAssumption DEF Bind, Goto, EvalInv, EvalTypeOK, Evaluators
    <2>2. EvalTypeOK'
      BY <1>1, <2>1 DEF EvalInv, EvalTypeOK, Evaluators, EvLabels
    <2>3. ProgressWhole'
      BY <1>1 DEF EvalInv, ProgressWhole, AllVerified, Verified
    <2>4. Scored'
      BY <1>1, <1>4, <2>1, CandidatesAssumption DEF EvalInv, Scored
    <2>5. Binding' /\ Embedding' /\ Streaming' /\ Normalizing'
      BY <2>1 DEF Bind, EvalInv, EvalTypeOK, Evaluators, Binding, Embedding, Streaming, Normalizing
    <2>. QED  BY <2>2, <2>3, <2>4, <2>5 DEF EvalInv
  <1>. QED  BY <1>2, <1>3, <1>4 DEF Bind

LEMMA BoundStep ==
  ASSUME EvalInv, Bound
  PROVE  EvalInv'
  <1>1. UNCHANGED <<data, side, made, progress, norm, normalized, report>> /\ output' = ev.cand /\ output = "littered"
    BY DEF Bound, stream, slots, results, EvalInv, Binding
  <1>2. ProgressWhole' /\ Scored'
    BY <1>1, CandidatesAssumption DEF EvalInv, ProgressWhole, Scored, AllVerified, Verified
  <1>3. CASE Exit("ok")
    <2>1. EvalTypeOK'
      BY <1>1, <1>3, IdleTyped DEF Exit, EvalInv, EvalTypeOK, Evaluators
    <2>2. Binding' /\ Embedding' /\ Streaming' /\ Normalizing'
      BY <1>3 DEF Exit, Idle, Binding, Embedding, Streaming, Normalizing
    <2>. QED  BY <1>2, <2>1, <2>2 DEF EvalInv
  <1>4. CASE \E l \in {"report", "initialize"} : ev' = [ev EXCEPT !.pc = l] /\ UNCHANGED container
    <2>1. EvalTypeOK'
      BY <1>1, <1>4 DEF EvalInv, EvalTypeOK, Evaluators, EvLabels
    <2>2. Binding' /\ Embedding' /\ Streaming' /\ Normalizing'
      BY <1>1, <1>4 DEF Bound, EvalInv, EvalTypeOK, Evaluators, Binding, Embedding, Streaming, Normalizing
    <2>. QED  BY <1>2, <2>1, <2>2 DEF EvalInv
  <1>. QED  BY <1>3, <1>4, AfterBindingCases DEF Bound

LEMMA InitializeStep ==
  ASSUME EvalInv, Initialize
  PROVE  EvalInv'
  <1>1. UNCHANGED <<output, data, side, made, progress, norm, normalized, report>>
    BY DEF Initialize, stream, slots, results
  <1>2. ProgressWhole' /\ Scored'
    BY <1>1 DEF EvalInv, ProgressWhole, Scored, AllVerified, Verified, State, Exact
  <1>3. CASE progress = None /\ Goto("clearA") /\ UNCHANGED container
    <2>1. EvalTypeOK'
      BY <1>1, <1>3 DEF Goto, EvalInv, EvalTypeOK, Evaluators, EvLabels
    <2>2. Binding' /\ Embedding' /\ Streaming' /\ Normalizing'
      BY <1>1, <1>3 DEF Initialize, Goto, EvalInv, EvalTypeOK, Evaluators, Binding, Embedding, Streaming, Normalizing
    <2>. QED  BY <1>2, <2>1, <2>2 DEF EvalInv
  <1>4. CASE /\ progress # None
             /\ ev' = [ev EXCEPT !.pc = "layer", !.layer = progress.layer + 1, !.input = progress.slot]
             /\ UNCHANGED container
    <2>1. progress \in Progresses /\ progress.layer + 1 \in 0 .. NumLayers
      BY <1>4, RowsZero DEF EvalInv, EvalTypeOK, Progresses
    <2>2. progress = [layer |-> (progress.layer + 1) - 1, slot |-> progress.slot]
      BY <2>1 DEF Progresses
    <2>3. EvalTypeOK'
      <3>1. progress.slot \in Slots /\ progress.layer + 1 \in -1 .. NumLayers
        BY <2>1, RowsZero DEF Progresses
      <3>2. ev' \in Evaluators
        BY <1>4, <3>1 DEF EvalInv, EvalTypeOK, Evaluators, EvLabels
      <3>. QED  BY <1>1, <1>4, <3>2 DEF EvalInv, EvalTypeOK
    <2>4. Binding' /\ Embedding' /\ Streaming' /\ Normalizing'
      BY <1>1, <1>4, <2>1, <2>2 DEF Initialize, EvalInv, EvalTypeOK, Evaluators, Binding, Embedding, Streaming, Normalizing
    <2>. QED  BY <1>2, <2>3, <2>4 DEF EvalInv
  <1>5. CASE Exit("failed")
    BY <1>1, <1>5, ExitStep DEF stream, slots
  <1>. QED  BY <1>3, <1>4, <1>5 DEF Initialize

------------------------------------------------------------------------------
(* The slots: a file less in a slot that is not progress leaves all true. *)

LEMMA OtherSlot == \A s \in Slots : Other(s) \in Slots /\ Other(s) # s
  BY DEF Slots, Other

LEMMA RemoveStep ==
  ASSUME EvalInv, NEW s \in Slots, RemoveOne(s), progress # None => progress.slot # s,
         UNCHANGED <<ev, container, output, progress, results>>,
         ev.pc \in {"clearA", "clearOut", "clearIn"}
  PROVE  EvalInv'
  <1>1. UNCHANGED <<ev, container, output, progress, norm, normalized, report>>
    BY DEF results
  <1>2. /\ data' \in [Slots -> [Rows -> Values \cup {None}]]
        /\ side' \in [Slots -> [Rows -> Sidecars \cup {None}]]
        /\ made' \in [Slots -> Layers \cup {None}]
        /\ \A t \in Slots, r \in Rows : data'[t][r] = data[t][r] \/ (t = s /\ data'[t][r] = None)
        /\ \A t \in Slots, r \in Rows : side'[t][r] = side[t][r] \/ (t = s /\ side'[t][r] = None)
    <2>1. CASE made' = [made EXCEPT ![s] = None] /\ UNCHANGED <<data, side>>
      BY <2>1 DEF EvalInv, EvalTypeOK
    <2>2. CASE \E r \in Rows : data' = [data EXCEPT ![s][r] = None] /\ UNCHANGED <<side, made>>
      BY <2>2 DEF EvalInv, EvalTypeOK
    <2>3. CASE \E r \in Rows : side' = [side EXCEPT ![s][r] = None] /\ UNCHANGED <<data, made>>
      BY <2>3 DEF EvalInv, EvalTypeOK
    <2>. QED  BY <2>1, <2>2, <2>3 DEF RemoveOne
  <1>3. EvalTypeOK'
    BY <1>1, <1>2 DEF EvalInv, EvalTypeOK
  <1>4. ProgressWhole'
    BY <1>1, <1>2 DEF EvalInv, EvalTypeOK, ProgressWhole, AllVerified, Verified, Progresses
  <1>5. Scored'
    BY <1>1, <1>2 DEF EvalInv, EvalTypeOK, Scored, State, Exact
  <1>6. Binding' /\ Embedding' /\ Streaming' /\ Normalizing'
    BY <1>1 DEF EvalInv, Binding, Embedding, Streaming, Normalizing, Output
  <1>. QED  BY <1>3, <1>4, <1>5, <1>6 DEF EvalInv

\* The slot is empty: the evaluator goes on.
LEMMA ClearedStep ==
  ASSUME EvalInv, ev' \in Evaluators,
         Binding', Embedding', Streaming', Normalizing',
         UNCHANGED <<container, output, progress, results, slots>>
  PROVE  EvalInv'
  <1>1. UNCHANGED <<container, output, data, side, made, progress, norm, normalized, report>>
    BY DEF results, slots
  <1>2. EvalTypeOK'
    BY <1>1 DEF EvalInv, EvalTypeOK
  <1>3. ProgressWhole' /\ Scored'
    BY <1>1 DEF EvalInv, ProgressWhole, Scored, AllVerified, Verified, State, Exact
  <1>. QED  BY <1>2, <1>3 DEF EvalInv

LEMMA ClearAStep ==
  ASSUME EvalInv, ClearA
  PROVE  EvalInv'
  <1>1. ev.pc = "clearA" /\ progress = None /\ UNCHANGED <<container, output, progress, results>>
    BY DEF ClearA, Clear, EvalInv, Embedding
  <1>2. CASE RemoveOne("slot-a") /\ UNCHANGED ev
    BY <1>1, <1>2, RemoveStep DEF Slots
  <1>3. CASE ev' = [ev EXCEPT !.pc = "embed"] /\ UNCHANGED slots
    <2>1. UNCHANGED <<output, progress, data, side, norm>>
      BY <1>1, <1>3 DEF slots, results
    <2>2. Binding' /\ Embedding' /\ Streaming' /\ Normalizing'
      BY <1>1, <1>3, <2>1, RowsZero DEF EvalInv, EvalTypeOK, Evaluators, Binding, Embedding, Streaming, Normalizing
    <2>. QED  BY <1>1, <1>3, <2>2, ClearedStep DEF EvalInv, EvalTypeOK, Evaluators, EvLabels
  <1>. QED  BY <1>2, <1>3 DEF ClearA, Clear

LEMMA ClearOutStep ==
  ASSUME EvalInv, ClearOut
  PROVE  EvalInv'
  <1>1. ev.pc = "clearOut" /\ progress = [layer |-> ev.layer - 1, slot |-> ev.input] /\ UNCHANGED <<container, output, progress, results>>
    BY DEF ClearOut, Clear, EvalInv, Streaming
  <1>2. Output \in Slots /\ Output # ev.input
    BY OtherSlot DEF Output, EvalInv, EvalTypeOK, Evaluators
  <1>3. CASE RemoveOne(Output) /\ UNCHANGED ev
    BY <1>1, <1>2, <1>3, RemoveStep
  <1>4. CASE ev' = [ev EXCEPT !.pc = "row"] /\ UNCHANGED slots
    <2>1. UNCHANGED <<output, progress, data, side, norm>>
      BY <1>1, <1>4 DEF slots, results
    <2>2. Binding' /\ Embedding' /\ Streaming' /\ Normalizing'
      BY <1>1, <1>4, <2>1 DEF EvalInv, EvalTypeOK, Evaluators, Binding, Embedding, Streaming, Normalizing
    <2>. QED  BY <1>1, <1>4, <2>2, ClearedStep DEF EvalInv, EvalTypeOK, Evaluators, EvLabels
  <1>. QED  BY <1>3, <1>4 DEF ClearOut, Clear

LEMMA ClearInStep ==
  ASSUME EvalInv, ClearIn
  PROVE  EvalInv'
  <1>1. /\ ev.pc = "clearIn" /\ ev.layer \in Layers
        /\ progress = [layer |-> ev.layer, slot |-> Output]
        /\ UNCHANGED <<container, output, progress, results>>
    BY DEF ClearIn, Clear, EvalInv, Streaming
  <1>2. ev.input \in Slots /\ Output \in Slots /\ Output # ev.input
    BY OtherSlot DEF Output, EvalInv, EvalTypeOK, Evaluators
  <1>3. CASE RemoveOne(ev.input) /\ UNCHANGED ev
    BY <1>1, <1>2, <1>3, RemoveStep
  <1>4. CASE ev' = [ev EXCEPT !.pc = "layer", !.layer = @ + 1, !.input = Output] /\ UNCHANGED slots
    <2>1. UNCHANGED <<output, progress, data, side, norm>>
      BY <1>1, <1>4 DEF slots, results
    <2>2. ev.layer + 1 \in 0 .. NumLayers /\ (ev.layer + 1) - 1 = ev.layer
      BY <1>1, RowsZero DEF Layers
    <2>3. Binding' /\ Embedding' /\ Streaming' /\ Normalizing'
      BY <1>1, <1>2, <1>4, <2>1, <2>2 DEF EvalInv, EvalTypeOK, Evaluators, Binding, Embedding, Streaming, Normalizing
    <2>4. ev.layer + 1 \in -1 .. NumLayers
      BY <2>2, RowsZero DEF EvalInv
    <2>5. ev' \in Evaluators
      BY <1>2, <1>4, <2>4 DEF EvalInv, EvalTypeOK, Evaluators, EvLabels
    <2>. QED  BY <1>1, <1>4, <2>3, <2>5, ClearedStep
  <1>. QED  BY <1>3, <1>4 DEF ClearIn, Clear

------------------------------------------------------------------------------
(* Rows: what is written, and what a whole slot holds. *)

LEMMA WholeState ==
  ASSUME EvalInv, NEW s \in Slots, NEW l \in -1 .. NumLayers - 1, AllVerified(s, l)
  PROVE  \A r \in Rows : data[s][r] = State(l + 1) /\ output \in Candidates
  <1>. SUFFICES ASSUME NEW r \in Rows PROVE data[s][r] = State(l + 1) /\ output \in Candidates
    OBVIOUS
  <1>1. data[s][r] \in Values /\ side[s][r] = [layer |-> l, of |-> data[s][r]]
    BY DEF AllVerified, Verified, EvalInv, EvalTypeOK
  <1>2. side[s][r] \in Sidecars
    BY <1>1 DEF Sidecars
  <1>3. side[s][r] # None
    BY <1>2, NoneAssumption
  <1>4. output \in Candidates /\ side[s][r].of = State(side[s][r].layer + 1)
    BY <1>3 DEF EvalInv, Scored
  <1>. QED  BY <1>1, <1>4

LEMMA WriteDataStep ==
  ASSUME EvalInv, NEW s \in Slots, NEW r \in Rows, NEW v \in Values, WriteData(s, r, v),
         progress # None => progress.slot # s,
         UNCHANGED <<container, output, progress, results>>,
         ev' \in Evaluators, Binding', Embedding', Streaming', Normalizing'
  PROVE  EvalInv'
  <1>1. UNCHANGED <<side, made, container, output, progress, norm, normalized, report>>
    BY DEF WriteData, results
  <1>2. /\ data' \in [Slots -> [Rows -> Values \cup {None}]]
        /\ \A t \in Slots, k \in Rows : t # s => data'[t][k] = data[t][k]
    BY DEF WriteData, EvalInv, EvalTypeOK
  <1>3. EvalTypeOK'
    BY <1>1, <1>2 DEF EvalInv, EvalTypeOK
  <1>4. ProgressWhole'
    BY <1>1, <1>2 DEF EvalInv, EvalTypeOK, ProgressWhole, AllVerified, Verified, Progresses
  <1>5. Scored'
    BY <1>1 DEF EvalInv, Scored, State, Exact
  <1>. QED  BY <1>3, <1>4, <1>5 DEF EvalInv

LEMMA WriteSideStep ==
  ASSUME EvalInv, NEW s \in Slots, NEW r \in Rows, NEW l \in -1 .. NumLayers - 1, WriteSide(s, r, l),
         data[s][r] = State(l + 1), output \in Candidates,
         progress # None => progress.slot # s,
         UNCHANGED <<container, output, progress, results>>,
         ev' \in Evaluators, Binding', Embedding', Streaming', Normalizing'
  PROVE  EvalInv'
  <1>1. UNCHANGED <<data, made, container, output, progress, norm, normalized, report>>
    BY DEF WriteSide, results
  <1>2. l + 1 \in 0 .. NumLayers
    BY RowsZero
  <1>3. data[s][r] \in Values
    BY <1>2 DEF State, Values
  <1>4. [layer |-> l, of |-> data[s][r]] \in Sidecars
    BY <1>3 DEF Sidecars
  <1>5. /\ side' \in [Slots -> [Rows -> Sidecars \cup {None}]]
        /\ \A t \in Slots, k \in Rows : side'[t][k] = IF t = s /\ k = r THEN [layer |-> l, of |-> data[s][r]] ELSE side[t][k]
    BY <1>4 DEF WriteSide, EvalInv, EvalTypeOK
  <1>6. EvalTypeOK'
    BY <1>1, <1>5 DEF EvalInv, EvalTypeOK
  <1>7. ProgressWhole'
    BY <1>1, <1>5 DEF EvalInv, EvalTypeOK, ProgressWhole, AllVerified, Verified, Progresses
  <1>8. \A t \in Slots, k \in Rows : side'[t][k] # None =>
          output' \in Candidates /\ side'[t][k].of = [cand |-> output', depth |-> side'[t][k].layer + 1]
    BY <1>1, <1>5 DEF EvalInv, Scored, State
  <1>9. Scored'
    BY <1>1, <1>8 DEF EvalInv, Scored, State, Exact
  <1>. QED  BY <1>6, <1>7, <1>9 DEF EvalInv

LEMMA EmbedStep ==
  ASSUME EvalInv, Embed
  PROVE  EvalInv'
  <1>1. /\ ev.pc = "embed" /\ progress = None /\ ev.row \in Rows /\ ev.layer = -1 /\ output = ev.cand
        /\ \A r \in 0 .. ev.row - 1 : Verified("slot-a", r, -1)
        /\ WriteData("slot-a", ev.row, State(0))
        /\ ev' = [ev EXCEPT !.pc = "embedSide"]
        /\ UNCHANGED <<container, output, progress, results>>
    BY DEF Embed, Goto, State, EvalInv, Binding, Embedding
  <1>2. State(0) \in Values /\ "slot-a" \in Slots
    BY <1>1, RowsZero DEF State, Values, Slots, EvalInv, EvalTypeOK, Evaluators
  <1>3. ev' \in Evaluators /\ ev'.pc = "embedSide" /\ ev'.row = ev.row /\ ev'.layer = -1 /\ ev'.cand = ev.cand
    BY <1>1 DEF EvalInv, EvalTypeOK, Evaluators, EvLabels
  <1>4. UNCHANGED <<side, norm>> /\ data'["slot-a"] = [data["slot-a"] EXCEPT ![ev.row] = State(0)]
    BY <1>1, <1>2 DEF WriteData, results, EvalInv, EvalTypeOK
  <1>5. data["slot-a"] \in [Rows -> Values \cup {None}] /\ ev.row \in Int
    BY <1>2 DEF EvalInv, EvalTypeOK, Evaluators
  <1>6. \A r \in 0 .. ev.row - 1 : Verified("slot-a", r, -1)'
    BY <1>1, <1>4, <1>5, RowsZero DEF Verified, Rows
  <1>7. data'["slot-a"][ev.row] = State(0)'
    BY <1>1, <1>4, <1>5 DEF State
  <1>8. Embedding'
    BY <1>1, <1>3, <1>6, <1>7 DEF Embedding
  <1>9. Binding' /\ Streaming' /\ Normalizing'
    BY <1>1, <1>3 DEF Binding, Streaming, Normalizing
  <1>. QED  BY <1>1, <1>2, <1>3, <1>8, <1>9, WriteDataStep

LEMMA EmbedSideStep ==
  ASSUME EvalInv, EmbedSide
  PROVE  EvalInv'
  <1>1. /\ ev.pc = "embedSide" /\ progress = None /\ ev.row \in Rows /\ ev.layer = -1 /\ output = ev.cand
        /\ \A r \in 0 .. ev.row - 1 : Verified("slot-a", r, -1)
        /\ data["slot-a"][ev.row] = State(0)
        /\ WriteSide("slot-a", ev.row, -1)
        /\ UNCHANGED <<container, output, progress, results>>
    BY DEF EmbedSide, EvalInv, Binding, Embedding
  <1>2. /\ -1 \in -1 .. NumLayers - 1 /\ -1 + 1 = 0 /\ "slot-a" \in Slots /\ "slot-b" \in Slots
        /\ output \in Candidates /\ State(0) \in Values
    BY <1>1, RowsZero DEF Slots, EvalInv, EvalTypeOK, Evaluators, State, Values
  <1>3. UNCHANGED <<data, norm>> /\ side'["slot-a"] = [side["slot-a"] EXCEPT ![ev.row] = [layer |-> -1, of |-> State(0)]]
    BY <1>1, <1>2 DEF WriteSide, results, EvalInv, EvalTypeOK
  <1>4. side["slot-a"] \in [Rows -> Sidecars \cup {None}] /\ ev.row \in Int
    BY <1>2 DEF EvalInv, EvalTypeOK, Evaluators
  <1>5. State(0) # None
    BY <1>2, NoneAssumption
  <1>6. \A r \in 0 .. ev.row : Verified("slot-a", r, -1)'
    BY <1>1, <1>3, <1>4, <1>5, RowsZero DEF Verified, Rows
  <1>7. CASE ev.row + 1 \in Rows /\ ev' = [ev EXCEPT !.pc = "embed", !.row = ev.row + 1]
    <2>1. ev' \in Evaluators /\ ev'.pc = "embed" /\ ev'.row = ev.row + 1 /\ ev'.layer = -1 /\ ev'.cand = ev.cand
      BY <1>1, <1>7, RowsZero DEF EvalInv, EvalTypeOK, Evaluators, EvLabels
    <2>2. \A r \in 0 .. (ev.row + 1) - 1 : Verified("slot-a", r, -1)'
      BY <1>4, <1>6
    <2>3. Embedding'
      BY <1>1, <1>7, <2>1, <2>2 DEF Embedding
    <2>4. Binding' /\ Streaming' /\ Normalizing'
      BY <1>1, <2>1 DEF Binding, Streaming, Normalizing
    <2>. QED  BY <1>1, <1>2, <2>1, <2>3, <2>4, WriteSideStep
  <1>8. CASE ev.row + 1 \notin Rows /\ ev' = [ev EXCEPT !.pc = "progress", !.row = 0, !.input = "slot-b"]
    <2>1. /\ ev' \in Evaluators /\ ev'.pc = "progress" /\ ev'.layer = -1 /\ ev'.cand = ev.cand /\ ev'.input = "slot-b"
          /\ Output' = "slot-a"
      BY <1>1, <1>2, <1>8, RowsZero DEF EvalInv, EvalTypeOK, Evaluators, EvLabels, Output, Other
    <2>2. AllVerified("slot-a", -1)'
      BY <1>1, <1>4, <1>6, <1>8, RowsZero DEF AllVerified, Rows
    <2>3. Streaming'
      BY <1>2, <2>1, <2>2 DEF Streaming
    <2>4. Binding' /\ Embedding' /\ Normalizing'
      BY <1>1, <2>1 DEF Binding, Embedding, Normalizing
    <2>. QED  BY <1>1, <1>2, <2>1, <2>3, <2>4, WriteSideStep
  <1>. QED  BY <1>7, <1>8 DEF EmbedSide, GotoRow

------------------------------------------------------------------------------
(* Layers *)

\* Steps that leave slots and rows alone.
LEMMA QuietStep ==
  ASSUME EvalInv, ev' \in Evaluators, Binding', Embedding', Streaming', Normalizing',
         UNCHANGED <<container, output, data, side, made, progress, norm, normalized, report>>
  PROVE  EvalInv'
  <1>1. EvalTypeOK'
    BY DEF EvalInv, EvalTypeOK
  <1>2. ProgressWhole' /\ Scored'
    BY DEF EvalInv, ProgressWhole, Scored, AllVerified, Verified, State, Exact
  <1>. QED  BY <1>1, <1>2 DEF EvalInv

LEMMA LayerStep ==
  ASSUME EvalInv, Layer
  PROVE  EvalInv'
  <1>1. /\ ev.pc = "layer" /\ ev.layer \in 0 .. NumLayers
        /\ progress = [layer |-> ev.layer - 1, slot |-> ev.input]
        /\ output = ev.cand
        /\ UNCHANGED <<container, output, data, side, made, progress, norm, normalized, report>>
    BY DEF Layer, stream, slots, results, EvalInv, Streaming, Binding
  <1>2. \E l \in {"normalize", "clearOut", "row"} :
          /\ ev' = [ev EXCEPT !.pc = l, !.row = 0]
          /\ (l = "normalize") <=> (ev.layer = NumLayers)
    BY DEF Layer, GotoRow
  <1>3. /\ ev' \in Evaluators /\ ev'.pc \in {"normalize", "clearOut", "row"} /\ ev'.row = 0
        /\ ev'.layer = ev.layer /\ ev'.input = ev.input /\ ev'.cand = ev.cand
        /\ (ev'.pc = "normalize") <=> (ev.layer = NumLayers)
    BY <1>2, RowsZero DEF EvalInv, EvalTypeOK, Evaluators, EvLabels
  <1>4. Binding' /\ Embedding'
    BY <1>1, <1>3 DEF Binding, Embedding
  <1>5. Streaming'
    BY <1>1, <1>3, RowsZero DEF Streaming, Layers
  <1>6. Normalizing'
    BY <1>1, <1>3, RowsZero DEF Normalizing
  <1>. QED  BY <1>1, <1>3, <1>4, <1>5, <1>6, QuietStep

LEMMA RowStep ==
  ASSUME EvalInv, Row
  PROVE  EvalInv'
  <1>1. /\ ev.pc = "row" /\ ev.row \in Rows /\ ev.layer \in Layers /\ ev.input \in Slots
        /\ progress = [layer |-> ev.layer - 1, slot |-> ev.input]
        /\ output = ev.cand
        /\ Output \in Slots /\ Output # ev.input
        /\ UNCHANGED <<output, progress, results>>
    BY OtherSlot DEF Row, Output, EvalInv, EvalTypeOK, Evaluators, Streaming, Binding
  <1>2. CASE GotoRow("row", ev.row + 1) /\ UNCHANGED <<container, slots>>
    <2>1. UNCHANGED <<container, output, data, side, made, progress, norm, normalized, report>>
      BY <1>1, <1>2 DEF slots, results
    <2>2. ev' \in Evaluators /\ ev'.pc = "row" /\ ev'.layer = ev.layer /\ ev'.input = ev.input /\ ev'.cand = ev.cand
      <3>1. ev.row + 1 \in 0 .. NumRows
        BY <1>1, RowsZero DEF Rows
      <3>. QED  BY <1>1, <1>2, <3>1 DEF GotoRow, EvalInv, EvalTypeOK, Evaluators, EvLabels
    <2>3. Binding' /\ Embedding' /\ Streaming' /\ Normalizing'
      BY <1>1, <2>1, <2>2 DEF Binding, Embedding, Streaming, Normalizing
    <2>. QED  BY <2>1, <2>2, <2>3, QuietStep
  <1>3. CASE Exit("failed") /\ UNCHANGED slots
    BY <1>1, <1>3, ExitStep DEF stream, slots, results
  <1>4. CASE /\ data[ev.input][ev.row] # None
             /\ WriteData(Output, ev.row, Applied(ev.layer, data[ev.input][ev.row]))
             /\ Goto("rowSide")
             /\ UNCHANGED container
    <2>1. progress \in Progresses /\ ev.layer - 1 \in -1 .. NumLayers - 1 /\ (ev.layer - 1) + 1 = ev.layer
      BY <1>1, RowsZero DEF Progresses, Layers
    <2>2. AllVerified(ev.input, ev.layer - 1)
      BY <1>1, <2>1, NoneAssumption DEF EvalInv, ProgressWhole
    <2>3. data[ev.input][ev.row] = State(ev.layer) /\ output \in Candidates
      BY <1>1, <2>1, <2>2, WholeState
    <2>4. Applied(ev.layer, data[ev.input][ev.row]) = State(ev.layer + 1)
      BY <1>1, <2>3 DEF Applied, State
    <2>5. State(ev.layer + 1) \in Values
      BY <1>1, <2>3, RowsZero DEF State, Values, Layers
    <2>6. WriteData(Output, ev.row, State(ev.layer + 1))
      BY <1>4, <2>4
    <2>7. /\ ev' \in Evaluators /\ ev'.pc = "rowSide" /\ ev'.layer = ev.layer /\ ev'.row = ev.row
          /\ ev'.input = ev.input /\ ev'.cand = ev.cand /\ Output' = Output
      BY <1>1, <1>4 DEF Goto, EvalInv, EvalTypeOK, Evaluators, EvLabels, Output
    <2>8. data'[Output][ev.row] = State(ev.layer + 1)
      BY <1>1, <2>6 DEF WriteData, EvalInv, EvalTypeOK
    <2>9. Streaming'
      BY <1>1, <2>7, <2>8 DEF Streaming, State
    <2>10. Binding' /\ Embedding' /\ Normalizing'
      BY <1>1, <2>7 DEF Binding, Embedding, Normalizing
    <2>11. progress.slot # Output
      BY <1>1
    <2>. QED  BY <1>1, <1>4, <2>5, <2>6, <2>7, <2>9, <2>10, <2>11, WriteDataStep
  <1>. QED  BY <1>2, <1>3, <1>4 DEF Row

LEMMA RowSideStep ==
  ASSUME EvalInv, RowSide
  PROVE  EvalInv'
  <1>1. /\ ev.pc = "rowSide" /\ ev.row \in Rows /\ ev.layer \in Layers /\ ev.input \in Slots
        /\ progress = [layer |-> ev.layer - 1, slot |-> ev.input]
        /\ output = ev.cand /\ output \in Candidates
        /\ Output \in Slots /\ progress.slot # Output
        /\ data[Output][ev.row] = State(ev.layer + 1)
        /\ UNCHANGED <<container, output, progress, results>>
        /\ WriteSide(Output, ev.row, ev.layer)
    BY OtherSlot DEF RowSide, Output, EvalInv, EvalTypeOK, Evaluators, Streaming, Binding
  <1>2. ev.layer \in -1 .. NumLayers - 1 /\ ev.row + 1 \in 0 .. NumRows
    BY <1>1, RowsZero DEF Layers, Rows
  <1>3. ev' \in Evaluators /\ ev'.pc = "row" /\ ev'.layer = ev.layer /\ ev'.input = ev.input /\ ev'.cand = ev.cand
    BY <1>1, <1>2 DEF RowSide, GotoRow, EvalInv, EvalTypeOK, Evaluators, EvLabels
  <1>4. Binding' /\ Embedding' /\ Streaming' /\ Normalizing'
    BY <1>1, <1>3 DEF Binding, Embedding, Streaming, Normalizing
  <1>. QED  BY <1>1, <1>2, <1>3, <1>4, WriteSideStep

LEMMA CompleteStep ==
  ASSUME EvalInv, Complete
  PROVE  EvalInv'
  <1>1. /\ ev.pc = "row" /\ ev.layer \in Layers /\ output = ev.cand
        /\ UNCHANGED <<output, data, side, progress, norm, normalized, report>>
    BY DEF Complete, results, EvalInv, Streaming, Binding
  <1>2. CASE /\ AllVerified(Output, ev.layer)
             /\ made' = [made EXCEPT ![Output] = ev.layer]
             /\ Goto("progress")
             /\ UNCHANGED container
    <2>1. ev' \in Evaluators /\ ev'.pc = "progress" /\ ev'.layer = ev.layer /\ ev'.cand = ev.cand /\ Output' = Output
      BY <1>2 DEF Goto, EvalInv, EvalTypeOK, Evaluators, EvLabels, Output
    <2>2. made' \in [Slots -> Layers \cup {None}]
      BY <1>1, <1>2 DEF EvalInv, EvalTypeOK
    <2>3. EvalTypeOK'
      BY <1>1, <1>2, <2>1, <2>2 DEF EvalInv, EvalTypeOK
    <2>4. ProgressWhole' /\ Scored'
      BY <1>1 DEF EvalInv, ProgressWhole, Scored, AllVerified, Verified, State, Exact
    <2>5. AllVerified(Output, ev.layer)'
      BY <1>1, <1>2, <2>1 DEF AllVerified, Verified
    <2>6. Streaming'
      BY <1>1, <2>1, <2>5, RowsZero DEF Streaming, Layers
    <2>7. Binding' /\ Embedding' /\ Normalizing'
      BY <1>1, <2>1 DEF Binding, Embedding, Normalizing
    <2>. QED  BY <2>3, <2>4, <2>6, <2>7 DEF EvalInv
  <1>3. CASE Exit("failed") /\ UNCHANGED made
    BY <1>1, <1>3, ExitStep DEF stream, slots
  <1>. QED  BY <1>2, <1>3 DEF Complete

LEMMA ProgressStep ==
  ASSUME EvalInv, Progress
  PROVE  EvalInv'
  <1>1. /\ ev.pc = "progress" /\ ev.layer \in -1 .. NumLayers - 1 /\ output = ev.cand /\ Output \in Slots
        /\ AllVerified(Output, ev.layer)
        /\ progress' = [layer |-> ev.layer, slot |-> Output]
        /\ UNCHANGED <<container, output, data, side, made, norm, normalized, report>>
    BY OtherSlot DEF Progress, slots, results, EvalInv, EvalTypeOK, Evaluators, Streaming, Binding, Output
  <1>2. ProgressWhole'
    BY <1>1 DEF ProgressWhole, AllVerified, Verified
  <1>3. Scored'
    BY <1>1 DEF EvalInv, Scored, State, Exact
  <1>4. progress' \in Progresses
    BY <1>1 DEF Progresses
  <1>5. CASE ev.layer = -1 /\ ev' = [ev EXCEPT !.pc = "layer", !.layer = 0, !.input = Output]
    <2>1. ev' \in Evaluators /\ ev'.pc = "layer" /\ ev'.layer = 0 /\ ev'.input = Output /\ ev'.cand = ev.cand
      <3>1. 0 \in -1 .. NumLayers
        BY RowsZero
      <3>. QED  BY <1>1, <1>5, <3>1 DEF EvalInv, EvalTypeOK, Evaluators, EvLabels
    <2>2. Binding' /\ Embedding' /\ Streaming' /\ Normalizing'
      BY <1>1, <1>5, <2>1, RowsZero DEF Binding, Embedding, Streaming, Normalizing
    <2>3. EvalTypeOK'
      BY <1>1, <1>4, <2>1 DEF EvalInv, EvalTypeOK
    <2>. QED  BY <1>2, <1>3, <2>2, <2>3 DEF EvalInv
  <1>6. CASE ev.layer # -1 /\ Goto("clearIn")
    <2>1. ev' \in Evaluators /\ ev'.pc = "clearIn" /\ ev'.layer = ev.layer /\ ev'.cand = ev.cand /\ Output' = Output
      BY <1>6 DEF Goto, EvalInv, EvalTypeOK, Evaluators, EvLabels, Output
    <2>2. ev.layer \in Layers
      BY <1>1, <1>6, RowsZero DEF Layers
    <2>3. Binding' /\ Embedding' /\ Streaming' /\ Normalizing'
      BY <1>1, <2>1, <2>2 DEF Binding, Embedding, Streaming, Normalizing
    <2>4. EvalTypeOK'
      BY <1>1, <1>4, <2>1 DEF EvalInv, EvalTypeOK
    <2>. QED  BY <1>2, <1>3, <2>3, <2>4 DEF EvalInv
  <1>. QED  BY <1>5, <1>6 DEF Progress

------------------------------------------------------------------------------
(* The last rows and the report *)

LEMMA NormalizeStep ==
  ASSUME EvalInv, Normalize
  PROVE  EvalInv'
  <1>1. /\ ev.pc = "normalize" /\ ev.row \in Rows /\ ev.input \in Slots /\ output = ev.cand
        /\ progress = [layer |-> NumLayers - 1, slot |-> ev.input]
        /\ \A r \in 0 .. ev.row - 1 : norm[r] # None
        /\ norm' = [norm EXCEPT ![ev.row] = data[ev.input][ev.row]]
        /\ UNCHANGED <<container, output, data, side, made, progress, normalized, report>>
    BY DEF Normalize, stream, slots, EvalInv, EvalTypeOK, Evaluators, Normalizing, Binding
  <1>2. NumLayers - 1 \in -1 .. NumLayers - 1 /\ (NumLayers - 1) + 1 = NumLayers /\ NumLayers \in 0 .. NumLayers
    BY RowsZero
  <1>3. AllVerified(ev.input, NumLayers - 1)
    BY <1>1, <1>2, NoneAssumption DEF EvalInv, ProgressWhole, Progresses
  <1>4. data[ev.input][ev.row] = State(NumLayers) /\ output \in Candidates
    BY <1>1, <1>2, <1>3, WholeState
  <1>5. State(NumLayers) \in Values /\ State(NumLayers) # None
    BY <1>2, <1>4, NoneAssumption DEF State, Values
  <1>6. /\ norm' \in [Rows -> Values \cup {None}]
        /\ \A r \in Rows : norm'[r] = IF r = ev.row THEN State(NumLayers) ELSE norm[r]
    BY <1>1, <1>4, <1>5 DEF EvalInv, EvalTypeOK
  <1>7. ProgressWhole'
    BY <1>1 DEF EvalInv, ProgressWhole, AllVerified, Verified
  <1>8. Scored'
    BY <1>1, <1>4, <1>6 DEF EvalInv, Scored, State, Exact
  <1>9. \A r \in 0 .. ev.row : norm'[r] # None
    BY <1>1, <1>5, <1>6, RowsZero DEF Rows
  <1>10. CASE ev.row + 1 \in Rows /\ GotoRow("normalize", ev.row + 1)
    <2>1. /\ ev' \in Evaluators /\ ev'.pc = "normalize" /\ ev'.row = ev.row + 1
          /\ ev'.input = ev.input /\ ev'.cand = ev.cand
      BY <1>10, RowsZero DEF GotoRow, EvalInv, EvalTypeOK, Evaluators, EvLabels
    <2>2. \A r \in 0 .. (ev.row + 1) - 1 : norm'[r] # None
      BY <1>1, <1>9 DEF Rows
    <2>3. Normalizing'
      BY <1>1, <1>10, <2>1, <2>2 DEF Normalizing
    <2>4. Binding' /\ Embedding' /\ Streaming'
      BY <1>1, <2>1 DEF Binding, Embedding, Streaming
    <2>5. EvalTypeOK'
      BY <1>1, <1>6, <2>1 DEF EvalInv, EvalTypeOK
    <2>. QED  BY <1>7, <1>8, <2>3, <2>4, <2>5 DEF EvalInv
  <1>11. CASE ev.row + 1 \notin Rows /\ Goto("manifest")
    <2>1. ev' \in Evaluators /\ ev'.pc = "manifest" /\ ev'.cand = ev.cand
      BY <1>11 DEF Goto, EvalInv, EvalTypeOK, Evaluators, EvLabels
    <2>2. \A r \in Rows : norm'[r] # None
      BY <1>1, <1>9, <1>11, RowsZero DEF Rows
    <2>3. Normalizing'
      BY <2>1, <2>2 DEF Normalizing
    <2>4. Binding' /\ Embedding' /\ Streaming'
      BY <1>1, <2>1 DEF Binding, Embedding, Streaming
    <2>5. EvalTypeOK'
      BY <1>1, <1>6, <2>1 DEF EvalInv, EvalTypeOK
    <2>. QED  BY <1>7, <1>8, <2>3, <2>4, <2>5 DEF EvalInv
  <1>. QED  BY <1>10, <1>11 DEF Normalize

LEMMA ManifestStep ==
  ASSUME EvalInv, Manifest
  PROVE  EvalInv'
  <1>1. /\ ev.pc = "manifest" /\ output = ev.cand
        /\ \A r \in Rows : norm[r] # None
        /\ normalized' = norm
        /\ report' = IF report = None THEN None ELSE [report EXCEPT !.bound = FALSE]
        /\ UNCHANGED <<output, data, side, made, progress, norm>>
    BY DEF Manifest, stream, slots, EvalInv, Normalizing, Binding
  <1>2. norm \in [Rows -> Values]
    BY <1>1 DEF EvalInv, EvalTypeOK
  <1>3. report' \in Reports \cup {None}
    BY <1>1 DEF EvalInv, EvalTypeOK, Reports
  <1>4. report' # None => report # None /\ report'.cand = report.cand /\ report'.rows = report.rows
    BY <1>1 DEF EvalInv, EvalTypeOK, Reports
  <1>5. ProgressWhole'
    BY <1>1 DEF EvalInv, ProgressWhole, AllVerified, Verified
  <1>6. Scored'
    <2>1. output \in Candidates /\ \A r \in Rows : normalized'[r] = State(NumLayers)
      BY <1>1, RowsZero DEF EvalInv, Scored
    <2>. QED  BY <1>1, <1>4, <2>1 DEF EvalInv, Scored, State, Exact
  <1>7. CASE Goto("report") /\ UNCHANGED container
    <2>1. ev' \in Evaluators /\ ev'.pc = "report" /\ ev'.cand = ev.cand
      BY <1>7 DEF Goto, EvalInv, EvalTypeOK, Evaluators, EvLabels
    <2>2. EvalTypeOK'
      BY <1>1, <1>2, <1>3, <1>7, <2>1 DEF EvalInv, EvalTypeOK
    <2>3. Binding' /\ Embedding' /\ Streaming' /\ Normalizing'
      BY <1>1, <2>1 DEF Binding, Embedding, Streaming, Normalizing
    <2>. QED  BY <1>5, <1>6, <2>2, <2>3 DEF EvalInv
  <1>8. CASE Exit("ok")
    <2>1. EvalTypeOK'
      BY <1>1, <1>2, <1>3, <1>8, IdleTyped DEF Exit, EvalInv, EvalTypeOK
    <2>2. Binding' /\ Embedding' /\ Streaming' /\ Normalizing'
      BY <1>8 DEF Exit, Idle, Binding, Embedding, Streaming, Normalizing
    <2>. QED  BY <1>5, <1>6, <2>1, <2>2 DEF EvalInv
  <1>. QED  BY <1>7, <1>8 DEF Manifest

LEMMA ReportStep ==
  ASSUME EvalInv, Report
  PROVE  EvalInv'
  <1>1. ev.pc = "report" /\ output = ev.cand /\ UNCHANGED <<output, data, side, made, progress, norm, normalized>>
    BY DEF Report, stream, slots, EvalInv, Binding
  <1>2. CASE normalized # norm /\ Exit("failed") /\ UNCHANGED report
    BY <1>1, <1>2, ExitStep DEF stream, slots
  <1>3. CASE /\ normalized = norm
             /\ report' = [cand |-> ev.cand, rows |-> norm, bound |-> TRUE]
             /\ Exit("ok")
    <2>1. normalized # None /\ norm \in [Rows -> Values]
      BY <1>3, NoneAssumption DEF EvalInv, EvalTypeOK
    <2>2. output \in Candidates /\ \A r \in Rows : norm[r] = State(NumLayers)
      BY <1>3, <2>1 DEF EvalInv, Scored
    <2>3. report' \in Reports
      BY <1>1, <1>3, <2>1, <2>2 DEF Reports
    <2>4. EvalTypeOK'
      BY <1>1, <1>3, <2>3, IdleTyped DEF Exit, EvalInv, EvalTypeOK
    <2>5. ProgressWhole'
      BY <1>1 DEF EvalInv, ProgressWhole, AllVerified, Verified
    <2>6. Scored'
      BY <1>1, <1>3, <2>2 DEF EvalInv, Scored, State, Exact
    <2>7. Binding' /\ Embedding' /\ Streaming' /\ Normalizing'
      BY <1>3 DEF Exit, Idle, Binding, Embedding, Streaming, Normalizing
    <2>. QED  BY <2>4, <2>5, <2>6, <2>7 DEF EvalInv
  <1>. QED  BY <1>2, <1>3 DEF Report

LEMMA EvalStep ==
  ASSUME EvalInv, EvalNext
  PROVE  EvalInv'
  <1>1. CASE Crash
    BY <1>1, ExitStep DEF Crash, stream, results
  <1>2. CASE Bind \/ Bound \/ Initialize
    BY <1>2, BindStep, BoundStep, InitializeStep
  <1>3. CASE ClearA \/ ClearOut \/ ClearIn
    BY <1>3, ClearAStep, ClearOutStep, ClearInStep
  <1>4. CASE Embed \/ EmbedSide \/ Layer \/ Row \/ RowSide \/ Complete \/ Progress
    BY <1>4, EmbedStep, EmbedSideStep, LayerStep, RowStep, RowSideStep, CompleteStep, ProgressStep
  <1>5. CASE Normalize \/ Manifest \/ Report
    BY <1>5, NormalizeStep, ManifestStep, ReportStep
  <1>. QED  BY <1>1, <1>2, <1>3, <1>4, <1>5 DEF EvalNext

\* An evaluation that begins touches nothing.
LEMMA BeginStep ==
  ASSUME EvalInv, NEW by \in {"queue", "hand"}, NEW c \in Candidates, NEW phase \in Phases, Begin(by, c, phase),
         container' \in {None, "running", "ok", "failed"}
  PROVE  EvalInv' /\ ev.pc = "off" /\ ev'.pc = "bind" /\ ev'.by = by /\ output' = output
  <1>1. UNCHANGED <<output, data, side, made, progress, norm, normalized, report>> /\ ev.pc = "off"
    BY DEF Begin, stream, slots, results
  <1>2. ev' \in Evaluators /\ ev'.pc = "bind" /\ ev'.by = by /\ ev'.layer = -1 /\ ev'.row = 0
    BY IdleTyped, RowsZero DEF Begin, Idle, Evaluators, EvLabels
  <1>3. EvalTypeOK'
    BY <1>1, <1>2 DEF EvalInv, EvalTypeOK
  <1>4. ProgressWhole' /\ Scored'
    BY <1>1 DEF EvalInv, ProgressWhole, Scored, AllVerified, Verified, State, Exact
  <1>5. Binding' /\ Embedding' /\ Streaming' /\ Normalizing'
    BY <1>2 DEF Binding, Embedding, Streaming, Normalizing
  <1>. QED  BY <1>1, <1>2, <1>3, <1>4, <1>5 DEF EvalInv

\* Who evaluates, and what it does to the container.
LEMMA EvalFacts ==
  ASSUME EvalInv, EvalNext
  PROVE  /\ ev.pc # "off"
         /\ ev'.pc # "off" => ev'.by = ev.by /\ container' = container
         /\ container' = container \/ (ev.by = "queue" /\ container' \in {"ok", "failed"})
  <1>1. CASE Crash
    BY <1>1 DEF Crash, Exit, Idle
  <1>2. CASE Bind \/ Bound
    <2>1. CASE AfterBinding
      BY <1>2, <2>1, AfterBindingCases DEF Bind, Bound, Exit, Idle, EvalInv, EvalTypeOK, Evaluators
    <2>2. CASE ~AfterBinding
      BY <1>2, <2>2 DEF Bind, Bound, Exit, Idle, Goto, EvalInv, EvalTypeOK, Evaluators
    <2>. QED  BY <2>1, <2>2
  <1>3. CASE Initialize
    <2>1. CASE Exit("failed")
      BY <1>3, <2>1 DEF Initialize, Exit, Idle
    <2>2. CASE Goto("clearA") /\ UNCHANGED container
      BY <1>3, <2>2 DEF Initialize, Goto, EvalInv, EvalTypeOK, Evaluators
    <2>3. CASE ev' = [ev EXCEPT !.pc = "layer", !.layer = progress.layer + 1, !.input = progress.slot] /\ UNCHANGED container
      BY <1>3, <2>3 DEF Initialize, EvalInv, EvalTypeOK, Evaluators
    <2>. QED  BY <1>3, <2>1, <2>2, <2>3 DEF Initialize
  <1>4. CASE ClearA \/ ClearOut \/ ClearIn
    BY <1>4 DEF ClearA, ClearOut, ClearIn, Clear, EvalInv, EvalTypeOK, Evaluators
  <1>5. CASE Embed \/ EmbedSide
    BY <1>5 DEF Embed, EmbedSide, Goto, GotoRow, EvalInv, EvalTypeOK, Evaluators
  <1>6. CASE Layer \/ RowSide \/ Progress
    BY <1>6 DEF Layer, RowSide, Progress, Goto, GotoRow, EvalInv, EvalTypeOK, Evaluators
  <1>7. CASE Row
    <2>1. CASE Exit("failed")
      BY <1>7, <2>1 DEF Row, Exit, Idle
    <2>2. CASE UNCHANGED container /\ \E l \in EvLabels, r \in Int : ev' = [ev EXCEPT !.pc = l, !.row = r] \/ ev' = [ev EXCEPT !.pc = l]
      BY <1>7, <2>2 DEF Row, EvalInv, EvalTypeOK, Evaluators
    <2>3. ev.row + 1 \in Int /\ "row" \in EvLabels /\ "rowSide" \in EvLabels
      BY RowsZero DEF EvalInv, EvalTypeOK, Evaluators, EvLabels
    <2>. QED  BY <1>7, <2>1, <2>2, <2>3 DEF Row, Goto, GotoRow, slots
  <1>8. CASE Complete
    BY <1>8 DEF Complete, Exit, Idle, Goto, EvalInv, EvalTypeOK, Evaluators
  <1>9. CASE Normalize
    BY <1>9 DEF Normalize, Goto, GotoRow, EvalInv, EvalTypeOK, Evaluators
  <1>10. CASE Manifest
    BY <1>10 DEF Manifest, Exit, Idle, Goto, EvalInv, EvalTypeOK, Evaluators
  <1>11. CASE Report
    BY <1>11 DEF Report, Exit, Idle
  <1>. QED  BY <1>1, <1>2, <1>3, <1>4, <1>5, <1>6, <1>7, <1>8, <1>9, <1>10, <1>11 DEF EvalNext

------------------------------------------------------------------------------
(* The steps of the queue. *)

LEMMA EvalStays ==
  ASSUME EvalInv, UNCHANGED evalVars
  PROVE  EvalInv'
  <1>1. UNCHANGED <<ev, container, output, data, side, made, progress, norm, normalized, report>>
    BY DEF evalVars, stream, slots, results
  <1>2. EvalTypeOK'
    BY <1>1 DEF EvalInv, EvalTypeOK
  <1>3. ProgressWhole' /\ Scored' /\ Binding'
    BY <1>1 DEF EvalInv, ProgressWhole, Scored, AllVerified, Verified, State, Exact, Binding
  <1>4. Embedding' /\ Streaming' /\ Normalizing'
    BY <1>1 DEF EvalInv, Embedding, Streaming, Normalizing, AllVerified, Verified, State, Output
  <1>. QED  BY <1>2, <1>3, <1>4 DEF EvalInv

\* A launch that holds the lock, or has failed, goes on.
LEMMA GoStep ==
  ASSUME IInv, NEW q \in Queues, NEW next \in Labels, Go(q, next), UNCHANGED <<baseline, evalVars>>,
         queue[q] # "off", queue[q] = "failed" => next = "off",
         next \in Sealing => original', original => original', original' \in BOOLEAN,
         next \in {"tell", "wait", "seal", "sealed"} => launched', launched => launched', launched' \in BOOLEAN,
         next \in {"seal", "sealed"} => container = "ok",
         next = "sealed" => seal' # None,
         seal' = seal \/ (seal' = report /\ Sealable /\ original /\ launched /\ container = "ok"),
         told' \in Told, told' = told \/ (told' = "CANDIDATE_QUALITY_COMPLETE_SEALED" => seal' # None)
  PROVE  IInv'
  <1>1. EvalInv'
    BY EvalStays DEF IInv
  <1>2. /\ queue' \in [Queues -> Labels]
        /\ \A o \in Queues : queue'[o] = IF o = q THEN next ELSE queue[o]
    BY DEF Go, IInv, TypeOK
  <1>3. UNCHANGED <<ev, container, output, report>>
    BY DEF evalVars, results
  <1>4. seal' \in Reports \cup {None} /\ (seal # None => seal' # None)
    BY DEF IInv, TypeOK, EvalTypeOK, Sealable
  <1>5. TypeOK'
    BY <1>1, <1>2, <1>4 DEF IInv, TypeOK, EvalInv
  <1>6. HolderInv'
    <2>1. \A o \in Queues : Holds(o)' => Holds(o)
      BY <1>2 DEF Holds
    <2>. QED  BY <1>2, <1>3, <2>1 DEF IInv, HolderInv
  <1>7. SealInv'
    <2>1. seal' # None => launched' /\ container = "ok"
      BY DEF IInv, SealInv
    <2>. QED  BY <1>2, <1>3, <1>4, <2>1 DEF IInv, SealInv
  <1>8. seal' # None => original' /\ seal'.cand = Pinned /\ Exact(Pinned, seal'.rows)
    <2>1. CASE seal' = seal
      BY <2>1 DEF IInv, ScoresExact
    <2>2. CASE seal' = report /\ Sealable /\ original
      BY <2>2 DEF IInv, ScoresExact, Sealable
    <2>. QED  BY <2>1, <2>2
  <1>9. ScoresExact'
    BY <1>3, <1>4, <1>8 DEF IInv, ScoresExact, Exact
  <1>. QED  BY <1>1, <1>5, <1>6, <1>7, <1>9 DEF IInv

\* The same for steps that leave receipt and results alone.
LEMMA PlainStep ==
  ASSUME IInv, NEW q \in Queues, NEW next \in Labels, Go(q, next), UNCHANGED <<baseline, evalVars>>,
         queue[q] # "off", queue[q] = "failed" => next = "off",
         next \in Sealing => original,
         next \in {"tell", "wait", "seal", "sealed"} => launched,
         next \in {"seal", "sealed"} => container = "ok",
         next # "sealed",
         UNCHANGED <<original, launched, seal>>,
         told' \in Told, told' = told \/ told' # "CANDIDATE_QUALITY_COMPLETE_SEALED"
  PROVE  IInv'
  <1>1. original \in BOOLEAN /\ launched \in BOOLEAN
    BY DEF IInv, TypeOK
  <1>2. original' \in BOOLEAN /\ launched' \in BOOLEAN
    BY <1>1
  <1>. QED  BY <1>2, GoStep

LEMMA StartStep ==
  ASSUME IInv, NEW q \in Queues, Start(q)
  PROVE  IInv'
  <1>1. queue[q] = "off" /\ UNCHANGED <<baseline, evalVars, original, launched, seal, told>>
    BY DEF Start, Step, files
  <1>2. UNCHANGED <<ev, container, output, report>>
    BY <1>1 DEF evalVars, results
  <1>3. \/ (\A o \in Queues : ~Holds(o)) /\ queue' = [queue EXCEPT ![q] = "guard"]
        \/ queue' = [queue EXCEPT ![q] = "failed"]
    BY DEF Start, Step, Go
  <1>4. EvalInv'
    BY <1>1, EvalStays DEF IInv
  <1>5. TypeOK'
    BY <1>1, <1>3, <1>4 DEF IInv, TypeOK, EvalInv, Labels
  <1>6. HolderInv'
    BY <1>1, <1>2, <1>3 DEF IInv, TypeOK, HolderInv, Holds
  <1>7. SealInv' /\ ScoresExact'
    BY <1>1, <1>2, <1>3 DEF IInv, TypeOK, SealInv, Sealing, ScoresExact, Exact
  <1>. QED  BY <1>4, <1>5, <1>6, <1>7 DEF IInv

LEMMA WaitStep ==
  ASSUME IInv, UNCHANGED <<queue, original, launched, seal, evalVars>>,
         baseline' \in {"running", "ok", "failed"},
         told' \in Told, told' = told \/ told' # "CANDIDATE_QUALITY_COMPLETE_SEALED"
  PROVE  IInv'
  <1>1. UNCHANGED <<ev, container, output, report>>
    BY DEF evalVars, results
  <1>2. EvalInv'
    BY EvalStays DEF IInv
  <1>3. TypeOK'
    BY <1>2 DEF IInv, TypeOK, EvalInv
  <1>4. HolderInv'
    BY <1>1 DEF IInv, HolderInv, Holds
  <1>5. SealInv' /\ ScoresExact'
    BY <1>1 DEF IInv, SealInv, ScoresExact, Exact
  <1>. QED  BY <1>2, <1>3, <1>4, <1>5 DEF IInv

\* The container begins: nobody waits for it yet, and nothing is sealed.
LEMMA RunStep ==
  ASSUME IInv, NEW q \in Queues, Run(q)
  PROVE  IInv'
  <1>1. queue[q] = "run" /\ UNCHANGED <<baseline, original, launched, seal, told>>
    BY DEF Run, files
  <1>2. CASE container = None /\ container' = "running" /\ Begin("queue", Pinned, "all") /\ Go(q, "receipt")
    <2>1. /\ EvalInv' /\ ev'.pc = "bind" /\ ev'.by = "queue"
          /\ UNCHANGED report
      BY <1>2, BeginStep, PinnedAssumption DEF IInv, Phases, Begin, results
    <2>2. queue' = [queue EXCEPT ![q] = "receipt"] /\ queue \in [Queues -> Labels]
      BY <1>2 DEF Go, IInv, TypeOK
    <2>3. TypeOK'
      BY <1>1, <2>1, <2>2 DEF IInv, TypeOK, EvalInv, Labels
    <2>4. HolderInv'
      BY <1>1, <1>2, <2>1, <2>2 DEF IInv, HolderInv, Holds
    <2>5. "ok" # None
      BY NoneAssumption
    <2>6. SealInv'
      BY <1>1, <1>2, <2>2, <2>5 DEF IInv, SealInv, Sealing
    <2>7. ScoresExact'
      BY <1>1, <2>1 DEF IInv, ScoresExact, Exact, EvalInv, Scored
    <2>. QED  BY <2>1, <2>3, <2>4, <2>6, <2>7 DEF IInv
  <1>3. CASE Go(q, "failed") /\ UNCHANGED evalVars
    BY <1>1, <1>3, PlainStep DEF Labels, Sealing, IInv, TypeOK
  <1>. QED  BY <1>2, <1>3 DEF Run

LEMMA ByHandStep ==
  ASSUME IInv, NEW c \in Candidates, NEW phase \in Phases, ByHand(c, phase)
  PROVE  IInv'
  <1>1. Begin("hand", c, phase) /\ UNCHANGED <<container, queue, baseline, original, launched, seal, told>>
    BY DEF ByHand, files
  <1>2. EvalInv' /\ ev'.by = "hand" /\ UNCHANGED <<output, report>>
    <2>1. container' \in {None, "running", "ok", "failed"}
      BY <1>1 DEF IInv, TypeOK, EvalTypeOK
    <2>. QED  BY <1>1, <2>1, BeginStep DEF IInv, Begin, results
  <1>3. TypeOK'
    BY <1>1, <1>2 DEF IInv, TypeOK, EvalInv
  <1>4. HolderInv'
    BY <1>1, <1>2 DEF IInv, HolderInv, Holds
  <1>5. SealInv' /\ ScoresExact'
    BY <1>1, <1>2 DEF IInv, SealInv, ScoresExact, Exact
  <1>. QED  BY <1>2, <1>3, <1>4, <1>5 DEF IInv

LEMMA EvaluateStep ==
  ASSUME IInv, Evaluate
  PROVE  IInv'
  <1>1. EvalNext /\ UNCHANGED <<queue, baseline, original, launched, seal, told>>
    BY DEF Evaluate, files
  <1>2. EvalInv'
    BY <1>1, EvalStep DEF IInv
  <1>3. /\ ev'.pc # "off" => ev.pc # "off" /\ ev'.by = ev.by /\ container' = container
        /\ container' = container \/ (container = "running" /\ container' \in {"ok", "failed"})
    BY <1>1, EvalFacts DEF IInv, HolderInv
  <1>4. TypeOK'
    BY <1>1, <1>2 DEF IInv, TypeOK, EvalInv
  <1>5. HolderInv'
    BY <1>1, <1>3 DEF IInv, HolderInv, Holds
  <1>6. SealInv'
    BY <1>1, <1>3 DEF IInv, SealInv
  <1>7. ScoresExact'
    BY <1>1, <1>2 DEF IInv, ScoresExact, EvalInv, Scored, Exact
  <1>. QED  BY <1>2, <1>4, <1>5, <1>6, <1>7 DEF IInv

\* Steps that only move, or end, a launch.
LEMMA MovingStep ==
  ASSUME IInv, NEW q \in Queues, Guard(q) \/ Fresh(q) \/ OwnerClear(q) \/ Wait(q) \/ Die(q)
  PROVE  IInv'
  <1>1. UNCHANGED <<baseline, evalVars, original, launched, seal, told>>
    BY DEF Guard, Fresh, OwnerClear, Wait, Die, Step, files
  <1>2. PICK next \in {"off", "failed", "baseline", "gpu", "run", "seal"} :
          /\ Go(q, next)
          /\ queue[q] # "off"
          /\ queue[q] = "failed" => next = "off"
          /\ next \in {"gpu", "run", "seal"} => queue[q] \in Sealing
          /\ next = "seal" => queue[q] = "wait" /\ container = "ok"
    BY DEF Guard, Fresh, OwnerClear, Wait, Die, Step, Sealing
  <1>3. next \in {"tell", "wait", "seal", "sealed"} => launched
    BY <1>2 DEF IInv, SealInv
  <1>4. next \in Sealing => original
    BY <1>2 DEF IInv, SealInv, Sealing
  <1>5. told' \in Told /\ next \in Labels /\ next # "sealed"
    BY <1>1, <1>2 DEF IInv, TypeOK, Labels
  <1>. QED  BY <1>1, <1>2, <1>3, <1>4, <1>5, PlainStep

LEMMA SealBaselineStep ==
  ASSUME IInv, NEW q \in Queues, SealBaseline(q)
  PROVE  IInv'
  <1>1. UNCHANGED <<baseline, evalVars, launched, seal>> /\ queue[q] = "baseline"
    BY DEF SealBaseline, Step
  <1>2. CASE baseline = "ok"
    <2>1. Go(q, "fresh") /\ told' = "SEALING_ORIGINAL_Q3_RESULTS" /\ original' = TRUE
      BY <1>2 DEF SealBaseline, Step
    <2>2. launched' \in BOOLEAN
      BY <1>1 DEF IInv, TypeOK
    <2>. QED  BY <1>1, <2>1, <2>2, GoStep DEF Labels, Told, Notices
  <1>3. CASE baseline # "ok"
    <2>1. Go(q, "failed") /\ UNCHANGED told /\ original' = (original \/ FALSE)
      BY <1>3 DEF SealBaseline, Step
    <2>2. original \in BOOLEAN /\ told' \in Told
      BY <1>1, <2>1 DEF IInv, TypeOK
    <2>3. UNCHANGED original
      BY <2>1, <2>2
    <2>. QED  BY <1>1, <2>1, <2>2, <2>3, PlainStep DEF Labels, Sealing
  <1>. QED  BY <1>2, <1>3

LEMMA ReceiptStep ==
  ASSUME IInv, NEW q \in Queues, Receipt(q) \/ Tell(q) \/ TellFailed(q)
  PROVE  IInv'
  <1>1. UNCHANGED <<baseline, evalVars, original, seal>>
    BY DEF Receipt, Tell, TellFailed, Step
  <1>2. PICK next \in {"tell", "wait", "off"} :
          /\ Go(q, next)
          /\ queue[q] # "off"
          /\ queue[q] = "failed" => next = "off"
          /\ next # "off" => queue[q] \in Sealing
          /\ next # "off" => launched'
    BY DEF Receipt, Tell, TellFailed, Step, Sealing, IInv, SealInv
  <1>3. launched' \in BOOLEAN /\ (launched => launched')
    BY DEF Receipt, Tell, TellFailed, IInv, TypeOK
  <1>4. told' \in Told /\ (told' = told \/ told' # "CANDIDATE_QUALITY_COMPLETE_SEALED")
    BY DEF Receipt, Tell, TellFailed, IInv, TypeOK, Told, Notices
  <1>5. original' \in BOOLEAN /\ (original => original') /\ (next \in Sealing => original')
    BY <1>1, <1>2 DEF IInv, TypeOK, SealInv, Sealing
  <1>. QED  BY <1>1, <1>2, <1>3, <1>4, <1>5, GoStep DEF Labels

LEMMA SealCandidateStep ==
  ASSUME IInv, NEW q \in Queues, SealCandidate(q) \/ TellSealed(q)
  PROVE  IInv'
  <1>1. /\ UNCHANGED <<baseline, evalVars, original, launched>>
        /\ queue[q] \in {"seal", "sealed"} /\ original /\ launched /\ container = "ok"
    BY DEF SealCandidate, TellSealed, Step, IInv, SealInv, Sealing
  <1>2. original' \in BOOLEAN /\ launched' \in BOOLEAN /\ original' /\ launched'
    BY <1>1 DEF IInv, TypeOK
  <1>3. CASE SealCandidate(q) /\ Sealable
    <2>1. Go(q, "sealed") /\ seal' = report /\ UNCHANGED told /\ report # None
      BY <1>3 DEF SealCandidate, Step, Sealable
    <2>2. told' \in Told
      BY <2>1 DEF IInv, TypeOK
    <2>. QED  BY <1>1, <1>2, <1>3, <2>1, <2>2, GoStep DEF Labels
  <1>4. CASE SealCandidate(q) /\ ~Sealable
    <2>1. Go(q, "failed") /\ UNCHANGED <<seal, told>>
      BY <1>4 DEF SealCandidate, Step
    <2>2. told' \in Told
      BY <2>1 DEF IInv, TypeOK
    <2>. QED  BY <1>1, <1>2, <2>1, <2>2, GoStep DEF Labels
  <1>5. CASE TellSealed(q)
    <2>1. Go(q, "off") /\ UNCHANGED seal /\ told' \in Told /\ seal # None
      BY <1>5 DEF TellSealed, Step, Told, Notices, IInv, SealInv
    <2>. QED  BY <1>1, <1>2, <2>1, GoStep DEF Labels
  <1>. QED  BY <1>3, <1>4, <1>5

LEMMA WaitingStep ==
  ASSUME IInv, (\E q \in Queues : WaitBaseline(q) \/ WaitOwner(q)) \/ (\E code \in {"ok", "failed"} : BaselineExit(code))
  PROVE  IInv'
  <1>1. /\ UNCHANGED <<queue, original, launched, seal, evalVars>>
        /\ baseline' \in {"running", "ok", "failed"}
        /\ told' \in Told
        /\ told' = told \/ told' # "CANDIDATE_QUALITY_COMPLETE_SEALED"
    BY DEF WaitBaseline, WaitOwner, BaselineExit, files, IInv, TypeOK, Told, Notices
  <1>. QED  BY <1>1, WaitStep

LEMMA InvInit == Init => IInv
  <1>. SUFFICES ASSUME Init PROVE IInv
    OBVIOUS
  <1>1. /\ ev = Idle /\ ev.pc = "off" /\ container = None /\ output = "none" /\ progress = None
        /\ data = [s \in Slots |-> [r \in Rows |-> None]]
        /\ side = [s \in Slots |-> [r \in Rows |-> None]]
        /\ made = [s \in Slots |-> None]
        /\ norm = [r \in Rows |-> None]
        /\ normalized = None /\ report = None
    BY DEF Init, EvalInit, Idle
  <1>2. EvalTypeOK
    BY <1>1, IdleTyped DEF EvalTypeOK
  <1>3. ProgressWhole /\ Binding /\ Embedding /\ Streaming /\ Normalizing /\ Scored
    BY <1>1 DEF ProgressWhole, Binding, Embedding, Streaming, Normalizing, Scored
  <1>4. TypeOK
    BY <1>2 DEF Init, TypeOK, Labels, Told, Notices
  <1>5. None # "CANDIDATE_QUALITY_COMPLETE_SEALED"
    BY ToldAssumption DEF Notices
  <1>6. HolderInv /\ SealInv /\ ScoresExact
    BY <1>1, <1>5 DEF Init, HolderInv, Holds, SealInv, Sealing, ScoresExact
  <1>. QED  BY <1>2, <1>3, <1>4, <1>6 DEF IInv, EvalInv

LEMMA InvNext == IInv /\ [Next]_vars => IInv'
  <1>. SUFFICES ASSUME IInv, [Next]_vars PROVE IInv'
    OBVIOUS
  <1>1. CASE Evaluate
    BY <1>1, EvaluateStep
  <1>2. ASSUME NEW q \in Queues, Start(q) \/ Run(q)
        PROVE  IInv'
    BY <1>2, StartStep, RunStep
  <1>3. ASSUME NEW q \in Queues, Guard(q) \/ Fresh(q) \/ OwnerClear(q) \/ Wait(q) \/ Die(q)
        PROVE  IInv'
    BY <1>3, MovingStep
  <1>4. ASSUME NEW q \in Queues, SealBaseline(q) \/ Receipt(q) \/ Tell(q) \/ SealCandidate(q) \/ TellSealed(q) \/ TellFailed(q)
        PROVE  IInv'
    BY <1>4, SealBaselineStep, ReceiptStep, SealCandidateStep
  <1>5. ASSUME (\E q \in Queues : WaitBaseline(q) \/ WaitOwner(q)) \/ (\E code \in {"ok", "failed"} : BaselineExit(code))
        PROVE  IInv'
    BY <1>5, WaitingStep
  <1>6. ASSUME NEW c \in Candidates, NEW phase \in Phases, ByHand(c, phase)
        PROVE  IInv'
    BY <1>6, ByHandStep
  <1>7. CASE UNCHANGED vars
    <2>1. UNCHANGED <<queue, original, launched, seal, evalVars, baseline, told>>
      BY <1>7 DEF vars, files
    <2>. QED  BY <2>1, WaitStep DEF IInv, TypeOK
  <1>. QED  BY <1>1, <1>2, <1>3, <1>4, <1>5, <1>6, <1>7 DEF Next

\* Only an evaluator that runs ends the container, and only a first launch begins it.
LEMMA ContainerIsFinal ==
  ASSUME IInv, [Next]_vars, container' # container
  PROVE  container \in {None, "running"}
  <1>1. ASSUME UNCHANGED evalVars \/ UNCHANGED container
        PROVE  FALSE
    BY <1>1 DEF evalVars
  <1>2. CASE Evaluate
    <2>1. EvalNext
      BY <1>2 DEF Evaluate
    <2>. QED  BY <2>1, EvalFacts DEF IInv, HolderInv
  <1>3. CASE \E q \in Queues : Run(q)
    BY <1>1, <1>3 DEF Run
  <1>4. ASSUME NEW q \in Queues, Start(q) \/ Guard(q) \/ WaitBaseline(q) \/ SealBaseline(q) \/ Fresh(q) \/ WaitOwner(q)
                                 \/ OwnerClear(q) \/ Receipt(q) \/ Tell(q) \/ Wait(q) \/ SealCandidate(q)
                                 \/ TellSealed(q) \/ TellFailed(q) \/ Die(q)
        PROVE  FALSE
    BY <1>1, <1>4 DEF Start, Guard, WaitBaseline, SealBaseline, Fresh, WaitOwner, OwnerClear, Receipt, Tell, Wait,
                      SealCandidate, TellSealed, TellFailed, Die, Step
  <1>5. ASSUME (\E code \in {"ok", "failed"} : BaselineExit(code)) \/ (\E c \in Candidates, phase \in Phases : ByHand(c, phase))
        PROVE  FALSE
    BY <1>1, <1>5 DEF BaselineExit, ByHand
  <1>6. CASE UNCHANGED vars
    BY <1>1, <1>6 DEF vars
  <1>. QED  BY <1>2, <1>3, <1>4, <1>5, <1>6 DEF Next

------------------------------------------------------------------------------
(* Theorems *)

LEMMA InvHolds == Spec => []IInv
  BY InvInit, InvNext, PTL DEF Spec

\* Every variable of queue and evaluation keeps its type (queue_quality.py, evaluate_pruned_quality.py).
THEOREM QueueTypes == Spec => []TypeOK
  BY InvHolds, PTL DEF IInv

\* Whatever dies when, the state progress.json names is whole: once the output is bound, initialize
\* never refuses it.
THEOREM EvaluationResumes == Spec => []ProgressWhole
  BY InvHolds, PTL DEF IInv, EvalInv

\* Reports and the sealed results score every row after every layer of the right candidate.
THEOREM ScoresAreExact == Spec => []ScoresExact
  BY InvHolds, PTL DEF IInv

\* The queue evaluates once: what its container came to is final, whichever launch died before its
\* receipt, and what is sealed has the receipt and a container that exited with 0 (run_reserved).
THEOREM QueueEvaluatesOnce == Spec => OneEvaluation
  <1>1. IInv /\ [Next]_vars => (container' # container => container \in {None, "running"})
    BY ContainerIsFinal
  <1>2. IInv /\ [Next]_vars => [container' # container => container \in {None, "running"}]_vars
    BY <1>1
  <1>3. IInv => (seal # None => launched /\ container = "ok")
    BY DEF IInv, SealInv
  <1>. QED  BY <1>2, <1>3, InvHolds, PTL DEF Spec, OneEvaluation
==============================================================================
