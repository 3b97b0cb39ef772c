---------------------------- MODULE RouteCaptureProofs ----------------------------
(***************************************************************************)
(* TypeOK, ManifestExact and SlotKept of RouteCapture for any number of    *)
(* controllers, GPUs, rows and layers.  The argument: the manifests are a  *)
(* prefix of the layers, and only their last slot is read.  Whatever still *)
(* writes, of this launch or of a dead one, works on the layer after that  *)
(* prefix and into the other slot; so the last slot stays what its         *)
(* manifest says, and what is added to it becomes the next one.  The       *)
(* embeddings get their manifest after the last of their rows.             *)
(***************************************************************************)
EXTENDS RouteCapture, TLAPS

------------------------------------------------------------------------------
(* The invariant. *)

\* The slot the layer after the last manifest reads: the embeddings before there is one.
Top == IF Contiguous = -1 THEN "state-a" ELSE manifest[Contiguous].slot
Frontier == Contiguous + 1

\* The manifests are the layers up to Contiguous, each counts its rows after its layer, and
\* COMPLETE was written when they were all there.
PrefixInv ==
  /\ Contiguous \in -1 .. NumLayers - 1
  /\ \A l \in Layers : manifest[l] # None <=> l <= Contiguous
  /\ \A l \in Layers : manifest[l] # None => \A r \in Rows : manifest[l].rows[r] = l + 1
  /\ status = "COMPLETE" => Contiguous = NumLayers - 1

\* A sidecar was made of rows after its layer; the slot that is read has no others.
FileInv ==
  /\ \A s \in Slots, r \in Rows : side[s][r] # None => side[s][r].of = side[s][r].layer + 1
  /\ \A r \in Rows : data[Top][r] \in {None, Frontier}
  /\ Contiguous # -1 => AllVerified(Top, Contiguous)

\* A worker, an orphan too, is of the layer after the last manifest.
WorkInv(g) ==
  work[g] # None =>
    /\ work[g].layer = Frontier
    /\ work[g].input = Top
    /\ work[g].pc = "side" => work[g].row \in Rows /\ data[Other(Top)][work[g].row] = Frontier + 1

\* A controller has the lock to itself, and is where the manifests say.
LockInv == \A c, d \in Controllers : Holds(c) /\ Holds(d) => c = d

ControllerInv(c) ==
  /\ Holds(c) => args[c] \in Arguments
  /\ pc[c] \in {"off", "failed", "preflight", "scan"} => at[c] = Start0
  /\ pc[c] \in {"embed", "embedSide", "embedManifest"} => Contiguous = -1 /\ at[c].input = Top /\ at[c].layer = Frontier
  /\ pc[c] \in {"layer", "join", "final"} => at[c].layer = Frontier /\ (pc[c] # "final" => at[c].input = Top)
  /\ pc[c] = "join" => at[c].layer \in Layers /\ \A g \in Gpus : work[g] # None
  /\ pc[c] = "remove" => at[c].layer = Contiguous /\ Contiguous # -1 /\ at[c].input = Other(Top)
  /\ pc[c] = "final" => args[c].last < Frontier
  /\ Holds(c) /\ pc[c] \notin {"preflight", "join"} => \A g \in Gpus : work[g] = None

IInv ==
  /\ TypeOK /\ PrefixInv /\ FileInv /\ LockInv
  /\ \A g \in Gpus : WorkInv(g)
  /\ \A c \in Controllers : ControllerInv(c)
------------------------------------------------------------------------------
(* Numbers, slots, and the length of the prefix. *)

LEMMA Sizes ==
  /\ NumLayers \in Nat /\ NumLayers >= 1 /\ NumRows \in Nat /\ NumRows >= 1
  /\ Layers \subseteq Nat /\ 0 \in Layers /\ Rows \subseteq Nat /\ 0 \in Rows /\ Gpus \subseteq Nat
  /\ Start0 \in Places
  BY SizesAssumption DEF Layers, Rows, Gpus, Start0, Slots, Places

LEMMA TwoSlots ==
  ASSUME NEW s \in Slots
  PROVE  Other(s) \in Slots /\ Other(s) # s /\ Other(Other(s)) = s
  BY DEF Other, Slots

\* Manifests up to n, and no others: n is the length Contiguous counts.
LEMMA PrefixMax ==
  ASSUME NEW m, NEW n \in -1 .. NumLayers - 1,
         \A l \in Layers : m[l] # None <=> l <= n
  PROVE  Max({-1} \cup {l \in Layers : \A k \in 0 .. l : m[k] # None}) = n
  <1>. DEFINE S == {-1} \cup {l \in Layers : \A k \in 0 .. l : m[k] # None}
  <1>1. S \subseteq Int
    BY DEF Layers
  <1>2. ASSUME NEW l \in S
        PROVE  l <= n
    BY <1>2, Sizes DEF Layers
  <1>3. n \in S
    BY Sizes DEF Layers
  <1>4. \A x \in S : (\A y \in S : x >= y) <=> x = n
    BY <1>1, <1>2, <1>3
  <1>. HIDE DEF S
  <1>5. Max(S) = CHOOSE x \in S : \A y \in S : x >= y
    BY DEF Max
  <1>6. Max(S) = n
    BY <1>3, <1>4, <1>5
  <1>. QED  BY <1>6 DEF S

LEMMA TopIs ==
  ASSUME IInv
  PROVE  /\ Top \in Slots /\ Frontier \in 0 .. NumLayers /\ Frontier = Contiguous + 1
         /\ Contiguous \in -1 .. NumLayers - 1
         /\ Contiguous # -1 => Contiguous \in Layers /\ manifest[Contiguous] \in Manifests
         /\ Contiguous = -1 => Top = "state-a"
  <1>1. Contiguous \in -1 .. NumLayers - 1 /\ Frontier \in 0 .. NumLayers
    BY Sizes DEF IInv, PrefixInv, Frontier
  <1>2. ASSUME Contiguous # -1
        PROVE  Contiguous \in Layers /\ manifest[Contiguous] \in Manifests
    <2>1. Contiguous \in Layers
      BY <1>1, <1>2, Sizes DEF Layers
    <2>2. manifest[Contiguous] # None
      BY <1>1, <2>1 DEF IInv, PrefixInv
    <2>. QED  BY <2>1, <2>2 DEF IInv, TypeOK
  <1>3. Top \in Slots
    BY <1>2 DEF Top, Slots, Manifests
  <1>. QED  BY <1>1, <1>2, <1>3 DEF Top, Frontier

\* Without a new manifest the slot that is read stays the same.
LEMMA TopStays ==
  ASSUME manifest' = manifest
  PROVE  Contiguous' = Contiguous /\ Top' = Top /\ Frontier' = Frontier
  BY DEF Contiguous, Top, Frontier

------------------------------------------------------------------------------
(* What an action leaves alone. *)

LEMMA OffOthers ==
  ASSUME IInv, NEW c \in Controllers, Holds(c), NEW d \in Controllers, d # c
  PROVE  pc[d] \in {"off", "failed"} /\ at[d] = Start0
  BY DEF IInv, LockInv, ControllerInv, Holds

\* The holder of the lock moves: the others are off, whatever they are told later.
LEMMA HolderMoves ==
  ASSUME IInv, NEW c \in Controllers, Holds(c), NEW label \in Labels, Goto(c, label),
         \A d \in Controllers : d # c => at'[d] = at[d]
  PROVE  LockInv' /\ \A d \in Controllers : d # c => ControllerInv(d)'
  <1>1. \A d \in Controllers : d # c => pc'[d] = pc[d]
    BY DEF Goto, IInv, TypeOK
  <1>2. \A d \in Controllers : d # c => pc'[d] \in {"off", "failed"} /\ at'[d] = Start0
    BY <1>1, OffOthers
  <1>. QED  BY <1>2 DEF LockInv, ControllerInv, Holds, Start0

\* What may be said in status.json: COMPLETE only with the last manifest.
Says == status' \in States \cup {status} /\ (status' = "COMPLETE" => status = "COMPLETE" \/ Contiguous = NumLayers - 1)

LEMMA FilesStay ==
  ASSUME IInv, UNCHANGED <<files, manifest>>, Says
  PROVE  PrefixInv' /\ FileInv'
  BY TopStays DEF IInv, PrefixInv, FileInv, files, AllVerified, Verified, Says

LEMMA WorkStays ==
  ASSUME IInv, UNCHANGED <<work, files, manifest>>
  PROVE  \A g \in Gpus : WorkInv(g)'
  BY TopStays DEF IInv, WorkInv, files

\* A step of the holder of the lock that writes no file, starts no worker and adds no manifest.
LEMMA HolderQuiet ==
  ASSUME IInv, NEW c \in Controllers, Holds(c), NEW label \in Labels, Goto(c, label),
         at' \in [Controllers -> Places],
         args' \in [Controllers -> Arguments \cup {None}],
         \A d \in Controllers : d # c => at'[d] = at[d],
         UNCHANGED <<work, files, manifest>>, Says,
         ControllerInv(c)'
  PROVE  IInv'
  <1>1. TypeOK'
    BY DEF IInv, TypeOK, Goto, files, Says
  <1>2. PrefixInv' /\ FileInv'
    BY FilesStay
  <1>3. LockInv' /\ \A d \in Controllers : ControllerInv(d)'
    BY HolderMoves
  <1>. QED  BY <1>1, <1>2, <1>3, WorkStays DEF IInv

\* A controller that ends, or is told that it did: nothing else has changed.
LEMMA LetsGo ==
  ASSUME IInv, NEW c \in Controllers, NEW label \in {"off", "failed"}, Goto(c, label),
         at' \in [Controllers -> Places], at'[c] = Start0,
         args' \in [Controllers -> Arguments \cup {None}],
         \A d \in Controllers : d # c => at'[d] = at[d] /\ args'[d] = args[d],
         UNCHANGED <<work, files, manifest>>, Says
  PROVE  IInv'
  <1>1. pc'[c] = label /\ \A d \in Controllers : d # c => pc'[d] = pc[d]
    BY DEF Goto, IInv, TypeOK
  <1>2. TypeOK'
    BY DEF IInv, TypeOK, Goto, files, Says, Labels
  <1>3. LockInv'
    BY <1>1 DEF IInv, LockInv, Holds
  <1>4. ASSUME NEW d \in Controllers
        PROVE  ControllerInv(d)'
    <2>1. CASE d = c
      BY <2>1, <1>1 DEF ControllerInv, Holds
    <2>2. CASE d # c
      BY <2>2, <1>1, TopStays DEF IInv, ControllerInv, Holds
    <2>. QED  BY <2>1, <2>2
  <1>. QED  BY <1>2, <1>3, <1>4, FilesStay, WorkStays DEF IInv

LEMMA Ends ==
  ASSUME IInv, NEW c \in Controllers, NEW label \in {"off", "failed"}, End(c, label),
         UNCHANGED <<work, files, manifest>>, Says
  PROVE  IInv'
  <1>1. /\ Goto(c, label)
        /\ at' \in [Controllers -> Places] /\ at'[c] = Start0
        /\ args' \in [Controllers -> Arguments \cup {None}]
        /\ \A d \in Controllers : d # c => at'[d] = at[d] /\ args'[d] = args[d]
    BY Sizes DEF End, IInv, TypeOK
  <1>. QED  BY <1>1, LetsGo

------------------------------------------------------------------------------
(* The controller, up to its first layer. *)

LEMMA RouteInit == Init => IInv
  <1>. SUFFICES ASSUME Init PROVE IInv
    OBVIOUS
  <1>1. TypeOK
    BY Sizes DEF Init, TypeOK, Labels, States
  <1>2. Contiguous = -1
    <2>1. -1 \in -1 .. NumLayers - 1
      BY Sizes
    <2>2. \A l \in Layers : manifest[l] # None <=> l <= -1
      BY DEF Init, Layers
    <2>. QED  BY <2>1, <2>2, PrefixMax DEF Contiguous
  <1>3. PrefixInv
    <2>1. \A l \in Layers : manifest[l] = None /\ ~(l <= -1)
      BY DEF Init, Layers
    <2>2. status # "COMPLETE"
      BY NoneAssumption DEF Init, States
    <2>. QED  BY <1>2, <2>1, <2>2, Sizes DEF PrefixInv
  <1>4. FileInv
    BY <1>2 DEF Init, FileInv, Top, Slots
  <1>. QED  BY <1>1, <1>3, <1>4 DEF Init, IInv, WorkInv, LockInv, ControllerInv, Holds, Start0

LEMMA LaunchInv == ASSUME IInv, NEW c \in Controllers, NEW a \in Arguments, Launch(c, a) PROVE IInv'
  <1>1. UNCHANGED <<work, files, manifest>> /\ Says
    BY DEF Launch, Says, States
  <1>2. CASE \E o \in Controllers : Holds(o)
    BY <1>1, <1>2, Ends DEF Launch
  <1>3. CASE ~\E o \in Controllers : Holds(o)
    <2>1. Goto(c, "preflight") /\ args' = [args EXCEPT ![c] = a] /\ at' = at
      BY <1>3 DEF Launch
    <2>2. pc'[c] = "preflight" /\ args'[c] = a /\ \A d \in Controllers : d # c => pc'[d] = pc[d]
      BY <2>1 DEF Goto, IInv, TypeOK
    <2>3. \A d \in Controllers : pc[d] \in {"off", "failed"} /\ at[d] = Start0
      BY <1>3 DEF IInv, ControllerInv, Holds
    <2>4. ASSUME NEW d \in Controllers
          PROVE  ControllerInv(d)'
      BY <2>1, <2>2, <2>3 DEF ControllerInv, Holds
    <2>5. LockInv'
      BY <2>2, <2>3 DEF LockInv, Holds
    <2>6. TypeOK'
      BY <1>1, <2>1 DEF Says, IInv, TypeOK, Goto, Labels, files
    <2>. QED  BY <1>1, <2>4, <2>5, <2>6, FilesStay, WorkStays DEF IInv
  <1>. QED  BY <1>2, <1>3

LEMMA PreflightInv == ASSUME IInv, NEW c \in Controllers, Preflight(c) PROVE IInv'
  <1>1. Holds(c) /\ ControllerInv(c) /\ at[c] = Start0
    BY DEF Preflight, Holds, IInv, ControllerInv
  <1>2. CASE \E g \in Gpus : work[g] # None
    BY <1>2, Ends DEF Preflight, Says, States
  <1>3. CASE ~\E g \in Gpus : work[g] # None
    <2>1. Move(c, "scan") /\ UNCHANGED <<work, files, manifest, status>>
      BY <1>3 DEF Preflight
    <2>2. pc'[c] = "scan"
      BY <2>1 DEF Move, Goto, IInv, TypeOK
    <2>3. ControllerInv(c)'
      BY <1>1, <1>3, <2>1, <2>2 DEF Move, ControllerInv, Holds
    <2>. QED  BY <1>1, <2>1, <2>3, HolderQuiet DEF Move, Says, Labels, IInv, TypeOK
  <1>. QED  BY <1>2, <1>3

LEMMA ScanInv == ASSUME IInv, NEW c \in Controllers, Scan(c) PROVE IInv'
  <1>1. Holds(c) /\ ControllerInv(c) /\ at[c] = Start0 /\ \A g \in Gpus : work[g] = None
    BY DEF Scan, Holds, IInv, ControllerInv
  <1>2. UNCHANGED <<work, files, manifest, status>>
    BY DEF Scan
  <1>3. CASE Contiguous # -1
    <2>. DEFINE a == [layer |-> Contiguous + 1, row |-> 0, input |-> manifest[Contiguous].slot]
    <2>1. MoveAt(c, "layer", a)
      BY <1>3 DEF Scan
    <2>2. a \in Places /\ a.layer = Frontier /\ a.input = Top
      BY <1>3, TopIs, Sizes DEF Manifests, Places, Frontier, Top
    <2>. HIDE DEF a
    <2>3. pc'[c] = "layer" /\ at'[c] = a /\ args' = args
      BY <2>1 DEF MoveAt, Goto, IInv, TypeOK
    <2>4. ControllerInv(c)'
      BY <1>1, <1>2, <2>2, <2>3, TopStays DEF ControllerInv, Holds
    <2>. QED  BY <1>1, <1>2, <2>1, <2>2, <2>4, HolderQuiet DEF MoveAt, Says, Labels, IInv, TypeOK
  <1>4. CASE Contiguous = -1
    <2>1. PICK label \in {"layer", "embed"} : Move(c, label)
      BY <1>4 DEF Scan
    <2>2. pc'[c] = label /\ at' = at /\ args' = args
      BY <2>1 DEF Move, Goto, IInv, TypeOK
    <2>3. at[c].layer = Frontier /\ at[c].input = Top
      BY <1>1, <1>4 DEF Start0, Frontier, Top
    <2>4. ControllerInv(c)'
      BY <1>1, <1>2, <1>4, <2>2, <2>3, TopStays DEF ControllerInv, Holds
    <2>. QED  BY <1>1, <1>2, <2>1, <2>2, <2>4, HolderQuiet DEF Move, Says, Labels, IInv, TypeOK
  <1>. QED  BY <1>3, <1>4
\* The holder of the lock writes files, and no worker runs.
LEMMA HolderWrites ==
  ASSUME IInv, NEW c \in Controllers, Holds(c), NEW label \in Labels, Goto(c, label),
         \A g \in Gpus : work[g] = None,
         at' \in [Controllers -> Places],
         \A d \in Controllers : d # c => at'[d] = at[d],
         UNCHANGED <<args, work, manifest, status>>,
         data' \in [Slots -> [Rows -> Values \cup {None}]],
         side' \in [Slots -> [Rows -> Sidecars \cup {None}]],
         embedded' \in BOOLEAN,
         FileInv', ControllerInv(c)'
  PROVE  IInv'
  <1>1. TypeOK'
    BY DEF IInv, TypeOK, Goto
  <1>2. PrefixInv'
    BY TopStays DEF IInv, PrefixInv
  <1>3. LockInv' /\ \A d \in Controllers : ControllerInv(d)'
    BY HolderMoves
  <1>4. \A g \in Gpus : WorkInv(g)'
    BY DEF WorkInv
  <1>. QED  BY <1>1, <1>2, <1>3, <1>4 DEF IInv

LEMMA EmbedInv == ASSUME IInv, NEW c \in Controllers, Embed(c) PROVE IInv'
  <1>1. Holds(c) /\ ControllerInv(c) /\ pc[c] = "embed"
    BY DEF Embed, Holds, IInv
  <1>2. Contiguous = -1 /\ Frontier = 0 /\ Top = "state-a" /\ \A g \in Gpus : work[g] = None
    BY <1>1 DEF ControllerInv, Frontier, Top
  <1>. DEFINE r == at[c].row
  <1>3. r \in Rows /\ at[c] \in Places
    BY DEF IInv, TypeOK, Places
  <1>4. data' = [data EXCEPT !["state-a"][r] = 0] /\ side' = side /\ embedded' = embedded
    BY DEF Embed, SaveData
  <1>5. pc'[c] = "embedSide" /\ Goto(c, "embedSide") /\ UNCHANGED <<args, at, work, manifest, status>>
    BY DEF Embed, Move, Goto, IInv, TypeOK
  <1>6. 0 \in Values /\ "state-a" \in Slots
    BY Sizes DEF Values, Slots
  <1>. HIDE DEF r
  <1>7. /\ data' \in [Slots -> [Rows -> Values \cup {None}]]
        /\ \A q \in Rows : data'["state-a"][q] \in {None, 0}
    BY <1>2, <1>3, <1>4, <1>6 DEF IInv, TypeOK, FileInv
  <1>8. FileInv'
    BY <1>2, <1>4, <1>5, <1>7, TopStays DEF IInv, FileInv
  <1>9. ControllerInv(c)'
    BY <1>1, <1>2, <1>5, TopStays DEF ControllerInv, Holds
  <1>. QED  BY <1>1, <1>2, <1>4, <1>5, <1>7, <1>8, <1>9, HolderWrites DEF IInv, TypeOK, Labels

LEMMA EmbedSideInv == ASSUME IInv, NEW c \in Controllers, EmbedSide(c) PROVE IInv'
  <1>1. Holds(c) /\ ControllerInv(c) /\ pc[c] = "embedSide"
    BY DEF EmbedSide, Holds, IInv
  <1>2. Contiguous = -1 /\ Frontier = 0 /\ Top = "state-a" /\ \A g \in Gpus : work[g] = None
    BY <1>1 DEF ControllerInv, Frontier, Top
  <1>. DEFINE r == at[c].row
  <1>3. r \in Rows /\ at[c] \in Places /\ at[c].input = Top /\ at[c].layer = 0
    BY <1>1, <1>2 DEF IInv, TypeOK, Places, ControllerInv
  <1>4. UNCHANGED <<args, work, manifest, status, data>>
    BY DEF EmbedSide, SaveSide, MoveAt, Move
  <1>5. 0 \in Values /\ "state-a" \in Slots /\ -1 \in -1 .. NumLayers - 1
    BY Sizes DEF Values, Slots
  <1>6. data["state-a"][r] = 0
    BY <1>2, <1>3 DEF EmbedSide, SaveSide, IInv, FileInv
  <1>7. side' = [side EXCEPT !["state-a"][r] = [layer |-> -1, of |-> 0]] /\ embedded' = embedded
    BY <1>6 DEF EmbedSide, SaveSide
  <1>8. \/ Goto(c, "embed") /\ at' = [at EXCEPT ![c] = [at[c] EXCEPT !.row = @ + 1]] /\ at[c].row + 1 \in Rows
        \/ Goto(c, "embedManifest") /\ at' = at
    BY DEF EmbedSide, MoveAt, Move
  <1>. HIDE DEF r
  <1>9. side' \in [Slots -> [Rows -> Sidecars \cup {None}]]
    BY <1>7, <1>3, <1>5 DEF Sidecars, IInv, TypeOK
  <1>10. ASSUME NEW s \in Slots, NEW q \in Rows, side'[s][q] # None
         PROVE  side'[s][q].of = side'[s][q].layer + 1
    <2>1. CASE s = "state-a" /\ q = r
      BY <2>1, <1>7, <1>3, <1>5 DEF IInv, TypeOK
    <2>2. CASE ~(s = "state-a" /\ q = r)
      <3>1. side'[s][q] = side[s][q]
        BY <2>2, <1>7, <1>3, <1>5 DEF IInv, TypeOK
      <3>. QED  BY <3>1, <1>10 DEF IInv, FileInv
    <2>. QED  BY <2>1, <2>2
  <1>11. FileInv'
    BY <1>2, <1>4, <1>10, TopStays DEF IInv, FileInv
  <1>12. PICK label \in {"embed", "embedManifest"} : Goto(c, label)
    BY <1>8
  <1>13. /\ at' \in [Controllers -> Places]
         /\ \A d \in Controllers : d # c => at'[d] = at[d]
         /\ at'[c].layer = at[c].layer /\ at'[c].input = at[c].input
    <2>. DEFINE a == [at[c] EXCEPT !.row = @ + 1]
    <2>1. at[c].row + 1 \in Rows => a \in Places /\ a.layer = at[c].layer /\ a.input = at[c].input
      BY <1>3 DEF Places
    <2>2. at \in [Controllers -> Places]
      BY DEF IInv, TypeOK
    <2>. HIDE DEF a
    <2>3. at' = at \/ (at[c].row + 1 \in Rows /\ at' = [at EXCEPT ![c] = a])
      BY <1>8 DEF a
    <2>. QED  BY <2>1, <2>2, <2>3
  <1>14. pc'[c] = label
    BY <1>12 DEF Goto, IInv, TypeOK
  <1>15. ControllerInv(c)'
    BY <1>1, <1>2, <1>4, <1>12, <1>13, <1>14, TopStays DEF ControllerInv, Holds
  <1>. QED  BY <1>1, <1>2, <1>4, <1>7, <1>9, <1>11, <1>12, <1>13, <1>15, HolderWrites DEF IInv, TypeOK, Labels

LEMMA EmbedManifestInv == ASSUME IInv, NEW c \in Controllers, EmbedManifest(c) PROVE IInv'
  <1>1. Holds(c) /\ ControllerInv(c) /\ pc[c] = "embedManifest"
    BY DEF EmbedManifest, Holds, IInv
  <1>2. Contiguous = -1 /\ Frontier = 0 /\ Top = "state-a" /\ \A g \in Gpus : work[g] = None
    BY <1>1 DEF ControllerInv, Frontier, Top
  <1>3. embedded' = TRUE /\ MoveAt(c, "layer", Start0) /\ UNCHANGED <<args, work, manifest, status, data, side>>
    BY DEF EmbedManifest, MoveAt
  <1>4. /\ pc'[c] = "layer" /\ at'[c] = Start0 /\ Goto(c, "layer")
        /\ at' \in [Controllers -> Places]
        /\ \A d \in Controllers : d # c => at'[d] = at[d]
    BY <1>3, Sizes DEF MoveAt, Goto, IInv, TypeOK
  <1>5. FileInv'
    BY <1>2, <1>3, TopStays DEF IInv, FileInv
  <1>6. ControllerInv(c)'
    BY <1>1, <1>2, <1>3, <1>4, TopStays DEF ControllerInv, Holds, Start0
  <1>. QED  BY <1>1, <1>2, <1>3, <1>4, <1>5, <1>6, HolderWrites DEF IInv, TypeOK, Labels

------------------------------------------------------------------------------
(* A layer. *)

\* No manifest is there for the layer that is next, so its workers start.
LEMMA LayerInv == ASSUME IInv, NEW c \in Controllers, Layer(c) PROVE IInv'
  <1>1. Holds(c) /\ ControllerInv(c) /\ pc[c] = "layer"
    BY DEF Layer, Holds, IInv
  <1>. DEFINE l == at[c].layer
  <1>2. /\ l = Frontier /\ at[c].input = Top /\ args[c] \in Arguments
        /\ at[c] \in Places /\ \A g \in Gpus : work[g] = None
    BY <1>1 DEF ControllerInv, IInv, TypeOK
  <1>3. UNCHANGED <<args, at, files, manifest>>
    BY DEF Layer, Move
  <1>4. l \in 0 .. NumLayers /\ args[c].last \in Layers
    BY <1>2 DEF Places, Arguments
  <1>5. CASE l > args[c].last
    <2>1. Goto(c, "final") /\ UNCHANGED <<work, status>>
      BY <1>5 DEF Layer, Move
    <2>2. pc'[c] = "final"
      BY <2>1 DEF Goto, IInv, TypeOK
    <2>3. args[c].last < Frontier
      BY <1>2, <1>4, <1>5, Sizes
    <2>4. ControllerInv(c)'
      BY <1>1, <1>2, <1>3, <2>1, <2>2, <2>3, TopStays DEF ControllerInv, Holds
    <2>. QED  BY <1>1, <1>3, <2>1, <2>4, HolderQuiet DEF Says, Labels, IInv, TypeOK
  <1>6. CASE ~(l > args[c].last)
    <2>1. l \in Layers /\ Frontier = Contiguous + 1 /\ Contiguous \in -1 .. NumLayers - 1
      BY <1>4, <1>6, TopIs, Sizes DEF Layers
    <2>2. manifest[l] = None
      BY <2>1, <1>2 DEF IInv, PrefixInv
    <2>3. /\ status' = "RUNNING" /\ Goto(c, "join")
          /\ work' = [g \in Gpus |-> [pc |-> "row", layer |-> l, row |-> FirstRow(g), input |-> at[c].input]]
      BY <2>2, <1>6 DEF Layer, Move
    <2>4. pc'[c] = "join"
      BY <2>3 DEF Goto, IInv, TypeOK
    <2>. HIDE DEF l
    <2>5. ASSUME NEW g \in Gpus
          PROVE  work'[g] \in Workers /\ work'[g].layer = l /\ work'[g].input = Top /\ work'[g].pc = "row"
      BY <2>1, <2>3, <1>2, TopIs, Sizes DEF Workers, FirstRow
    <2>6. ControllerInv(c)'
      BY <1>1, <1>2, <1>3, <2>1, <2>4, <2>5, TopStays, NoneAssumption DEF ControllerInv, Holds, l
    <2>7. LockInv' /\ \A d \in Controllers : d # c => ControllerInv(d)'
      BY <1>1, <1>3, <2>3, HolderMoves DEF Labels
    <2>8. PrefixInv' /\ FileInv'
      BY <1>3, <2>3, FilesStay DEF Says, States
    <2>9. \A g \in Gpus : WorkInv(g)'
      BY <1>2, <1>3, <2>5, TopStays DEF WorkInv
    <2>10. TypeOK'
      BY <1>3, <2>3, <2>5 DEF IInv, TypeOK, Goto, Labels, States, files
    <2>. QED  BY <2>6, <2>7, <2>8, <2>9, <2>10 DEF IInv
  <1>. QED  BY <1>5, <1>6
------------------------------------------------------------------------------
(* The workers. *)

\* Workers move, and no controller does: whoever stands where no worker runs sees none appear,
\* and whoever waits for its workers loses none.
LEMMA WorkersMove ==
  ASSUME IInv, UNCHANGED <<pc, args, at, manifest, status>>,
         \A g \in Gpus : work[g] = None => work'[g] = None,
         (\E c \in Controllers : pc[c] = "join") => \A g \in Gpus : work[g] # None => work'[g] # None
  PROVE  PrefixInv' /\ LockInv' /\ \A c \in Controllers : ControllerInv(c)'
  <1>1. PrefixInv'
    BY TopStays DEF IInv, PrefixInv
  <1>2. LockInv'
    BY DEF IInv, LockInv, Holds
  <1>3. ASSUME NEW c \in Controllers
        PROVE  ControllerInv(c)'
    BY TopStays DEF IInv, ControllerInv, Holds
  <1>. QED  BY <1>1, <1>2, <1>3

\* A worker that writes nothing.
LEMMA WorkerQuiet ==
  ASSUME IInv, NEW g \in Gpus, work[g] # None, NEW label \in {"row", "done", "failed"}, NEW r \in Nat,
         WorkerTo(g, label, r), UNCHANGED <<pc, args, at, files, manifest, status>>
  PROVE  IInv'
  <1>1. work[g] \in Workers
    BY DEF IInv, TypeOK
  <1>2. /\ work'[g] \in Workers /\ work'[g].layer = work[g].layer
        /\ work'[g].input = work[g].input /\ work'[g].pc = label
        /\ \A h \in Gpus : h # g => work'[h] = work[h]
        /\ work' \in [Gpus -> Workers \cup {None}]
    BY <1>1 DEF WorkerTo, Workers, IInv, TypeOK
  <1>3. PrefixInv' /\ LockInv' /\ \A c \in Controllers : ControllerInv(c)'
    BY <1>2, WorkersMove, NoneAssumption
  <1>4. FileInv'
    BY FilesStay DEF Says
  <1>5. ASSUME NEW h \in Gpus
        PROVE  WorkInv(h)'
    BY <1>2, TopStays DEF IInv, WorkInv, files
  <1>6. TypeOK'
    BY <1>2 DEF IInv, TypeOK, files
  <1>. QED  BY <1>3, <1>4, <1>5, <1>6 DEF IInv

LEMMA RowInv == ASSUME IInv, NEW g \in Gpus, Row(g) PROVE IInv'
  <1>. DEFINE w == work[g]  out == Other(w.input)
  <1>1. w # None /\ w.pc = "row" /\ UNCHANGED <<pc, args, at, manifest, status>>
    BY DEF Row, Worker
  <1>2. w \in Workers
    BY <1>1 DEF IInv, TypeOK
  <1>3. w.row \in Nat /\ NextRow(w.row) \in Nat /\ w.layer = Frontier /\ w.input = Top /\ w.layer \in Layers
    BY <1>1, <1>2, SizesAssumption DEF Workers, NextRow, IInv, WorkInv
  <1>4. CASE w.row \notin Rows
    BY <1>1, <1>3, <1>4, WorkerQuiet DEF Row
  <1>5. CASE w.row \in Rows /\ Verified(out, w.row, w.layer)
    BY <1>1, <1>3, <1>5, WorkerQuiet DEF Row
  <1>6. CASE w.row \in Rows /\ ~Verified(out, w.row, w.layer) /\ data[w.input][w.row] = None
    BY <1>1, <1>3, <1>6, WorkerQuiet DEF Row
  <1>7. CASE w.row \in Rows /\ ~Verified(out, w.row, w.layer) /\ data[w.input][w.row] # None
    <2>1. SaveData(out, w.row, Applied(w.layer, data[w.input][w.row])) /\ WorkerTo(g, "side", w.row)
      BY <1>7 DEF Row
    <2>2. out = Other(Top) /\ Other(Top) \in Slots /\ Other(Top) # Top /\ Top \in Slots
      BY <1>3, TopIs, TwoSlots
    <2>3. data[w.input][w.row] = Frontier
      BY <1>3, <1>7 DEF IInv, FileInv
    <2>4. Applied(w.layer, data[w.input][w.row]) = Frontier + 1
      BY <1>3, <2>3 DEF Applied
    <2>5. Frontier + 1 \in Values
      BY <1>3, Sizes DEF Layers, Values
    <2>. DEFINE r == w.row
    <2>6. data' = [data EXCEPT ![Other(Top)][r] = Frontier + 1] /\ UNCHANGED <<side, embedded>>
      BY <2>1, <2>2, <2>4 DEF SaveData
    <2>7. /\ work'[g] \in Workers /\ work'[g].layer = Frontier /\ work'[g].input = Top
          /\ work'[g].pc = "side" /\ work'[g].row = r
          /\ \A h \in Gpus : h # g => work'[h] = work[h]
          /\ work' \in [Gpus -> Workers \cup {None}]
      BY <1>2, <1>3, <2>1 DEF WorkerTo, Workers, IInv, TypeOK
    <2>8. r \in Rows /\ Frontier = w.layer
      BY <1>3, <1>7
    <2>. HIDE DEF r, w, out
    <2>9. /\ data' \in [Slots -> [Rows -> Values \cup {None}]]
          /\ data'[Top] = data[Top] /\ data'[Other(Top)][r] = Frontier + 1
          /\ \A q \in Rows : data'[Other(Top)][q] = data[Other(Top)][q] \/ data'[Other(Top)][q] = Frontier + 1
      BY <2>2, <2>5, <2>6, <2>8 DEF IInv, TypeOK
    <2>10. PrefixInv' /\ LockInv' /\ \A c \in Controllers : ControllerInv(c)'
      BY <1>1, <2>7, WorkersMove, NoneAssumption DEF w
    <2>11. FileInv'
      BY <1>1, <2>6, <2>9, TopStays DEF IInv, FileInv, AllVerified, Verified
    <2>12. ASSUME NEW h \in Gpus
           PROVE  WorkInv(h)'
      BY <1>1, <2>7, <2>8, <2>9, TopStays DEF IInv, WorkInv
    <2>13. TypeOK'
      BY <1>1, <2>6, <2>7, <2>9 DEF IInv, TypeOK
    <2>. QED  BY <2>10, <2>11, <2>12, <2>13 DEF IInv
  <1>. QED  BY <1>4, <1>5, <1>6, <1>7

\* The digest is of the row this worker, or another of its layer, has written.
LEMMA SideInv == ASSUME IInv, NEW g \in Gpus, Side(g) PROVE IInv'
  <1>. DEFINE w == work[g]  out == Other(w.input)  r == w.row
  <1>1. w # None /\ w.pc = "side" /\ UNCHANGED <<pc, args, at, manifest, status>>
    BY DEF Side, Worker
  <1>2. w \in Workers
    BY <1>1 DEF IInv, TypeOK
  <1>3. /\ r \in Nat /\ NextRow(r) \in Nat /\ w.layer = Frontier /\ w.input = Top /\ w.layer \in Layers
        /\ r \in Rows /\ data[Other(Top)][r] = Frontier + 1
    BY <1>1, <1>2, SizesAssumption DEF Workers, NextRow, IInv, WorkInv
  <1>4. CASE data[out][r] = None
    BY <1>1, <1>3, <1>4, WorkerQuiet DEF Side
  <1>5. CASE data[out][r] # None
    <2>1. SaveSide(out, r, w.layer) /\ WorkerTo(g, "row", NextRow(r))
      BY <1>5 DEF Side
    <2>2. out = Other(Top) /\ Other(Top) \in Slots /\ Other(Top) # Top /\ Top \in Slots
      BY <1>3, TopIs, TwoSlots
    <2>3. Frontier \in -1 .. NumLayers - 1 /\ Frontier + 1 \in Values
      BY <1>3, Sizes DEF Layers, Values
    <2>4. /\ side' = [side EXCEPT ![Other(Top)][r] = [layer |-> Frontier, of |-> Frontier + 1]]
          /\ UNCHANGED <<data, embedded>>
      BY <1>3, <2>1, <2>2 DEF SaveSide
    <2>5. /\ work'[g] \in Workers /\ work'[g].layer = Frontier /\ work'[g].input = Top /\ work'[g].pc = "row"
          /\ \A h \in Gpus : h # g => work'[h] = work[h]
          /\ work' \in [Gpus -> Workers \cup {None}]
      BY <1>2, <1>3, <2>1 DEF WorkerTo, Workers, IInv, TypeOK
    <2>6. r \in Rows
      BY <1>3
    <2>. HIDE DEF r, w, out
    <2>7. /\ side' \in [Slots -> [Rows -> Sidecars \cup {None}]]
          /\ side'[Top] = side[Top]
      BY <2>2, <2>3, <2>4, <2>6 DEF Sidecars, IInv, TypeOK
    <2>8. ASSUME NEW s \in Slots, NEW q \in Rows, side'[s][q] # None
          PROVE  side'[s][q].of = side'[s][q].layer + 1
      <3>1. CASE s = Other(Top) /\ q = r
        BY <3>1, <2>2, <2>4, <2>6 DEF IInv, TypeOK
      <3>2. CASE ~(s = Other(Top) /\ q = r)
        <4>1. side'[s][q] = side[s][q]
          BY <3>2, <2>2, <2>4, <2>6 DEF IInv, TypeOK
        <4>. QED  BY <4>1, <2>8 DEF IInv, FileInv
      <3>. QED  BY <3>1, <3>2
    <2>9. PrefixInv' /\ LockInv' /\ \A c \in Controllers : ControllerInv(c)'
      BY <1>1, <2>5, WorkersMove, NoneAssumption DEF w
    <2>10. FileInv'
      BY <1>1, <2>4, <2>7, <2>8, TopStays DEF IInv, FileInv, AllVerified, Verified
    <2>11. ASSUME NEW h \in Gpus
           PROVE  WorkInv(h)'
      BY <1>1, <2>4, <2>5, TopStays DEF IInv, WorkInv
    <2>12. TypeOK'
      BY <1>1, <2>4, <2>5, <2>7 DEF IInv, TypeOK
    <2>. QED  BY <2>9, <2>10, <2>11, <2>12 DEF IInv
  <1>. QED  BY <1>4, <1>5

LEMMA WorkerFailsInv == ASSUME IInv, NEW g \in Gpus, WorkerFails(g) PROVE IInv'
  <1>1. work[g] # None /\ UNCHANGED <<pc, args, at, files, manifest, status>>
    BY DEF WorkerFails
  <1>2. CASE WorkerTo(g, "failed", work[g].row)
    <2>1. work[g].row \in Nat
      BY <1>1 DEF IInv, TypeOK, Workers
    <2>. QED  BY <1>1, <1>2, <2>1, WorkerQuiet
  <1>3. CASE (\A c \in Controllers : pc[c] # "join") /\ work' = [work EXCEPT ![g] = None]
    <2>1. /\ work'[g] = None /\ \A h \in Gpus : h # g => work'[h] = work[h]
          /\ work' \in [Gpus -> Workers \cup {None}]
      BY <1>3 DEF IInv, TypeOK
    <2>2. PrefixInv' /\ LockInv' /\ \A c \in Controllers : ControllerInv(c)'
      BY <1>1, <1>3, <2>1, WorkersMove
    <2>3. FileInv'
      BY <1>1, FilesStay DEF Says
    <2>4. ASSUME NEW h \in Gpus
          PROVE  WorkInv(h)'
      BY <1>1, <2>1, TopStays DEF IInv, WorkInv, files
    <2>5. TypeOK'
      BY <1>1, <2>1 DEF IInv, TypeOK, files
    <2>. QED  BY <2>2, <2>3, <2>4, <2>5 DEF IInv
  <1>. QED  BY <1>2, <1>3 DEF WorkerFails
------------------------------------------------------------------------------
(* The end of a layer. *)

\* What is verified is of its layer: the rows the manifest counts.
LEMMA VerifiedIs ==
  ASSUME IInv, NEW s \in Slots, NEW l \in Layers, AllVerified(s, l)
  PROVE  data[s] \in [Rows -> Values] /\ \A r \in Rows : data[s][r] = l + 1
  <1>1. ASSUME NEW r \in Rows
        PROVE  data[s][r] = l + 1
    <2>1. data[s][r] # None /\ side[s][r] = [layer |-> l, of |-> data[s][r]]
      BY DEF AllVerified, Verified
    <2>2. data[s][r] \in Values
      BY <2>1 DEF IInv, TypeOK
    <2>3. side[s][r] # None
      BY <2>1, <2>2, NoneAssumption, Sizes DEF Sidecars, Layers
    <2>. QED  BY <2>1, <2>3 DEF IInv, FileInv
  <1>2. \A r \in Rows : l + 1 \in Values
    BY Sizes DEF Layers, Values
  <1>. QED  BY <1>1, <1>2 DEF IInv, TypeOK

LEMMA JoinInv == ASSUME IInv, NEW c \in Controllers, Join(c) PROVE IInv'
  <1>1. Holds(c) /\ ControllerInv(c) /\ pc[c] = "join"
    BY DEF Join, Holds, IInv
  <1>. DEFINE l == at[c].layer
  <1>2. /\ l = Frontier /\ at[c].input = Top /\ args[c] \in Arguments /\ l \in Layers
        /\ at[c] \in Places
    BY <1>1 DEF ControllerInv, IInv, TypeOK
  <1>3. /\ \A g \in Gpus : work'[g] = None
        /\ work' \in [Gpus -> Workers \cup {None}]
        /\ UNCHANGED <<files, status>>
    BY DEF Join
  <1>4. /\ Output(c) = Other(Top) /\ Other(Top) \in Slots /\ Top \in Slots
        /\ Other(Other(Top)) = Top
    BY <1>2, TopIs, TwoSlots DEF Output
  <1>5. CASE (\E g \in Gpus : work[g].pc = "failed") \/ ~AllVerified(Output(c), l)
    <2>1. End(c, "failed") /\ manifest' = manifest
      BY <1>5 DEF Join
    <2>2. /\ Goto(c, "failed")
          /\ at' \in [Controllers -> Places] /\ at'[c] = Start0 /\ pc'[c] = "failed"
          /\ args' \in [Controllers -> Arguments \cup {None}]
          /\ \A d \in Controllers : d # c => at'[d] = at[d]
      BY <2>1, Sizes DEF End, Goto, IInv, TypeOK
    <2>3. LockInv' /\ \A d \in Controllers : d # c => ControllerInv(d)'
      BY <1>1, <2>2, HolderMoves DEF Labels
    <2>4. ControllerInv(c)'
      BY <2>2 DEF ControllerInv, Holds
    <2>5. PrefixInv' /\ FileInv'
      BY <1>3, <2>1, FilesStay DEF Says
    <2>6. \A g \in Gpus : WorkInv(g)'
      BY <1>3 DEF WorkInv
    <2>7. TypeOK'
      BY <1>3, <2>1, <2>2 DEF Goto, IInv, TypeOK, Labels, files
    <2>. QED  BY <2>3, <2>4, <2>5, <2>6, <2>7 DEF IInv
  <1>6. CASE AllVerified(Output(c), l) /\ ~\E g \in Gpus : work[g].pc = "failed"
    <2>. DEFINE new == [slot |-> Other(Top), rows |-> data[Other(Top)]]
    <2>1. Goto(c, "remove") /\ UNCHANGED <<args, at>> /\ manifest' = [manifest EXCEPT ![l] = new]
      BY <1>4, <1>6 DEF Join, Move
    <2>2. data[Other(Top)] \in [Rows -> Values] /\ \A r \in Rows : data[Other(Top)][r] = l + 1
      BY <1>2, <1>4, <1>6, VerifiedIs
    <2>3. new \in Manifests /\ new # None /\ new.slot = Other(Top) /\ new.rows = data[Other(Top)]
      BY <1>4, <2>2, NoneAssumption DEF Manifests
    <2>. HIDE DEF new
    <2>4. /\ manifest' \in [Layers -> Manifests \cup {None}]
          /\ manifest'[l] = new /\ \A k \in Layers : k # l => manifest'[k] = manifest[k]
      BY <1>2, <2>1, <2>3 DEF IInv, TypeOK
    <2>. HIDE DEF l
    <2>5. /\ Contiguous \in -1 .. NumLayers - 1 /\ l = Contiguous + 1 /\ l \in -1 .. NumLayers - 1
          /\ \A k \in Layers : manifest[k] # None <=> k <= Contiguous
      BY <1>2, TopIs, Sizes DEF Layers, IInv, PrefixInv
    <2>6. \A k \in Layers : manifest'[k] # None <=> k <= l
      BY <2>3, <2>4, <2>5 DEF Layers
    <2>7. Contiguous' = l
      BY <2>5, <2>6, PrefixMax DEF Contiguous
    <2>8. Top' = Other(Top) /\ Frontier' = l + 1 /\ l # -1
      BY <1>2, <2>3, <2>4, <2>7, Sizes DEF Top, Frontier
    <2>9. PrefixInv'
      <3>1. \A k \in Layers : manifest'[k] # None => \A r \in Rows : manifest'[k].rows[r] = k + 1
        BY <2>2, <2>3, <2>4 DEF IInv, PrefixInv
      <3>2. status' # "COMPLETE"
        BY <1>2, <1>3, <2>5, Sizes DEF IInv, PrefixInv
      <3>. QED  BY <2>5, <2>6, <2>7, <3>1, <3>2 DEF PrefixInv
    <2>10. FileInv'
      <3>1. AllVerified(Other(Top), l)
        BY <1>4, <1>6 DEF l
      <3>. QED  BY <1>3, <2>2, <2>7, <2>8, <3>1 DEF IInv, FileInv, files, AllVerified, Verified
    <2>11. LockInv' /\ \A d \in Controllers : d # c => ControllerInv(d)'
      BY <1>1, <2>1, HolderMoves DEF Labels
    <2>12. pc'[c] = "remove"
      BY <2>1 DEF Goto, IInv, TypeOK
    <2>13. ControllerInv(c)'
      BY <1>2, <1>3, <1>4, <2>1, <2>7, <2>8, <2>12 DEF ControllerInv, Holds, l
    <2>14. TypeOK'
      BY <1>3, <2>1, <2>4 DEF Goto, IInv, TypeOK, Labels, files
    <2>. QED  BY <1>3, <2>9, <2>10, <2>11, <2>13, <2>14 DEF IInv, WorkInv
  <1>. QED  BY <1>5, <1>6

\* What is removed is the slot that no launch reads any more.
LEMMA RemoveInv == ASSUME IInv, NEW c \in Controllers, Remove(c) PROVE IInv'
  <1>1. Holds(c) /\ ControllerInv(c) /\ pc[c] = "remove"
    BY DEF Remove, Holds, IInv
  <1>2. /\ at[c].layer = Contiguous /\ Contiguous # -1 /\ at[c].input = Other(Top)
        /\ at[c] \in Places /\ \A g \in Gpus : work[g] = None
    BY <1>1 DEF ControllerInv, IInv, TypeOK
  <1>3. UNCHANGED <<args, work, manifest, status>>
    BY DEF Remove, MoveAt
  <1>4. /\ Other(Top) \in Slots /\ Other(Top) # Top /\ Other(Other(Top)) = Top /\ Top \in Slots
        /\ Frontier \in 0 .. NumLayers /\ Frontier = Contiguous + 1
    BY TopIs, TwoSlots
  <1>5. CASE RemoveOne(at[c].input) /\ UNCHANGED <<pc, at>>
    <2>1. /\ data' = data \/ \E r \in Rows : data' = [data EXCEPT ![Other(Top)][r] = None]
          /\ side' = side \/ \E r \in Rows : side' = [side EXCEPT ![Other(Top)][r] = None]
          /\ embedded' \in BOOLEAN
      BY <1>2, <1>5 DEF RemoveOne, IInv, TypeOK
    <2>2. /\ data' \in [Slots -> [Rows -> Values \cup {None}]]
          /\ data'[Top] = data[Top]
      <3>1. CASE data' = data
        BY <3>1 DEF IInv, TypeOK
      <3>2. ASSUME NEW r \in Rows, data' = [data EXCEPT ![Other(Top)][r] = None]
            PROVE  data' \in [Slots -> [Rows -> Values \cup {None}]] /\ data'[Top] = data[Top]
        BY <1>4, <3>2 DEF IInv, TypeOK
      <3>. QED  BY <2>1, <3>1, <3>2
    <2>3. /\ side' \in [Slots -> [Rows -> Sidecars \cup {None}]]
          /\ side'[Top] = side[Top]
          /\ \A s \in Slots, r \in Rows : side'[s][r] \in {side[s][r], None}
      <3>1. CASE side' = side
        BY <3>1 DEF IInv, TypeOK
      <3>2. ASSUME NEW q \in Rows, side' = [side EXCEPT ![Other(Top)][q] = None]
            PROVE  /\ side' \in [Slots -> [Rows -> Sidecars \cup {None}]] /\ side'[Top] = side[Top]
                   /\ \A s \in Slots, r \in Rows : side'[s][r] \in {side[s][r], None}
        BY <1>4, <3>2 DEF IInv, TypeOK
      <3>. QED  BY <2>1, <3>1, <3>2
    <2>4. FileInv'
      BY <1>3, <2>2, <2>3, TopStays DEF IInv, FileInv, AllVerified, Verified
    <2>5. Goto(c, "remove")
      BY <1>1, <1>5 DEF Goto, IInv, TypeOK
    <2>6. ControllerInv(c)'
      BY <1>1, <1>3, <1>5, TopStays DEF ControllerInv, Holds
    <2>. QED  BY <1>1, <1>2, <1>3, <1>5, <2>1, <2>2, <2>3, <2>4, <2>5, <2>6, HolderWrites
         DEF IInv, TypeOK, Labels
  <1>6. CASE MoveAt(c, "layer", [layer |-> at[c].layer + 1, row |-> 0, input |-> Output(c)]) /\ UNCHANGED files
    <2>. DEFINE a == [layer |-> at[c].layer + 1, row |-> 0, input |-> Output(c)]
    <2>1. a \in Places /\ a.layer = Frontier /\ a.input = Top
      BY <1>2, <1>4, Sizes DEF Places, Output
    <2>. HIDE DEF a
    <2>2. Goto(c, "layer") /\ at' = [at EXCEPT ![c] = a]
      BY <1>6 DEF MoveAt, a
    <2>3. /\ pc'[c] = "layer" /\ at'[c] = a
          /\ at' \in [Controllers -> Places]
          /\ \A d \in Controllers : d # c => at'[d] = at[d]
      BY <2>1, <2>2 DEF Goto, IInv, TypeOK
    <2>4. ControllerInv(c)'
      BY <1>1, <1>2, <1>3, <2>1, <2>3, TopStays DEF ControllerInv, Holds
    <2>. QED  BY <1>1, <1>3, <1>6, <2>2, <2>3, <2>4, HolderQuiet DEF Says, Labels, IInv, TypeOK
  <1>. QED  BY <1>5, <1>6 DEF Remove

LEMMA FinalInv == ASSUME IInv, NEW c \in Controllers, Final(c) PROVE IInv'
  <1>1. args[c] \in Arguments /\ args[c].last < Frontier
    BY DEF Final, Holds, IInv, ControllerInv
  <1>2. args[c].last = NumLayers - 1 => Contiguous = NumLayers - 1
    BY <1>1, TopIs, Sizes
  <1>3. Says
    BY <1>2 DEF Final, Says, States
  <1>. QED  BY <1>3, Ends DEF Final

LEMMA TellFailedInv == ASSUME IInv, NEW c \in Controllers, TellFailed(c) PROVE IInv'
  <1>1. at[c] = Start0
    BY DEF TellFailed, IInv, ControllerInv
  <1>. QED  BY <1>1, LetsGo DEF TellFailed, Move, Says, States, IInv, TypeOK

LEMMA CrashInv == ASSUME IInv, NEW c \in Controllers, Crash(c) PROVE IInv'
  BY Ends DEF Crash, Says

LEMMA RouteStep == IInv /\ [Next]_vars => IInv'
  <1>. SUFFICES ASSUME IInv, [Next]_vars PROVE IInv'
    OBVIOUS
  <1>1. CASE UNCHANGED vars
    <2>1. UNCHANGED <<pc, args, at, work, files, manifest, status>>
      BY <1>1 DEF vars
    <2>2. PrefixInv' /\ FileInv'
      BY <2>1, FilesStay DEF Says
    <2>3. LockInv' /\ \A c \in Controllers : ControllerInv(c)'
      BY <2>1, WorkersMove
    <2>4. TypeOK'
      BY <2>1 DEF IInv, TypeOK, files
    <2>. QED  BY <2>1, <2>2, <2>3, <2>4, WorkStays DEF IInv
  <1>2. CASE Next
    BY <1>2, LaunchInv, PreflightInv, ScanInv, EmbedInv, EmbedSideInv, EmbedManifestInv, LayerInv, JoinInv, RemoveInv,
       FinalInv, TellFailedInv, CrashInv, RowInv, SideInv, WorkerFailsInv DEF Next
  <1>. QED  BY <1>1, <1>2

LEMMA RouteAlways == Spec => []IInv
  BY RouteInit, RouteStep, PTL DEF Spec

LEMMA InvExact == IInv => ManifestExact
  <1>. SUFFICES ASSUME IInv PROVE ManifestExact
    OBVIOUS
  <1>1. ASSUME NEW l \in Layers, manifest[l] # None
        PROVE  (\A k \in 0 .. l : manifest[k] # None) /\ \A r \in Rows : manifest[l].rows[r] = l + 1
    <2>1. l <= Contiguous
      BY <1>1 DEF IInv, PrefixInv
    <2>2. ASSUME NEW k \in 0 .. l
          PROVE  k \in Layers /\ k <= Contiguous
      BY <2>1, TopIs, Sizes DEF Layers
    <2>. QED  BY <1>1, <2>2 DEF IInv, PrefixInv
  <1>2. NumLayers - 1 \in Layers
    BY Sizes DEF Layers
  <1>3. status = "COMPLETE" => manifest[NumLayers - 1] # None
    BY <1>2, Sizes DEF IInv, PrefixInv, Layers
  <1>. QED  BY <1>1, <1>3 DEF ManifestExact

------------------------------------------------------------------------------
(* The embeddings, beside that invariant: row by row, their manifest last. *)

EmbedLabels == {"embed", "embedSide", "embedManifest"}

EmbeddingInv ==
  /\ Contiguous = -1 /\ embedded => AllVerified("state-a", -1)
  /\ \A c \in Controllers :
       /\ pc[c] \in {"embed", "embedSide"} => \A r \in 0 .. at[c].row - 1 : Verified("state-a", r, -1)
       /\ pc[c] = "embedManifest" => AllVerified("state-a", -1)

\* Once a layer has a manifest nobody embeds.
LEMMA LayersFollow ==
  ASSUME IInv', Contiguous' # -1
  PROVE  EmbeddingInv'
  BY DEF IInv, ControllerInv, EmbeddingInv

\* Whoever does not embed leaves state-a alone until then.
LEMMA EmbeddingStays ==
  ASSUME EmbeddingInv, UNCHANGED <<manifest, embedded>>,
         data'["state-a"] = data["state-a"], side'["state-a"] = side["state-a"],
         \A d \in Controllers : pc'[d] \in EmbedLabels =>
           \/ pc'[d] = pc[d] /\ at'[d] = at[d]
           \/ pc'[d] = "embed" /\ at'[d] = Start0
  PROVE  EmbeddingInv'
  <1>1. Contiguous' = Contiguous
    BY TopStays
  <1>2. \A r, l : Verified("state-a", r, l)' <=> Verified("state-a", r, l)
    BY DEF Verified
  <1>3. \A l : AllVerified("state-a", l)' <=> AllVerified("state-a", l)
    BY <1>2 DEF AllVerified
  <1>4. \A r \in 0 .. Start0.row - 1 : FALSE
    BY DEF Start0
  <1>. QED  BY <1>1, <1>2, <1>3, <1>4 DEF EmbeddingInv, EmbedLabels

LEMMA EmbeddingMoves ==
  ASSUME IInv, EmbeddingInv, NEW c \in Controllers,
         \/ \E a \in Arguments : Launch(c, a)
         \/ Preflight(c) \/ Layer(c) \/ Final(c) \/ TellFailed(c) \/ Crash(c)
  PROVE  EmbeddingInv'
  <1>1. UNCHANGED <<manifest, embedded, data, side>>
    BY DEF Launch, Preflight, Layer, Final, TellFailed, Crash, files
  <1>2. PICK label \in Labels \ EmbedLabels : Goto(c, label)
    BY DEF Launch, Preflight, Layer, Final, TellFailed, Crash, Move, End, Labels, EmbedLabels
  <1>3. \A d \in Controllers : d # c => pc'[d] = pc[d] /\ at'[d] = at[d]
    BY DEF Launch, Preflight, Layer, Final, TellFailed, Crash, Move, End, Goto, IInv, TypeOK
  <1>4. pc'[c] = label
    BY <1>2 DEF Goto, IInv, TypeOK
  <1>. QED  BY <1>1, <1>2, <1>3, <1>4, EmbeddingStays

LEMMA EmbeddingScan == ASSUME IInv, EmbeddingInv, NEW c \in Controllers, Scan(c) PROVE EmbeddingInv'
  <1>1. UNCHANGED <<manifest, embedded, data, side>> /\ at[c] = Start0
    BY DEF Scan, files, IInv, ControllerInv
  <1>2. \A d \in Controllers : d # c => pc'[d] = pc[d] /\ at'[d] = at[d]
    BY DEF Scan, Move, MoveAt, Goto, IInv, TypeOK
  <1>3. pc'[c] = "layer" \/ (pc'[c] = "embed" /\ at'[c] = Start0)
    BY <1>1 DEF Scan, Move, MoveAt, Goto, IInv, TypeOK
  <1>. QED  BY <1>1, <1>2, <1>3, EmbeddingStays DEF EmbedLabels

\* Saved again, a row that was verified stays so.
LEMMA EmbeddingEmbed == ASSUME IInv, EmbeddingInv, NEW c \in Controllers, Embed(c) PROVE EmbeddingInv'
  <1>1. pc[c] = "embed" /\ Contiguous = -1 /\ Top = "state-a" /\ Frontier = 0
    BY DEF Embed, IInv, ControllerInv, Frontier, Top
  <1>. DEFINE r == at[c].row
  <1>2. r \in Rows /\ "state-a" \in Slots
    BY DEF IInv, TypeOK, Places, Slots
  <1>3. data' = [data EXCEPT !["state-a"][r] = 0] /\ UNCHANGED <<side, embedded, manifest, at>>
    BY DEF Embed, SaveData, Move
  <1>4. pc' = [pc EXCEPT ![c] = "embedSide"]
    BY DEF Embed, Move, Goto
  <1>. HIDE DEF r
  <1>5. ASSUME NEW q \in Rows, Verified("state-a", q, -1)
        PROVE  Verified("state-a", q, -1)'
    <2>1. data["state-a"][q] = 0
      BY <1>1, <1>5 DEF Verified, IInv, FileInv
    <2>2. data'["state-a"][q] = 0
      BY <2>1, <1>2, <1>3 DEF IInv, TypeOK
    <2>. QED  BY <2>1, <2>2, <1>3, <1>5, Sizes, NoneAssumption DEF Verified
  <1>6. AllVerified("state-a", -1) => AllVerified("state-a", -1)'
    BY <1>5 DEF AllVerified
  <1>7. Contiguous' = Contiguous
    BY <1>3, TopStays
  <1>8. \A d \in Controllers : at[d].row - 1 \in Int /\ 0 .. at[d].row - 1 \subseteq Rows
    BY Sizes DEF IInv, TypeOK, Places, Rows
  <1>9. \A d \in Controllers : pc'[d] = IF d = c THEN "embedSide" ELSE pc[d]
    BY <1>4 DEF IInv, TypeOK
  <1>. QED  BY <1>1, <1>3, <1>5, <1>6, <1>7, <1>8, <1>9 DEF EmbeddingInv

LEMMA EmbeddingSide == ASSUME IInv, EmbeddingInv, NEW c \in Controllers, EmbedSide(c) PROVE EmbeddingInv'
  <1>1. pc[c] = "embedSide" /\ Contiguous = -1
    BY DEF EmbedSide, IInv, ControllerInv
  <1>. DEFINE r == at[c].row
              a == [at[c] EXCEPT !.row = @ + 1]
  <1>2. r \in Rows /\ "state-a" \in Slots /\ at[c] \in Places
    BY DEF IInv, TypeOK, Places, Slots
  <1>3. /\ data["state-a"][r] # None
        /\ side' = [side EXCEPT !["state-a"][r] = [layer |-> -1, of |-> data["state-a"][r]]]
        /\ UNCHANGED <<data, embedded, manifest>>
    BY DEF EmbedSide, SaveSide
  <1>4. \/ r + 1 \in Rows /\ pc' = [pc EXCEPT ![c] = "embed"] /\ at' = [at EXCEPT ![c] = a]
        \/ r + 1 \notin Rows /\ pc' = [pc EXCEPT ![c] = "embedManifest"] /\ at' = at
    BY DEF EmbedSide, MoveAt, Move, Goto
  <1>5. a.row = r + 1
    BY <1>2 DEF Places
  <1>. HIDE DEF r, a
  <1>6. ASSUME NEW q \in Rows, q = r \/ Verified("state-a", q, -1)
        PROVE  Verified("state-a", q, -1)'
    BY <1>2, <1>3, <1>6 DEF Verified, IInv, TypeOK
  <1>7. AllVerified("state-a", -1) => AllVerified("state-a", -1)'
    BY <1>6 DEF AllVerified
  <1>8. \A q \in 0 .. r : q \in Rows /\ Verified("state-a", q, -1)'
    <2>1. \A q \in 0 .. r - 1 : Verified("state-a", q, -1)
      BY <1>1 DEF EmbeddingInv, r
    <2>. QED  BY <1>2, <1>6, <2>1, Sizes DEF Rows
  <1>9. Contiguous' = Contiguous
    BY <1>3, TopStays
  <1>10. \A d \in Controllers : d # c => pc'[d] = pc[d] /\ at'[d] = at[d] /\ pc[d] \notin EmbedLabels
    <2>1. \A d \in Controllers : d # c => pc[d] \notin EmbedLabels
      BY <1>1, OffOthers DEF Holds, EmbedLabels
    <2>. QED  BY <1>4, <2>1 DEF IInv, TypeOK
  <1>11. CASE r + 1 \in Rows /\ pc' = [pc EXCEPT ![c] = "embed"] /\ at' = [at EXCEPT ![c] = a]
    <2>1. pc'[c] = "embed" /\ at'[c].row - 1 = r
      <3>1. pc'[c] = "embed" /\ at'[c] = a
        BY <1>11 DEF IInv, TypeOK
      <3>2. r \in Int
        BY <1>2 DEF Rows
      <3>. QED  BY <1>5, <3>1, <3>2
    <2>2. \A q \in 0 .. at'[c].row - 1 : Verified("state-a", q, -1)'
      BY <1>8, <2>1
    <2>3. Contiguous' = -1 /\ embedded' => AllVerified("state-a", -1)'
      BY <1>3, <1>7, <1>9 DEF EmbeddingInv
    <2>. QED  BY <1>10, <2>1, <2>2, <2>3 DEF EmbeddingInv, EmbedLabels
  <1>12. CASE r + 1 \notin Rows /\ pc' = [pc EXCEPT ![c] = "embedManifest"] /\ at' = at
    <2>1. pc'[c] = "embedManifest"
      BY <1>12 DEF IInv, TypeOK
    <2>2. Rows \subseteq 0 .. r
      BY <1>2, <1>12, Sizes DEF Rows
    <2>3. AllVerified("state-a", -1)'
      BY <1>8, <2>2 DEF AllVerified
    <2>. QED  BY <1>9, <1>10, <2>1, <2>3 DEF EmbeddingInv, EmbedLabels
  <1>. QED  BY <1>4, <1>11, <1>12

LEMMA EmbeddingManifest == ASSUME IInv, EmbeddingInv, NEW c \in Controllers, EmbedManifest(c) PROVE EmbeddingInv'
  <1>1. AllVerified("state-a", -1) /\ UNCHANGED <<data, side>>
    BY DEF EmbedManifest, EmbeddingInv
  <1>2. AllVerified("state-a", -1)'
    BY <1>1 DEF AllVerified, Verified
  <1>3. \A d \in Controllers : pc'[d] \in EmbedLabels => FALSE
    <2>1. \A d \in Controllers : d # c => pc[d] \notin EmbedLabels
      BY OffOthers DEF EmbedManifest, Holds, EmbedLabels
    <2>. QED  BY <2>1 DEF EmbedManifest, MoveAt, Goto, EmbedLabels, IInv, TypeOK
  <1>. QED  BY <1>2, <1>3 DEF EmbeddingInv, EmbedLabels

\* Until there is a manifest the workers write to state-b.
LEMMA EmbeddingWork ==
  ASSUME IInv, EmbeddingInv, IInv', NEW g \in Gpus, Row(g) \/ Side(g) \/ WorkerFails(g)
  PROVE  EmbeddingInv'
  <1>1. UNCHANGED <<pc, at, manifest, embedded>> /\ work[g] # None
    BY DEF Row, Side, WorkerFails, SaveData, SaveSide, Worker, files
  <1>2. CASE Contiguous' # -1
    BY <1>2, LayersFollow
  <1>3. CASE Contiguous' = -1
    <2>1. work[g].input = "state-a"
      BY <1>1, <1>3, TopStays DEF IInv, WorkInv, Top
    <2>2. Other("state-a") # "state-a"
      BY DEF Other
    <2>3. data'["state-a"] = data["state-a"] /\ side'["state-a"] = side["state-a"]
      <3>1. CASE Row(g)
        <4>1. side' = side /\ (data' = data \/ \E q, v : data' = [data EXCEPT ![Other(work[g].input)][q] = v])
          BY <3>1 DEF Row, SaveData, files
        <4>. QED  BY <2>1, <2>2, <4>1 DEF IInv, TypeOK, Slots
      <3>2. CASE Side(g)
        <4>1. data' = data /\ (side' = side \/ \E q, v : side' = [side EXCEPT ![Other(work[g].input)][q] = v])
          BY <3>2 DEF Side, SaveSide, files
        <4>. QED  BY <2>1, <2>2, <4>1 DEF IInv, TypeOK, Slots
      <3>3. CASE WorkerFails(g)
        BY <3>3 DEF WorkerFails, files
      <3>. QED  BY <3>1, <3>2, <3>3
    <2>. QED  BY <1>1, <2>3, EmbeddingStays
  <1>. QED  BY <1>2, <1>3

\* A layer that is joined has a manifest; a slot is removed only after one.
LEMMA EmbeddingJoin ==
  ASSUME IInv, EmbeddingInv, IInv', NEW c \in Controllers, Join(c) \/ Remove(c)
  PROVE  EmbeddingInv'
  <1>1. CASE manifest' # manifest
    <2>1. /\ manifest' = [manifest EXCEPT ![at[c].layer] = [slot |-> Output(c), rows |-> data[Output(c)]]]
          /\ at[c].layer \in Layers
      BY <1>1 DEF Join, Remove, IInv, ControllerInv
    <2>2. manifest'[at[c].layer] # None
      <3>1. manifest'[at[c].layer] # manifest[at[c].layer]
        BY <1>1, <2>1 DEF IInv, TypeOK
      <3>2. manifest'[at[c].layer] \in Manifests \cup {None}
        BY <2>1 DEF IInv, TypeOK
      <3>3. at[c].layer = Frontier /\ ~(Frontier <= Contiguous)
        BY <1>1, TopIs DEF Join, Remove, IInv, ControllerInv
      <3>4. manifest[at[c].layer] = None
        BY <2>1, <3>3 DEF IInv, PrefixInv
      <3>. QED  BY <3>1, <3>4
    <2>3. Contiguous' # -1
      BY <2>1, <2>2 DEF IInv, PrefixInv, Layers
    <2>. QED  BY <2>3, LayersFollow
  <1>2. CASE manifest' = manifest /\ Join(c)
    <2>1. UNCHANGED <<embedded, data, side>>
      BY <1>2 DEF Join, files
    <2>2. \A d \in Controllers : pc'[d] \in EmbedLabels => pc'[d] = pc[d] /\ at'[d] = at[d]
      BY <1>2 DEF Join, Move, End, Goto, EmbedLabels, IInv, TypeOK
    <2>. QED  BY <1>2, <2>1, <2>2, EmbeddingStays
  <1>3. CASE manifest' = manifest /\ Remove(c)
    BY <1>3, TopStays, LayersFollow DEF Remove, IInv, ControllerInv
  <1>. QED  BY <1>1, <1>2, <1>3

LEMMA EmbeddingStep == IInv /\ EmbeddingInv /\ [Next]_vars => EmbeddingInv'
  <1>. SUFFICES ASSUME IInv, EmbeddingInv, [Next]_vars PROVE EmbeddingInv'
    OBVIOUS
  <1>1. IInv'
    BY RouteStep
  <1>2. CASE UNCHANGED vars
    <2>1. UNCHANGED <<pc, at, manifest, data, side, embedded>>
      BY <1>2 DEF vars, files
    <2>. QED  BY <2>1, EmbeddingStays
  <1>3. CASE Next
    BY <1>1, <1>3, EmbeddingMoves, EmbeddingScan, EmbeddingEmbed, EmbeddingSide, EmbeddingManifest, EmbeddingWork,
       EmbeddingJoin DEF Next
  <1>. QED  BY <1>2, <1>3

LEMMA EmbeddingAlways == Spec => []EmbeddingInv
  <1>1. Init => EmbeddingInv
    BY DEF Init, EmbeddingInv
  <1>. QED  BY <1>1, EmbeddingStep, RouteAlways, PTL DEF Spec

LEMMA InvSlot == IInv /\ EmbeddingInv => SlotKept
  BY DEF IInv, FileInv, EmbeddingInv, SlotKept, Top

------------------------------------------------------------------------------
(* Theorems. *)

\* Every variable keeps its type, for any number of controllers, GPUs, rows and layers.
THEOREM RouteTypes == Spec => []TypeOK
  BY RouteAlways, PTL DEF IInv

\* A manifest counts every row after exactly the layers up to its own, whoever died and whatever
\* workers it left; COMPLETE says that every layer has one (main, process_layer).
THEOREM ManifestsAreExact == Spec => []ManifestExact
  BY RouteAlways, InvExact, PTL

\* The slot the next launch reads without verifying it is whole, and of the last layer done, or of
\* the embeddings once they have their manifest (main, initialize_embeddings).
THEOREM LastSlotIsKept == Spec => []SlotKept
  BY RouteAlways, EmbeddingAlways, InvSlot, PTL
==============================================================================
