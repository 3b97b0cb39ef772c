----------------------------- MODULE LaneUploadProofs -----------------------------
(***************************************************************************)
(* TypeOK, RemoteBacked, StatusHonest and ReceiptsStay of LaneUpload for   *)
(* any number of launches, shards, runtimes and destinations.  Everything  *)
(* rests on two facts: a file that is there stays as it is, and the store  *)
(* only grows.  That a lane keeps the first is what its lock is for: what  *)
(* it takes to be missing, nobody has written since it looked.             *)
(***************************************************************************)
EXTENDS LaneUpload, FiniteSetTheorems, WellFoundedInduction, TLAPS

------------------------------------------------------------------------------
(* The invariant. *)

InFlight == {"push", "commit", "mark"}

\* Receipts are runtimes; the merged artifact, where there is one, is that of the receipts.
\* Only in a mirror may it be there before them.
RootInv ==
  /\ \A s \in Shards : local[s] \in Runtimes \cup {None}
  /\ local[Merged] \in [Shards -> Runtimes] \cup {None}
  /\ local[Merged] # None /\ program # "sidecar" => Mergeable
  /\ local[Merged] # None /\ Mergeable => local[Merged] = MergedOf

\* One launch of a lane works on the root.
LockInv == program = "lane" => \A p, q \in Launches : Holds(p) /\ Holds(q) => p = q

\* A file is there, and in the store if uploads are on.
Safe(p, i) == local[i] # None /\ (Dest(p) # None => <<i, local[i]>> \in remote[Dest(p)])

\* Where each program may be, and with which arguments.
LabelInv(p) ==
  /\ pc[p] = "off" => at[p] = 0 /\ todo[p] = {} /\ done[p] = {}
  /\ pc[p] # "off" => args[p] \in Arguments
  /\ pc[p] \in {"scan", "smoke", "capture", "barrier", "status"} => program = "lane"
  /\ pc[p] \in {"walk", "running", "report"} => program = "worker"
  /\ pc[p] \in {"list", "sync"} => program = "sidecar"
  /\ pc[p] = "merge" => program # "worker"
  /\ pc[p] # "off" /\ program # "lane" => Dest(p) # None
  /\ pc[p] \in {"smoke", "capture", "barrier", "running"} => at[p] \in Shards
  /\ program = "worker" => todo[p] = {} /\ (pc[p] \in InFlight => at[p] \in Shards)

\* What has been dealt with is safe, and so is the item between its upload and its record.
DoneInv(p) ==
  /\ pc[p] # "list" => \A s \in done[p] \ todo[p] : Safe(p, s)
  /\ pc[p] \in {"barrier", "running"} => Safe(p, at[p])

\* The file that is uploaded is the one that was digested.
FlightInv(p) ==
  /\ pc[p] \in InFlight => local[at[p]] # None
  /\ pc[p] \in {"commit", "mark"} => Dest(p) # None /\ sha[p] = local[at[p]]
  /\ pc[p] = "mark" => <<at[p], sha[p]>> \in remote[Dest(p)]

\* The merged artifact comes after every receipt.
MergeInv(p) ==
  /\ (pc[p] = "merge" \/ (pc[p] \in InFlight \cup {"status"} /\ at[p] = Merged)) =>
       done[p] = Shards /\ todo[p] = {} /\ Dest(p) # None
  /\ pc[p] \in InFlight \cup {"status"} /\ at[p] = Merged =>
       Mergeable /\ local[Merged] = MergedOf
  /\ pc[p] = "status" /\ at[p] = Merged => <<Merged, MergedOf>> \in remote[Dest(p)]

\* A lane knows the receipts of its root: those up to where it scans, then all.
LaneInv(p) ==
  program = "lane" /\ pc[p] # "off" =>
    /\ todo[p] \cap done[p] = {}
    /\ pc[p] = "scan" => todo[p] = {}
    /\ (pc[p] = "scan" \/ (pc[p] \in InFlight /\ todo[p] = {})) =>
         \A s \in Shards : s < at[p] /\ local[s] # None => s \in done[p]
    /\ todo[p] # {} => \A s \in Shards : local[s] # None =>
         s \in done[p] \/ (pc[p] \in InFlight \cup {"barrier"} /\ s = at[p])

LaunchInv(p) == LabelInv(p) /\ DoneInv(p) /\ FlightInv(p) /\ MergeInv(p) /\ LaneInv(p)

IInv == TypeOK /\ RootInv /\ LockInv /\ RemoteBacked /\ StatusHonest /\ \A p \in Launches : LaunchInv(p)
------------------------------------------------------------------------------
(* Numbers. *)

LEMMA ItemsAre ==
  /\ Items = 0 .. NumShards /\ Shards \subseteq Items /\ Merged \in Items /\ Merged \notin Shards
  /\ 0 \in Shards /\ Shards \subseteq Nat
  /\ \A s \in Shards : s + 1 \in Items /\ s < Merged
  /\ \A i \in Items : i = Merged \/ i \in Shards
  BY NumShardsAssumption DEF Items, Shards, Merged

\* A set of natural numbers has a least one: among the intervals from 0 up to its members one has
\* no other inside it.
LEMMA MinIsLeast ==
  ASSUME NEW S \in SUBSET Nat, S # {}
  PROVE  Min(S) \in S
  <1>. DEFINE T == {0 .. n : n \in S}
  <1>1. T # {} /\ T \subseteq FiniteSubsetsOf(Nat)
    <2>1. \A n \in S : 0 .. n \subseteq Nat /\ IsFiniteSet(0 .. n)
      BY FS_Interval
    <2>. QED  BY <2>1 DEF FiniteSubsetsOf
  <1>. HIDE DEF T
  <1>2. PICK t \in T : \A u \in T : ~ (<<u, t>> \in StrictSubsetOrdering(Nat))
    BY <1>1, FS_StrictSubsetOrderingWellFounded, WFMin
  <1>3. PICK n \in S : t = 0 .. n
    BY DEF T
  <1>4. ASSUME NEW m \in S, m < n
        PROVE  FALSE
    <2>1. 0 .. m \in T
      BY DEF T
    <2>2. 0 .. m \subseteq 0 .. n /\ 0 .. m # 0 .. n /\ 0 .. m \subseteq Nat /\ 0 .. n \subseteq Nat
      <3>1. n \in 0 .. n /\ n \notin 0 .. m
        BY <1>4
      <3>. QED  BY <1>4, <3>1
    <2>3. <<0 .. m, 0 .. n>> \in StrictSubsetOrdering(Nat)
      BY <2>2 DEF StrictSubsetOrdering
    <2>. QED  BY <1>2, <1>3, <2>1, <2>3
  <1>5. \A m \in S : n <= m
    BY <1>4
  <1>. QED  BY <1>5 DEF Min

------------------------------------------------------------------------------
(* Steps of a launch. *)

\* The other launches stay where they are.
Same(q) ==
  /\ pc'[q] = pc[q] /\ args'[q] = args[q] /\ at'[q] = at[q]
  /\ todo'[q] = todo[q] /\ done'[q] = done[q] /\ sha'[q] = sha[q]
OthersSame(p) == \A q \in Launches \ {p} : Same(q)

\* A file that is there stays as it is, and the store only grows.
Kept ==
  /\ \A i \in Items : local[i] # None => local'[i] = local[i]
  /\ \A d \in Destinations : remote[d] \subseteq remote'[d]

\* What a step may leave alone.
Still == UNCHANGED <<program, local, marker, remote, status>>

\* A launch that is off has nothing to say.
LEMMA OffQuiet ==
  ASSUME NEW p \in Launches, pc'[p] = "off", at'[p] = 0, todo'[p] = {}, done'[p] = {}
  PROVE  LaunchInv(p)'
  BY DEF LaunchInv, LabelInv, DoneInv, FlightInv, MergeInv, LaneInv, InFlight

LEMMA EndStep ==
  ASSUME NEW p \in Launches, MemoryOK, End(p)
  PROVE  MemoryOK' /\ OthersSame(p) /\ LaunchInv(p)' /\ ~Holds(p)'
  <1>1. MemoryOK' /\ OthersSame(p)
    BY ItemsAre DEF MemoryOK, End, Goto, Labels, OthersSame, Same
  <1>2. pc'[p] = "off" /\ at'[p] = 0 /\ todo'[p] = {} /\ done'[p] = {}
    BY DEF MemoryOK, End, Goto
  <1>. QED  BY <1>1, <1>2, OffQuiet DEF Holds

\* What a launch knows, it knows after the steps of others.
LEMMA OthersKeep ==
  ASSUME IInv, NEW q \in Launches, Same(q), Kept, program' = program, RootInv',
         program = "lane" /\ local' # local => ~Holds(q)
  PROVE  LaunchInv(q)'
  <1>. USE DEF Same
  <1>1. LaunchInv(q) /\ TypeOK
    BY DEF IInv
  <1>2. \A i \in Items : Safe(q, i) /\ pc[q] # "off" => Safe(q, i)'
    <2>1. ASSUME NEW i \in Items, Safe(q, i), pc[q] # "off"
          PROVE  Safe(q, i)'
      <3>1. args[q] \in Arguments /\ Dest(q)' = Dest(q)
        BY <1>1, <2>1 DEF LaunchInv, LabelInv, Dest
      <3>2. Dest(q) # None => Dest(q) \in Destinations
        BY <3>1 DEF Arguments, Dest
      <3>. QED  BY <2>1, <3>1, <3>2 DEF Safe, Kept
    <2>. QED  BY <2>1
  <1>3. LabelInv(q)'
    BY <1>1 DEF LaunchInv, LabelInv, Dest
  <1>4. DoneInv(q)'
    <2>1. CASE pc[q] = "off"
      BY <1>1, <2>1 DEF LaunchInv, LabelInv, DoneInv
    <2>2. CASE pc[q] # "off"
      BY <1>1, <1>2, <2>2, ItemsAre DEF LaunchInv, DoneInv, LabelInv, TypeOK, MemoryOK
    <2>. QED  BY <2>1, <2>2
  <1>5. FlightInv(q)'
    BY <1>1 DEF LaunchInv, FlightInv, LabelInv, InFlight, Kept, Dest, TypeOK, MemoryOK, Arguments
  <1>6. MergeInv(q)'
    <2>1. ASSUME Mergeable, local[Merged] = MergedOf
          PROVE  Mergeable' /\ local'[Merged] = MergedOf' /\ MergedOf' = MergedOf
      <3>1. \A s \in Shards : local'[s] = local[s] /\ local[s] # None
        BY <2>1, ItemsAre DEF Kept, Mergeable
      <3>2. Mergeable' /\ MergedOf' = MergedOf
        BY <2>1, <3>1, ItemsAre DEF Mergeable, MergedOf
      <3>3. MergedOf # None
        BY <2>1, <3>1, NoneAssumption, ItemsAre DEF MergedOf, Contents, IInv, RootInv
      <3>. QED  BY <2>1, <3>2, <3>3, ItemsAre DEF Kept
    <2>2. pc[q] \in InFlight \cup {"status"} /\ at[q] = Merged =>
            Mergeable' /\ local'[Merged] = MergedOf' /\ MergedOf' = MergedOf
      BY <1>1, <2>1 DEF LaunchInv, MergeInv
    <2>3. pc[q] = "status" /\ at[q] = Merged => <<Merged, MergedOf>> \in remote'[Dest(q)]
      BY <1>1 DEF LaunchInv, MergeInv, LabelInv, Kept, Dest, Arguments
    <2>. QED  BY <1>1, <2>2, <2>3 DEF LaunchInv, MergeInv, Dest
  <1>7. LaneInv(q)'
    <2>1. CASE program = "lane" /\ local' # local
      BY <1>1, <2>1 DEF LaunchInv, LaneInv, LabelInv, Holds
    <2>2. CASE local' = local
      BY <1>1, <2>2 DEF LaunchInv, LaneInv
    <2>. QED  BY <2>1, <2>2 DEF LaneInv
  <1>. QED  BY <1>3, <1>4, <1>5, <1>6, <1>7 DEF LaunchInv

LEMMA StatusStays ==
  ASSUME IInv, Kept, status' = status
  PROVE  StatusHonest'
  <1>1. CASE status = None
    BY <1>1 DEF StatusHonest
  <1>2. CASE status # None
    <2>1. StatusHonest /\ status \in Statuses
      BY <1>2 DEF IInv, TypeOK, RootOK
    <2>2. \A s \in status.done : s \in Items /\ s \in Shards
      BY <2>1, ItemsAre DEF Statuses
    <2>3. status.dest # None => status.dest \in Destinations
      BY <2>1 DEF Statuses
    <2>4. \A s \in status.done : local[s] # None /\ local'[s] = local[s]
      BY <1>2, <2>1, <2>2 DEF StatusHonest, Kept
    <2>5. Mergeable => Mergeable' /\ MergedOf' = MergedOf
      BY ItemsAre DEF Kept, Mergeable, MergedOf
    <2>6. /\ \A s \in status.done : local'[s] # None
          /\ status.dest # None => \A s \in status.done : <<s, local'[s]>> \in remote'[status.dest]
      BY <1>2, <2>1, <2>3, <2>4 DEF StatusHonest, Kept
    <2>7. status.state = "FULL_LANE_COMPLETE" => status.dest # None
            /\ Mergeable' /\ <<Merged, MergedOf'>> \in remote'[status.dest]
      BY <1>2, <2>1, <2>3, <2>5 DEF StatusHonest, Kept
    <2>. QED  BY <1>2, <2>1, <2>6, <2>7 DEF StatusHonest
  <1>. QED  BY <1>1, <1>2

LEMMA MarkersStay ==
  ASSUME IInv, Kept, marker' = marker
  PROVE  RemoteBacked'
  <1>1. ASSUME NEW i \in Items, marker[i] # None
        PROVE  /\ marker[i].dest \in Destinations
               /\ local[i] # None /\ local'[i] = local[i]
    <2>1. marker[i] \in Markers /\ local[i] = marker[i].content
      BY <1>1 DEF IInv, TypeOK, RootOK, RemoteBacked
    <2>2. marker[i].dest \in Destinations /\ marker[i].content \in Contents
      BY <2>1 DEF Markers
    <2>3. local[i] # None
      BY <2>1, <2>2, NoneAssumption
    <2>. QED  BY <2>2, <2>3 DEF Kept
  <1>2. \A i \in Items : marker[i] # None => <<i, marker[i].content>> \in remote'[marker[i].dest]
    BY <1>1 DEF IInv, RemoteBacked, Kept
  <1>3. marker[Merged] # None =>
          \A s \in Shards : <<s, marker[Merged].content[s]>> \in remote'[marker[Merged].dest]
    BY <1>1, ItemsAre DEF IInv, RemoteBacked, Kept
  <1>. QED  BY <1>1, <1>2, <1>3 DEF IInv, RemoteBacked

\* From what a step does for its own launch to the whole invariant.
LEMMA Frame ==
  ASSUME IInv, NEW p \in Launches, TypeOK', program' = program, OthersSame(p), Kept,
         RootInv', LaunchInv(p)', RemoteBacked', StatusHonest',
         program = "lane" => (local' # local => Holds(p)) /\ (Holds(p)' => Holds(p) \/ LockFree(p))
  PROVE  IInv'
  <1>1. LockInv'
    BY DEF IInv, LockInv, LockFree, Holds, OthersSame, Same
  <1>2. ASSUME NEW q \in Launches \ {p}
        PROVE  LaunchInv(q)'
    <2>1. program = "lane" /\ local' # local => ~Holds(q)
      BY DEF IInv, LockInv
    <2>. QED  BY <2>1, OthersKeep DEF OthersSame
  <1>. QED  BY <1>1, <1>2 DEF IInv

\* A step that leaves root, store and status alone.
LEMMA QuietStep ==
  ASSUME IInv, NEW p \in Launches, TypeOK', Still, OthersSame(p), LaunchInv(p)',
         program = "lane" => (Holds(p)' => Holds(p) \/ LockFree(p))
  PROVE  IInv'
  <1>1. Kept
    BY DEF Kept, Still
  <1>2. RootInv'
    BY DEF IInv, Still, RootInv, Mergeable, MergedOf
  <1>. QED  BY <1>1, <1>2, StatusStays, MarkersStay, Frame DEF Still

\* A launch that ends, and leaves everything else alone.
LEMMA QuietEnd ==
  ASSUME IInv, NEW p \in Launches, End(p), Still, RootOK'
  PROVE  IInv'
  BY EndStep, QuietStep DEF IInv, TypeOK

------------------------------------------------------------------------------
(* _upload_receipt. *)

\* What was safe for a launch still is.
LEMMA SafeStays ==
  ASSUME NEW p \in Launches, MemoryOK, pc[p] # "off", LabelInv(p), Kept, args'[p] = args[p],
         NEW i \in Items, Safe(p, i)
  PROVE  Safe(p, i)'
  <1>1. args[p] \in Arguments /\ Dest(p)' = Dest(p)
    BY DEF LabelInv, Dest
  <1>2. Dest(p) # None => Dest(p) \in Destinations
    BY <1>1 DEF Arguments, Dest
  <1>. QED  BY <1>1, <1>2 DEF Safe, Kept

\* Once the item is safe, whatever follows is as it should be.
LEMMA ThenStep ==
  ASSUME IInv, NEW p \in Launches, pc[p] \in {"push", "mark"}, Then(p), Kept,
         program' = program, local' = local,
         Dest(p) # None => <<at[p], local[at[p]]>> \in remote'[Dest(p)]
  PROVE  MemoryOK' /\ OthersSame(p) /\ LaunchInv(p)' /\ Holds(p)
  <1>1. LaunchInv(p) /\ MemoryOK /\ pc[p] # "off" /\ pc[p] \in InFlight /\ Holds(p) /\ at[p] \in Items
    BY DEF IInv, TypeOK, InFlight, Holds, MemoryOK
  <1>2. LabelInv(p) /\ \A s \in done[p] \ todo[p] : s \in Shards /\ Safe(p, s)
    BY <1>1 DEF LaunchInv, DoneInv, MemoryOK
  <1>3. args'[p] = args[p] => \A i \in Items : i \in (done[p] \ todo[p]) \cup {at[p]} => Safe(p, i)'
    <2>1. args'[p] = args[p] => \A i \in done[p] \ todo[p] : Safe(p, i)'
      BY <1>1, <1>2, SafeStays, ItemsAre
    <2>2. args'[p] = args[p] /\ at[p] \in Items => local'[at[p]] # None
      BY <1>1 DEF LaunchInv, FlightInv
    <2>3. args'[p] = args[p] => \A i \in Items : i = at[p] => Safe(p, i)'
      BY <2>2 DEF Safe, Dest
    <2>. QED  BY <2>1, <2>3
  <1>4. CASE End(p)
    BY <1>1, <1>4, EndStep
  <1>5. CASE at[p] = Merged /\ program # "sidecar" /\ Move(p, "status")
    <2>1. MemoryOK' /\ OthersSame(p)
      BY <1>1, <1>5 DEF MemoryOK, Move, Goto, Labels, OthersSame, Same
    <2>2. /\ pc'[p] = "status" /\ at'[p] = Merged /\ args'[p] = args[p]
          /\ todo'[p] = todo[p] /\ done'[p] = done[p]
      BY <1>1, <1>5 DEF MemoryOK, Move, Goto
    <2>3. done[p] = Shards /\ todo[p] = {} /\ Dest(p) # None /\ Mergeable /\ local[Merged] = MergedOf
      BY <1>1, <1>5 DEF LaunchInv, MergeInv
    <2>4. program = "lane"
      BY <1>1, <1>2, <1>5, ItemsAre DEF IInv, TypeOK, RootOK, Programs, LabelInv
    <2>5. \A i \in Items : i \in done[p] \cup {Merged} => Safe(p, i)'
      BY <1>3, <1>5, <2>2, <2>3
    <2>6. Mergeable' /\ MergedOf' = MergedOf
      BY <2>3 DEF Mergeable, MergedOf
    <2>7. <<Merged, MergedOf'>> \in remote'[Dest(p)']
      BY <2>2, <2>3, <2>5, <2>6, ItemsAre DEF Safe, Dest
    <2>8. LabelInv(p)' /\ DoneInv(p)' /\ FlightInv(p)' /\ MergeInv(p)' /\ LaneInv(p)'
      <3>1. LabelInv(p)'
        BY <1>2, <2>2, <2>4, <1>1 DEF LabelInv, InFlight
      <3>2. DoneInv(p)' /\ FlightInv(p)'
        BY <2>2, <2>5, <1>1, ItemsAre DEF DoneInv, FlightInv, InFlight, MemoryOK
      <3>3. MergeInv(p)'
        BY <2>2, <2>3, <2>6, <2>7 DEF MergeInv, InFlight, Dest
      <3>4. LaneInv(p)'
        BY <2>2, <2>3 DEF LaneInv, InFlight
      <3>. QED  BY <3>1, <3>2, <3>3, <3>4
    <2>. QED  BY <1>1, <2>1, <2>8 DEF LaunchInv
  <1>6. CASE at[p] # Merged /\ program = "sidecar"
    <2>1. /\ pc' = [pc EXCEPT ![p] = "sync"] /\ todo' = [todo EXCEPT ![p] = @ \ {at[p]}]
          /\ UNCHANGED <<args, at, done, sha>>
      BY <1>1, <1>6 DEF Then, Goto
    <2>2. MemoryOK' /\ OthersSame(p)
      BY <1>1, <2>1 DEF MemoryOK, Labels, OthersSame, Same
    <2>3. /\ pc'[p] = "sync" /\ at'[p] = at[p] /\ args'[p] = args[p]
          /\ todo'[p] = todo[p] \ {at[p]} /\ done'[p] = done[p]
      BY <1>1, <2>1 DEF MemoryOK
    <2>4. DoneInv(p)'
      BY <1>1, <1>3, <2>3, ItemsAre DEF DoneInv, MemoryOK
    <2>5. LabelInv(p)' /\ FlightInv(p)' /\ MergeInv(p)' /\ LaneInv(p)'
      BY <1>1, <1>2, <1>6, <2>3 DEF LabelInv, FlightInv, MergeInv, LaneInv, InFlight, Dest
    <2>. QED  BY <1>1, <2>2, <2>4, <2>5 DEF LaunchInv
  <1>7. CASE at[p] # Merged /\ program = "worker" /\ Move(p, "running")
    <2>1. MemoryOK' /\ OthersSame(p)
      BY <1>1, <1>7 DEF MemoryOK, Move, Goto, Labels, OthersSame, Same
    <2>2. /\ pc'[p] = "running" /\ at'[p] = at[p] /\ args'[p] = args[p]
          /\ todo'[p] = todo[p] /\ done'[p] = done[p]
      BY <1>1, <1>7 DEF MemoryOK, Move, Goto
    <2>3. DoneInv(p)'
      BY <1>1, <1>3, <2>2, ItemsAre DEF DoneInv, MemoryOK
    <2>4. LabelInv(p)' /\ FlightInv(p)' /\ MergeInv(p)' /\ LaneInv(p)'
      BY <1>1, <1>2, <1>7, <2>2, ItemsAre DEF LabelInv, FlightInv, MergeInv, LaneInv, InFlight, Dest
    <2>. QED  BY <1>1, <2>1, <2>3, <2>4 DEF LaunchInv
  <1>8. CASE at[p] # Merged /\ program = "lane" /\ todo[p] = {}
    <2>1. /\ pc' = [pc EXCEPT ![p] = "scan"] /\ at' = [at EXCEPT ![p] = @ + 1]
          /\ done' = [done EXCEPT ![p] = @ \cup {at[p]}] /\ UNCHANGED <<args, todo, sha>>
      BY <1>1, <1>8 DEF Then, Goto
    <2>2. at[p] \in Shards /\ at[p] + 1 \in Items
      BY <1>1, <1>8, ItemsAre
    <2>3. MemoryOK' /\ OthersSame(p)
      BY <1>1, <2>1, <2>2 DEF MemoryOK, Labels, OthersSame, Same
    <2>4. /\ pc'[p] = "scan" /\ at'[p] = at[p] + 1 /\ args'[p] = args[p]
          /\ todo'[p] = {} /\ done'[p] = done[p] \cup {at[p]}
      BY <1>1, <1>8, <2>1 DEF MemoryOK
    <2>5. DoneInv(p)'
      BY <1>1, <1>3, <1>8, <2>2, <2>4, ItemsAre DEF DoneInv, MemoryOK
    <2>6. LabelInv(p)' /\ FlightInv(p)' /\ MergeInv(p)'
      BY <1>1, <1>2, <1>8, <2>4 DEF LabelInv, FlightInv, MergeInv, InFlight, Dest
    <2>7. \A s \in Shards : s < at[p] + 1 => s < at[p] \/ s = at[p]
      BY <2>2, NumShardsAssumption DEF Shards
    <2>8. LaneInv(p)'
      BY <1>1, <1>8, <2>4, <2>7 DEF LaunchInv, LaneInv, InFlight
    <2>. QED  BY <1>1, <2>3, <2>5, <2>6, <2>8 DEF LaunchInv
  <1>9. CASE at[p] # Merged /\ program = "lane" /\ todo[p] # {} /\ Move(p, "barrier")
    <2>1. MemoryOK' /\ OthersSame(p)
      BY <1>1, <1>9 DEF MemoryOK, Move, Goto, Labels, OthersSame, Same
    <2>2. /\ pc'[p] = "barrier" /\ at'[p] = at[p] /\ args'[p] = args[p]
          /\ todo'[p] = todo[p] /\ done'[p] = done[p]
      BY <1>1, <1>9 DEF MemoryOK, Move, Goto
    <2>3. DoneInv(p)'
      BY <1>1, <1>3, <2>2, ItemsAre DEF DoneInv, MemoryOK
    <2>4. LabelInv(p)' /\ FlightInv(p)' /\ MergeInv(p)'
      BY <1>1, <1>2, <1>9, <2>2, ItemsAre DEF LabelInv, FlightInv, MergeInv, InFlight, Dest
    <2>5. LaneInv(p)'
      BY <1>1, <1>9, <2>2 DEF LaunchInv, LaneInv, InFlight
    <2>. QED  BY <1>1, <2>1, <2>3, <2>4, <2>5 DEF LaunchInv
  <1>. QED
    <2>1. program \in Programs
      BY DEF IInv, TypeOK, RootOK
    <2>. QED  BY <1>1, <1>4, <1>5, <1>6, <1>7, <1>8, <1>9, <2>1 DEF Then, Programs

\* A marker that binds is backed, so nothing is uploaded again.
LEMMA PushInv == ASSUME IInv, NEW p \in Launches, Push(p) PROVE IInv'
  <1>1. pc[p] = "push" /\ Still /\ UNCHANGED <<peer, smoked>> /\ TypeOK /\ LaunchInv(p)
    BY DEF Push, disk, Still, IInv
  <1>2. RootOK' /\ Kept /\ at[p] \in Items /\ local[at[p]] # None
    BY <1>1 DEF TypeOK, RootOK, Still, Kept, MemoryOK, LaunchInv, FlightInv, InFlight
  <1>3. CASE End(p)
    BY <1>1, <1>2, <1>3, QuietEnd
  <1>4. CASE (Dest(p) = None \/ Bound(p, at[p])) /\ Then(p)
    <2>1. ASSUME Dest(p) # None
          PROVE  <<at[p], local[at[p]]>> \in remote[Dest(p)]
      <3>1. Dest(p) \in Destinations /\ local[at[p]] \in Contents
        BY <1>1, <1>2, <2>1 DEF LaunchInv, LabelInv, Arguments, Dest, TypeOK, RootOK
      <3>2. marker[at[p]] \in Markers
        BY <1>4, <2>1, <3>1 DEF Bound, Markers
      <3>3. marker[at[p]] # None /\ marker[at[p]].content = local[at[p]] /\ marker[at[p]].dest = Dest(p)
        BY <1>4, <2>1, <3>2, NoneAssumption DEF Bound
      <3>. QED  BY <1>2, <3>3 DEF IInv, RemoteBacked
    <2>2. MemoryOK' /\ OthersSame(p) /\ LaunchInv(p)' /\ Holds(p)
      BY <1>1, <1>2, <1>4, <2>1, ThenStep DEF Still
    <2>. QED  BY <1>1, <1>2, <2>2, QuietStep DEF TypeOK
  <1>5. CASE /\ Dest(p) # None /\ marker[at[p]] = None
             /\ Goto(p, "commit") /\ sha' = [sha EXCEPT ![p] = local[at[p]]]
             /\ UNCHANGED <<args, at, todo, done>>
    <2>1. MemoryOK' /\ OthersSame(p)
      BY <1>1, <1>2, <1>5 DEF TypeOK, MemoryOK, RootOK, Goto, Labels, OthersSame, Same
    <2>2. /\ pc'[p] = "commit" /\ sha'[p] = local[at[p]] /\ at'[p] = at[p] /\ args'[p] = args[p]
          /\ todo'[p] = todo[p] /\ done'[p] = done[p]
      BY <1>1, <1>5 DEF TypeOK, MemoryOK, Goto
    <2>3. LaunchInv(p)'
      <3>1. LabelInv(p)' /\ FlightInv(p)'
        BY <1>1, <1>2, <1>5, <2>2 DEF Still, LaunchInv, LabelInv, FlightInv, InFlight, Dest
      <3>2. DoneInv(p)' /\ MergeInv(p)' /\ LaneInv(p)'
        BY <1>1, <2>2 DEF Still, LaunchInv, DoneInv, MergeInv, LaneInv, InFlight, Dest, Safe, Mergeable, MergedOf
      <3>. QED  BY <3>1, <3>2 DEF LaunchInv
    <2>4. Holds(p)
      BY <1>1 DEF Holds
    <2>. QED  BY <1>1, <1>2, <2>1, <2>3, <2>4, QuietStep DEF TypeOK
  <1>. QED  BY <1>3, <1>4, <1>5 DEF Push

LEMMA CommitInv == ASSUME IInv, NEW p \in Launches, Commit(p) PROVE IInv'
  <1>1. /\ pc[p] = "commit" /\ UNCHANGED <<program, peer, local, marker, smoked, status>>
        /\ TypeOK /\ LaunchInv(p)
    BY DEF Commit, disk, IInv
  <1>2. /\ at[p] \in Items /\ local[at[p]] \in Contents /\ Dest(p) \in Destinations
        /\ sha[p] = local[at[p]]
    <2>1. args[p] \in Arguments /\ Dest(p) # None /\ local[at[p]] # None /\ sha[p] = local[at[p]]
      BY <1>1 DEF LaunchInv, LabelInv, FlightInv, InFlight
    <2>. QED  BY <1>1, <2>1 DEF TypeOK, RootOK, MemoryOK, Arguments, Dest
  <1>3. remote' = [remote EXCEPT ![Dest(p)] = @ \cup {<<at[p], local[at[p]]>>}]
    BY DEF Commit
  <1>4. RootOK' /\ Kept /\ <<at[p], local[at[p]]>> \in remote'[Dest(p)]
    BY <1>1, <1>2, <1>3 DEF TypeOK, RootOK, Kept
  <1>5. MemoryOK' /\ OthersSame(p)
    BY <1>1 DEF Commit, TypeOK, MemoryOK, Move, Goto, Labels, OthersSame, Same
  <1>6. /\ pc'[p] = "mark" /\ sha'[p] = sha[p] /\ at'[p] = at[p] /\ args'[p] = args[p]
        /\ todo'[p] = todo[p] /\ done'[p] = done[p]
    BY <1>1 DEF Commit, TypeOK, MemoryOK, Move, Goto
  <1>7. LaunchInv(p)'
    <2>1. \A i \in Items : Safe(p, i) => Safe(p, i)'
      BY <1>1, <1>4, <1>6, SafeStays DEF TypeOK, LaunchInv
    <2>2. DoneInv(p)'
      BY <1>1, <1>6, <2>1, ItemsAre DEF LaunchInv, DoneInv, TypeOK, MemoryOK
    <2>3. LabelInv(p)' /\ FlightInv(p)'
      BY <1>1, <1>2, <1>4, <1>6 DEF LaunchInv, LabelInv, FlightInv, InFlight, Dest
    <2>4. MergeInv(p)' /\ LaneInv(p)'
      BY <1>1, <1>6 DEF LaunchInv, MergeInv, LaneInv, InFlight, Dest, Mergeable, MergedOf
    <2>. QED  BY <2>2, <2>3, <2>4 DEF LaunchInv
  <1>8. RootInv' /\ Holds(p)
    BY <1>1 DEF IInv, RootInv, Mergeable, MergedOf, Holds
  <1>. QED  BY <1>1, <1>4, <1>5, <1>7, <1>8, StatusStays, MarkersStay, Frame DEF TypeOK

\* The marker of the merged artifact comes after every receipt was uploaded.
LEMMA MarkInv == ASSUME IInv, NEW p \in Launches, Mark(p) PROVE IInv'
  <1>1. /\ pc[p] = "mark" /\ UNCHANGED <<program, peer, local, smoked, remote, status>> /\ Then(p)
        /\ TypeOK /\ LaunchInv(p)
        /\ marker' = [marker EXCEPT ![at[p]] = [content |-> sha[p], dest |-> Dest(p)]]
    BY DEF Mark, IInv
  <1>2. /\ at[p] \in Items /\ local[at[p]] \in Contents /\ Dest(p) \in Destinations
        /\ sha[p] = local[at[p]] /\ <<at[p], local[at[p]]>> \in remote[Dest(p)]
    <2>1. /\ args[p] \in Arguments /\ Dest(p) # None /\ local[at[p]] # None /\ sha[p] = local[at[p]]
          /\ <<at[p], sha[p]>> \in remote[Dest(p)]
      BY <1>1 DEF LaunchInv, LabelInv, FlightInv, InFlight
    <2>. QED  BY <1>1, <2>1 DEF TypeOK, RootOK, MemoryOK, Arguments, Dest
  <1>3. RootOK' /\ Kept
    BY <1>1, <1>2 DEF TypeOK, RootOK, Kept, Markers
  <1>4. MemoryOK' /\ OthersSame(p) /\ LaunchInv(p)' /\ Holds(p)
    BY <1>1, <1>2, <1>3, ThenStep
  <1>5. at[p] = Merged => \A s \in Shards : <<s, local[Merged][s]>> \in remote[Dest(p)]
    <2>1. ASSUME at[p] = Merged, NEW s \in Shards
          PROVE  <<s, local[Merged][s]>> \in remote[Dest(p)]
      <3>1. s \in done[p] \ todo[p] /\ Dest(p) # None /\ local[Merged] = MergedOf
        BY <1>1, <2>1 DEF LaunchInv, MergeInv, InFlight
      <3>2. Safe(p, s) /\ local[Merged][s] = local[s]
        BY <1>1, <3>1 DEF LaunchInv, DoneInv, MergedOf
      <3>. QED  BY <3>1, <3>2 DEF Safe
    <2>. QED  BY <2>1
  <1>6. RemoteBacked'
    <2>1. ASSUME NEW i \in Items, i = at[p]
          PROVE  /\ marker'[i].content = local[i] /\ marker'[i].dest = Dest(p)
      BY <1>1, <1>2, <2>1 DEF TypeOK, RootOK
    <2>2. ASSUME NEW i \in Items, i # at[p]
          PROVE  marker'[i] = marker[i]
      BY <1>1, <2>2 DEF TypeOK, RootOK
    <2>. QED  BY <1>1, <1>2, <1>5, <2>1, <2>2 DEF IInv, RemoteBacked
  <1>7. RootInv'
    BY <1>1 DEF IInv, RootInv, Mergeable, MergedOf
  <1>. QED  BY <1>1, <1>3, <1>4, <1>6, <1>7, StatusStays, Frame DEF TypeOK

------------------------------------------------------------------------------
(* Start and lane. *)

LEMMA StartInv == ASSUME IInv, NEW p \in Launches, NEW a \in Arguments, Start(p, a) PROVE IInv'
  <1>1. /\ pc[p] = "off" /\ Accepted(a) /\ UNCHANGED <<program, local, marker, remote, status>>
        /\ TypeOK /\ LaunchInv(p) /\ UNCHANGED smoked
        /\ UNCHANGED <<at, todo, done, sha>> /\ args' = [args EXCEPT ![p] = a]
        /\ peer' = [peer EXCEPT ![p] = program = "lane"]
    BY DEF Start, disk, IInv
  <1>. DEFINE first == CASE program = "lane" -> "scan" [] program = "worker" -> "walk" [] program = "sidecar" -> "list"
  <1>2. first \in Labels \ {"off"} /\ pc' = [pc EXCEPT ![p] = first]
    BY <1>1 DEF Start, Goto, TypeOK, RootOK, Programs, Labels
  <1>3. TypeOK' /\ OthersSame(p)
    BY <1>1, <1>2 DEF TypeOK, MemoryOK, RootOK, OthersSame, Same
  <1>4. /\ pc'[p] = first /\ args'[p] = a /\ at'[p] = 0 /\ todo'[p] = {} /\ done'[p] = {}
    BY <1>1, <1>2 DEF TypeOK, MemoryOK, LaunchInv, LabelInv
  <1>5. LaunchInv(p)'
    <2>1. LabelInv(p)'
      BY <1>1, <1>4 DEF LabelInv, Accepted, TypeOK, RootOK, Programs, Dest, InFlight
    <2>2. first \in {"scan", "walk", "list"} /\ (program = "lane" => first = "scan")
      BY <1>1 DEF TypeOK, RootOK, Programs
    <2>3. \A s \in Shards : ~(s < 0)
      BY NumShardsAssumption DEF Shards
    <2>. HIDE DEF first
    <2>4. DoneInv(p)' /\ FlightInv(p)' /\ MergeInv(p)' /\ LaneInv(p)'
      BY <1>4, <2>2, <2>3 DEF DoneInv, FlightInv, MergeInv, LaneInv, InFlight
    <2>. QED  BY <2>1, <2>4 DEF LaunchInv
  <1>6. program = "lane" => LockFree(p)
    BY DEF Start
  <1>. QED  BY <1>1, <1>3, <1>5, <1>6, QuietStep DEF Still

LEMMA ScanInv == ASSUME IInv, NEW p \in Launches, Scan(p) PROVE IInv'
  <1>1. /\ pc[p] = "scan" /\ at[p] \in Shards /\ Still /\ TypeOK /\ LaunchInv(p)
        /\ UNCHANGED <<peer, smoked>>
    BY DEF Scan, disk, Still, IInv
  <1>2. RootOK'
    BY <1>1 DEF TypeOK, RootOK, Still
  <1>3. program = "lane" /\ Holds(p)
    BY <1>1 DEF LaunchInv, LabelInv, Holds
  <1>4. CASE End(p)
    BY <1>1, <1>2, <1>4, QuietEnd
  <1>5. CASE local[at[p]] = None /\ MoveAt(p, at[p] + 1, "scan")
    <2>1. MemoryOK' /\ OthersSame(p)
      BY <1>1, <1>5, ItemsAre DEF TypeOK, MemoryOK, MoveAt, Goto, Labels, OthersSame, Same
    <2>2. /\ pc'[p] = "scan" /\ at'[p] = at[p] + 1 /\ args'[p] = args[p]
          /\ todo'[p] = todo[p] /\ done'[p] = done[p]
      BY <1>1, <1>5 DEF TypeOK, MemoryOK, MoveAt, Goto
    <2>3. \A s \in Shards : s < at[p] + 1 => s < at[p] \/ s = at[p]
      BY <1>1, NumShardsAssumption DEF Shards
    <2>4. LaneInv(p)'
      BY <1>1, <1>3, <1>5, <2>2, <2>3 DEF Still, LaunchInv, LaneInv, InFlight
    <2>5. LabelInv(p)' /\ DoneInv(p)' /\ FlightInv(p)' /\ MergeInv(p)'
      BY <1>1, <1>3, <2>2 DEF Still, LaunchInv, LabelInv, DoneInv, FlightInv, MergeInv, InFlight, Dest, Safe
    <2>. QED  BY <1>1, <1>2, <1>3, <2>1, <2>4, <2>5, QuietStep DEF TypeOK, LaunchInv
  <1>6. CASE local[at[p]] # None /\ Move(p, "push")
    <2>1. MemoryOK' /\ OthersSame(p)
      BY <1>1, <1>6 DEF TypeOK, MemoryOK, Move, Goto, Labels, OthersSame, Same
    <2>2. /\ pc'[p] = "push" /\ at'[p] = at[p] /\ args'[p] = args[p]
          /\ todo'[p] = todo[p] /\ done'[p] = done[p]
      BY <1>1, <1>6 DEF TypeOK, MemoryOK, Move, Goto
    <2>3. LabelInv(p)' /\ DoneInv(p)' /\ FlightInv(p)' /\ MergeInv(p)' /\ LaneInv(p)'
      BY <1>1, <1>3, <1>6, <2>2, ItemsAre
      DEF Still, LaunchInv, LabelInv, DoneInv, FlightInv, MergeInv, LaneInv, InFlight, Dest, Safe
    <2>. QED  BY <1>1, <1>2, <1>3, <2>1, <2>3, QuietStep DEF TypeOK, LaunchInv
  <1>7. args[p].rt # None
    BY <1>1, NoneAssumption DEF LaunchInv, LabelInv, Arguments, Contents
  <1>. QED  BY <1>4, <1>5, <1>6, <1>7 DEF Scan

\* Every shard was looked at, so what is not on the list is missing.
LEMMA AgreeInv == ASSUME IInv, NEW p \in Launches, Agree(p) PROVE IInv'
  <1>. DEFINE missing == Shards \ done[p]
              label == IF args[p].smoke THEN "smoke" ELSE "capture"
              rest == IF args[p].limit /\ missing # {} THEN {Min(missing)} ELSE missing
  <1>1. /\ pc[p] = "scan" /\ at[p] = Merged /\ Still /\ TypeOK /\ LaunchInv(p)
        /\ UNCHANGED <<peer, smoked>>
    BY DEF Agree, disk, Still, IInv
  <1>2. RootOK'
    BY <1>1 DEF TypeOK, RootOK, Still
  <1>3. program = "lane" /\ Holds(p)
    BY <1>1 DEF LaunchInv, LabelInv, Holds
  <1>4. CASE End(p)
    BY <1>1, <1>2, <1>4, QuietEnd
  <1>5. CASE /\ pc' = [pc EXCEPT ![p] = label] /\ at' = [at EXCEPT ![p] = 0]
             /\ todo' = [todo EXCEPT ![p] = rest] /\ UNCHANGED <<args, done, sha>>
    <2>1. rest \subseteq missing
      <3>1. missing # {} => Min(missing) \in missing
        BY MinIsLeast, ItemsAre
      <3>. QED  BY <3>1
    <2>2. label \in {"smoke", "capture"}
      OBVIOUS
    <2>. HIDE DEF label, rest
    <2>3. MemoryOK' /\ OthersSame(p)
      BY <1>1, <1>5, <2>1, <2>2, ItemsAre DEF TypeOK, MemoryOK, Labels, OthersSame, Same
    <2>4. /\ pc'[p] = label /\ at'[p] = 0 /\ args'[p] = args[p]
          /\ todo'[p] = rest /\ done'[p] = done[p]
      BY <1>1, <1>5 DEF TypeOK, MemoryOK
    <2>5. \A s \in Shards : local[s] # None => s \in done[p]
      BY <1>1, <1>3, ItemsAre DEF LaunchInv, LaneInv
    <2>6. LaneInv(p)'
      BY <1>1, <2>1, <2>2, <2>4, <2>5 DEF Still, LaneInv, InFlight
    <2>7. LabelInv(p)' /\ FlightInv(p)' /\ MergeInv(p)'
      BY <1>1, <1>3, <2>2, <2>4, ItemsAre DEF Still, LaunchInv, LabelInv, FlightInv, MergeInv, InFlight, Dest
    <2>8. DoneInv(p)'
      BY <1>1, <1>3, <2>2, <2>4, <2>1 DEF Still, LaunchInv, DoneInv, LaneInv, Dest, Safe
    <2>. QED  BY <1>1, <1>2, <1>3, <2>3, <2>6, <2>7, <2>8, QuietStep DEF TypeOK, LaunchInv
  <1>. QED  BY <1>4, <1>5 DEF Agree, Together, Goto

LEMMA SmokeInv == ASSUME IInv, NEW p \in Launches, Smoke(p) PROVE IInv'
  <1>1. Still /\ End(p) /\ RootOK
    BY DEF Smoke, Still, IInv, TypeOK
  <1>2. RootOK'
    BY <1>1 DEF RootOK, Still, Smoke
  <1>. QED  BY <1>1, <1>2, QuietEnd

\* What a lane captures was missing, and still is: the lock.
LEMMA CaptureInv == ASSUME IInv, NEW p \in Launches, Capture(p) PROVE IInv' /\ Kept
  <1>. DEFINE s == Min(todo[p])
  <1>1. /\ pc[p] = "capture" /\ todo[p] # {} /\ TypeOK /\ LaunchInv(p)
        /\ UNCHANGED <<program, peer, marker, smoked, remote, status>>
    BY DEF Capture, IInv
  <1>2. program = "lane" /\ Holds(p) /\ args[p] \in Arguments
    BY <1>1 DEF LaunchInv, LabelInv, Holds
  <1>3. CASE End(p) /\ UNCHANGED local
    <2>1. Still /\ RootOK'
      BY <1>1, <1>3 DEF Still, TypeOK, RootOK
    <2>. QED  BY <1>3, <2>1, QuietEnd DEF Still, Kept
  <1>4. CASE local' = [local EXCEPT ![s] = args[p].rt] /\ MoveAt(p, s, "push")
    <2>1. s \in todo[p] /\ s \in Shards
      BY <1>1, MinIsLeast, ItemsAre DEF TypeOK, MemoryOK
    <2>2. local[s] = None /\ s \notin done[p]
      BY <1>1, <1>2, <2>1 DEF LaunchInv, LaneInv, InFlight
    <2>. HIDE DEF s
    <2>3. args[p].rt \in Runtimes /\ args[p].rt # None
      BY <1>2, NoneAssumption DEF Arguments, Contents
    <2>4. /\ local'[s] = args[p].rt
          /\ \A i \in Items : i # s => local'[i] = local[i]
      BY <1>1, <1>4, <2>1, ItemsAre DEF TypeOK, RootOK
    <2>5. Kept
      BY <1>1, <2>2, <2>4 DEF Kept
    <2>6. local[Merged] = None
      BY <1>2, <2>1, <2>2 DEF IInv, RootInv, Mergeable
    <2>7. RootInv'
      BY <1>1, <2>1, <2>3, <2>4, <2>6, ItemsAre DEF IInv, RootInv
    <2>8. RootOK' /\ MemoryOK' /\ OthersSame(p)
      BY <1>1, <1>4, <2>1, <2>3, ItemsAre
      DEF TypeOK, RootOK, MemoryOK, MoveAt, Goto, Labels, Contents, OthersSame, Same
    <2>9. /\ pc'[p] = "push" /\ at'[p] = s /\ args'[p] = args[p]
          /\ todo'[p] = todo[p] /\ done'[p] = done[p]
      BY <1>1, <1>4 DEF TypeOK, MemoryOK, MoveAt, Goto
    <2>10. LaunchInv(p)'
      <3>1. DoneInv(p)'
        BY <1>1, <2>5, <2>9, SafeStays, ItemsAre DEF LaunchInv, DoneInv, TypeOK, MemoryOK
      <3>2. LabelInv(p)' /\ FlightInv(p)' /\ MergeInv(p)'
        BY <1>1, <1>2, <2>1, <2>3, <2>4, <2>9, ItemsAre
        DEF LaunchInv, LabelInv, FlightInv, MergeInv, InFlight, Dest
      <3>3. LaneInv(p)'
        BY <1>1, <1>2, <2>1, <2>4, <2>9, ItemsAre DEF LaunchInv, LaneInv, InFlight
      <3>. QED  BY <3>1, <3>2, <3>3 DEF LaunchInv
    <2>. QED  BY <1>1, <1>2, <2>5, <2>7, <2>8, <2>10, StatusStays, MarkersStay, Frame DEF TypeOK
  <1>. QED  BY <1>3, <1>4 DEF Capture

LEMMA BarrierInv == ASSUME IInv, NEW p \in Launches, Barrier(p) PROVE IInv'
  <1>1. /\ pc[p] = "barrier" /\ Still /\ TypeOK /\ LaunchInv(p) /\ UNCHANGED <<peer, smoked>>
    BY DEF Barrier, disk, Still, IInv
  <1>2. RootOK' /\ Kept
    BY <1>1 DEF TypeOK, RootOK, Still, Kept
  <1>3. program = "lane" /\ Holds(p) /\ at[p] \in Shards
    BY <1>1 DEF LaunchInv, LabelInv, Holds
  <1>4. CASE End(p)
    BY <1>1, <1>2, <1>4, QuietEnd
  <1>5. CASE /\ Goto(p, "capture") /\ todo' = [todo EXCEPT ![p] = @ \ {at[p]}]
             /\ done' = [done EXCEPT ![p] = @ \cup {at[p]}] /\ UNCHANGED <<args, at, sha>>
    <2>1. MemoryOK' /\ OthersSame(p)
      BY <1>1, <1>3, <1>5 DEF TypeOK, MemoryOK, Goto, Labels, OthersSame, Same
    <2>2. /\ pc'[p] = "capture" /\ at'[p] = at[p] /\ args'[p] = args[p]
          /\ todo'[p] = todo[p] \ {at[p]} /\ done'[p] = done[p] \cup {at[p]}
      BY <1>1, <1>5 DEF TypeOK, MemoryOK, Goto
    <2>3. DoneInv(p)'
      <3>1. \A s \in done[p] : s \in Items /\ s \notin todo[p] /\ Safe(p, s)
        BY <1>1, <1>3, ItemsAre DEF LaunchInv, DoneInv, LaneInv, TypeOK, MemoryOK
      <3>2. \A s \in done[p] \cup {at[p]} : s \in Items /\ Safe(p, s)
        BY <1>1, <1>3, <3>1, ItemsAre DEF LaunchInv, DoneInv
      <3>3. \A s \in done[p] \cup {at[p]} : Safe(p, s)'
        BY <1>1, <1>2, <2>2, <3>2, SafeStays DEF TypeOK, LaunchInv
      <3>. QED  BY <2>2, <3>3 DEF DoneInv
    <2>4. LabelInv(p)' /\ FlightInv(p)' /\ MergeInv(p)' /\ LaneInv(p)'
      BY <1>1, <1>3, <2>2 DEF Still, LaunchInv, LabelInv, FlightInv, MergeInv, LaneInv, InFlight, Dest
    <2>. QED  BY <1>1, <1>2, <1>3, <2>1, <2>3, <2>4, QuietStep DEF TypeOK, LaunchInv
  <1>. QED  BY <1>4, <1>5 DEF Barrier, Together

LEMMA FinishInv == ASSUME IInv, NEW p \in Launches, Finish(p) PROVE IInv'
  <1>. DEFINE label == IF done[p] = Shards /\ Dest(p) # None /\ ~args[p].limit THEN "merge" ELSE "status"
  <1>1. /\ pc[p] = "capture" /\ todo[p] = {} /\ Move(p, label) /\ Still /\ TypeOK /\ LaunchInv(p)
        /\ UNCHANGED smoked /\ peer' = [peer EXCEPT ![p] = FALSE]
    BY DEF Finish, disk, Still, IInv
  <1>2. program = "lane" /\ Holds(p) /\ at[p] \in Shards /\ at[p] # Merged
    BY <1>1, ItemsAre DEF LaunchInv, LabelInv, Holds
  <1>3. label \in {"merge", "status"} /\ (label = "merge" => done[p] = Shards /\ Dest(p) # None)
    OBVIOUS
  <1>. HIDE DEF label
  <1>4. TypeOK' /\ OthersSame(p)
    BY <1>1, <1>3 DEF TypeOK, RootOK, MemoryOK, Still, Move, Goto, Labels, OthersSame, Same
  <1>5. /\ pc'[p] = label /\ at'[p] = at[p] /\ args'[p] = args[p]
        /\ todo'[p] = {} /\ done'[p] = done[p]
    BY <1>1 DEF TypeOK, MemoryOK, Move, Goto
  <1>6. DoneInv(p)'
    BY <1>1, <1>3, <1>5 DEF Still, LaunchInv, DoneInv, Dest, Safe
  <1>7. LabelInv(p)' /\ FlightInv(p)' /\ MergeInv(p)' /\ LaneInv(p)'
    BY <1>1, <1>2, <1>3, <1>5 DEF Still, LaunchInv, LabelInv, FlightInv, MergeInv, LaneInv, InFlight, Dest
  <1>. QED  BY <1>1, <1>2, <1>4, <1>6, <1>7, QuietStep DEF LaunchInv

\* The artifact is written again, but there is only one it can be.
LEMMA MergeKeeps == ASSUME IInv, NEW p \in Launches, Merge(p) PROVE IInv' /\ Kept
  <1>1. /\ pc[p] = "merge" /\ TypeOK /\ LaunchInv(p)
        /\ UNCHANGED <<program, peer, marker, smoked, remote, status>>
    BY DEF Merge, IInv
  <1>2. Holds(p)
    BY <1>1 DEF Holds
  <1>3. CASE End(p) /\ UNCHANGED local
    <2>1. Still /\ RootOK'
      BY <1>1, <1>3 DEF Still, TypeOK, RootOK
    <2>. QED  BY <1>3, <2>1, QuietEnd DEF Still, Kept
  <1>4. CASE Mergeable /\ local' = [local EXCEPT ![Merged] = MergedOf] /\ MoveAt(p, Merged, "push")
    <2>1. MergedOf \in [Shards -> Runtimes] /\ MergedOf # None
      <3>1. \A s \in Shards : local[s] \in Runtimes
        BY <1>4 DEF Mergeable, IInv, RootInv
      <3>2. MergedOf \in [Shards -> Runtimes]
        BY <3>1 DEF MergedOf
      <3>. QED  BY <3>2, NoneAssumption DEF Contents
    <2>2. local'[Merged] = MergedOf /\ \A s \in Shards : local'[s] = local[s]
      BY <1>1, <1>4, ItemsAre DEF TypeOK, RootOK
    <2>3. Mergeable' /\ MergedOf' = MergedOf
      BY <1>4, <2>2, ItemsAre DEF Mergeable, MergedOf
    <2>4. Kept
      BY <1>1, <1>4, <2>2, ItemsAre DEF Kept, IInv, RootInv
    <2>5. RootInv'
      BY <2>1, <2>2, <2>3 DEF IInv, RootInv
    <2>6. RootOK' /\ MemoryOK' /\ OthersSame(p)
      BY <1>1, <1>4, <2>1, ItemsAre
      DEF TypeOK, RootOK, MemoryOK, MoveAt, Goto, Labels, Contents, OthersSame, Same
    <2>7. /\ pc'[p] = "push" /\ at'[p] = Merged /\ args'[p] = args[p]
          /\ todo'[p] = todo[p] /\ done'[p] = done[p]
      BY <1>1, <1>4 DEF TypeOK, MemoryOK, MoveAt, Goto
    <2>8. done[p] = Shards /\ todo[p] = {} /\ Dest(p) # None
      BY <1>1 DEF LaunchInv, MergeInv
    <2>9. LaunchInv(p)'
      <3>1. DoneInv(p)'
        BY <1>1, <2>4, <2>7, SafeStays, ItemsAre DEF LaunchInv, DoneInv, TypeOK, MemoryOK
      <3>2. LabelInv(p)' /\ FlightInv(p)'
        BY <1>1, <2>1, <2>2, <2>7, ItemsAre DEF LaunchInv, LabelInv, FlightInv, InFlight, Dest
      <3>3. MergeInv(p)' /\ LaneInv(p)'
        BY <2>2, <2>3, <2>7, <2>8 DEF MergeInv, LaneInv, InFlight, Dest
      <3>. QED  BY <3>1, <3>2, <3>3 DEF LaunchInv
    <2>. QED  BY <1>1, <1>2, <2>4, <2>5, <2>6, <2>9, StatusStays, MarkersStay, Frame DEF TypeOK
  <1>. QED  BY <1>3, <1>4 DEF Merge

------------------------------------------------------------------------------
(* The worker, and the final status. *)

LEMMA WalkInv == ASSUME IInv, NEW p \in Launches, Walk(p) PROVE IInv' /\ Kept
  <1>1. /\ pc[p] = "walk" /\ at[p] \in Shards /\ Move(p, "push") /\ TypeOK /\ LaunchInv(p)
        /\ local' = IF local[at[p]] = None THEN [local EXCEPT ![at[p]] = args[p].rt] ELSE local
        /\ UNCHANGED <<program, peer, marker, smoked, remote, status>>
    BY DEF Walk, IInv
  <1>2. program = "worker" /\ Holds(p) /\ args[p] \in Arguments
    BY <1>1 DEF LaunchInv, LabelInv, Holds
  <1>3. args[p].rt \in Runtimes /\ args[p].rt # None
    BY <1>2, NoneAssumption DEF Arguments, Contents
  <1>4. /\ local'[at[p]] \in Runtimes /\ local'[at[p]] # None
        /\ \A i \in Items : i # at[p] \/ local[i] # None => local'[i] = local[i]
    BY <1>1, <1>3, ItemsAre DEF TypeOK, RootOK, IInv, RootInv
  <1>5. Kept
    BY <1>1, <1>4 DEF Kept
  <1>6. local[Merged] # None => Mergeable /\ local' = local
    BY <1>1, <1>2 DEF IInv, RootInv, Mergeable
  <1>7. RootInv'
    <2>1. CASE local[Merged] = None
      BY <1>1, <1>4, <2>1, ItemsAre DEF IInv, RootInv
    <2>2. CASE local[Merged] # None
      BY <1>1, <1>6, <2>2 DEF IInv, RootInv, Mergeable, MergedOf
    <2>. QED  BY <2>1, <2>2
  <1>8. RootOK' /\ MemoryOK' /\ OthersSame(p)
    BY <1>1, <1>3, ItemsAre DEF TypeOK, RootOK, MemoryOK, Move, Goto, Labels, Contents, OthersSame, Same
  <1>9. /\ pc'[p] = "push" /\ at'[p] = at[p] /\ args'[p] = args[p]
        /\ todo'[p] = todo[p] /\ done'[p] = done[p]
    BY <1>1 DEF TypeOK, MemoryOK, Move, Goto
  <1>10. LaunchInv(p)'
    <2>1. DoneInv(p)'
      BY <1>1, <1>5, <1>9, SafeStays, ItemsAre DEF LaunchInv, DoneInv, TypeOK, MemoryOK
    <2>2. LabelInv(p)' /\ FlightInv(p)' /\ MergeInv(p)' /\ LaneInv(p)'
      BY <1>1, <1>2, <1>4, <1>9, ItemsAre
      DEF LaunchInv, LabelInv, FlightInv, MergeInv, LaneInv, InFlight, Dest
    <2>. QED  BY <2>1, <2>2 DEF LaunchInv
  <1>. QED  BY <1>1, <1>2, <1>5, <1>7, <1>8, <1>10, StatusStays, MarkersStay, Frame DEF TypeOK

\* A status that lists what its launch knows to be safe is honest.
LEMMA StatusWritten ==
  ASSUME IInv, UNCHANGED <<local, remote>>, NEW p \in Launches, pc[p] # "off",
         NEW S \in SUBSET Shards, \A s \in S : Safe(p, s), NEW state \in States,
         status' = [state |-> state, dest |-> Dest(p), done |-> S],
         state \in {"FULL_LANE_COMPLETE", "WORKER_COMPLETE"} => S = Shards,
         state = "FULL_LANE_COMPLETE" =>
           Dest(p) # None /\ Mergeable /\ <<Merged, MergedOf>> \in remote[Dest(p)]
  PROVE  StatusHonest' /\ status' \in Statuses
  <1>1. Dest(p) \in Destinations \cup {None}
    BY DEF IInv, LaunchInv, LabelInv, Arguments, Dest
  <1>2. status' \in Statuses
    BY <1>1 DEF Statuses
  <1>3. /\ \A s \in status'.done : local'[s] # None
        /\ status'.dest # None => \A s \in status'.done : <<s, local'[s]>> \in remote'[status'.dest]
    BY DEF Safe
  <1>4. Mergeable' = Mergeable /\ MergedOf' = MergedOf
    BY DEF Mergeable, MergedOf
  <1>5. status'.state = "FULL_LANE_COMPLETE" => status'.dest # None
          /\ Mergeable' /\ <<Merged, MergedOf'>> \in remote'[status'.dest]
    BY <1>4
  <1>. QED  BY <1>2, <1>3, <1>5 DEF StatusHonest

LEMMA RunningInv == ASSUME IInv, NEW p \in Launches, Running(p) PROVE IInv'
  <1>1. /\ pc[p] = "running" /\ TypeOK /\ LaunchInv(p) /\ Goto(p, "walk")
        /\ done' = [done EXCEPT ![p] = @ \cup {at[p]}] /\ at' = [at EXCEPT ![p] = @ + 1]
        /\ status' = [state |-> "RUNNING", dest |-> Dest(p), done |-> done'[p]]
        /\ UNCHANGED <<program, peer, args, todo, sha, local, marker, smoked, remote>>
    BY DEF Running, disk, IInv
  <1>2. program = "worker" /\ Holds(p) /\ at[p] \in Shards /\ at[p] + 1 \in Items
    BY <1>1, ItemsAre DEF LaunchInv, LabelInv, Holds
  <1>3. /\ pc'[p] = "walk" /\ at'[p] = at[p] + 1 /\ args'[p] = args[p]
        /\ todo'[p] = todo[p] /\ done'[p] = done[p] \cup {at[p]}
    BY <1>1 DEF TypeOK, MemoryOK, Goto
  <1>4. MemoryOK' /\ OthersSame(p) /\ Kept
    BY <1>1, <1>2 DEF TypeOK, MemoryOK, Goto, Labels, OthersSame, Same, Kept
  <1>5. RootInv' /\ RootOK' /\ RemoteBacked' /\ StatusHonest'
    <2>1. \A s \in done[p] \cup {at[p]} : Safe(p, s)
      BY <1>1, <1>2 DEF LaunchInv, LabelInv, DoneInv
    <2>2. done[p] \cup {at[p]} \in SUBSET Shards
      BY <1>1, <1>2 DEF TypeOK, MemoryOK
    <2>3. StatusHonest' /\ status' \in Statuses
      BY <1>1, <1>3, <2>1, <2>2, StatusWritten DEF States
    <2>4. RootInv'
      BY <1>1 DEF IInv, RootInv, Mergeable, MergedOf
    <2>. QED  BY <1>1, <1>4, <2>3, <2>4, MarkersStay DEF TypeOK, RootOK
  <1>6. DoneInv(p)'
    <2>1. \A s \in done[p] \cup {at[p]} : s \in Items /\ Safe(p, s)
      BY <1>1, <1>2, ItemsAre DEF LaunchInv, LabelInv, DoneInv, TypeOK, MemoryOK
    <2>2. \A s \in done[p] \cup {at[p]} : Safe(p, s)'
      BY <1>1, <1>3, <1>4, <2>1, SafeStays DEF TypeOK, LaunchInv
    <2>. QED  BY <1>3, <2>2 DEF DoneInv
  <1>7. LabelInv(p)' /\ FlightInv(p)' /\ MergeInv(p)' /\ LaneInv(p)'
    BY <1>1, <1>2, <1>3 DEF LaunchInv, LabelInv, FlightInv, MergeInv, LaneInv, InFlight, Dest
  <1>. QED  BY <1>1, <1>2, <1>4, <1>5, <1>6, <1>7, Frame DEF TypeOK, LaunchInv

LEMMA UnlockInv == ASSUME IInv, NEW p \in Launches, Unlock(p) PROVE IInv'
  <1>1. /\ pc[p] = "walk" /\ Move(p, "report") /\ Still /\ TypeOK /\ LaunchInv(p)
        /\ UNCHANGED <<peer, smoked>>
    BY DEF Unlock, disk, Still, IInv
  <1>2. program = "worker"
    BY <1>1 DEF LaunchInv, LabelInv
  <1>3. TypeOK' /\ OthersSame(p)
    BY <1>1 DEF TypeOK, RootOK, MemoryOK, Still, Move, Goto, Labels, OthersSame, Same
  <1>4. /\ pc'[p] = "report" /\ at'[p] = at[p] /\ args'[p] = args[p]
        /\ todo'[p] = todo[p] /\ done'[p] = done[p]
    BY <1>1 DEF TypeOK, MemoryOK, Move, Goto
  <1>5. LaunchInv(p)'
    BY <1>1, <1>2, <1>4
    DEF Still, LaunchInv, LabelInv, DoneInv, FlightInv, MergeInv, LaneInv, InFlight, Dest, Safe
  <1>. QED  BY <1>1, <1>2, <1>3, <1>5, QuietStep

\* The last status: a lane is complete when the artifact of all its receipts is in the store.
LEMMA WriteStatusInv == ASSUME IInv, NEW p \in Launches, WriteStatus(p) PROVE IInv'
  <1>. DEFINE state == IF pc[p] = "status" THEN LaneState(p) ELSE WorkerState(p)
  <1>1. /\ pc[p] \in {"status", "report"} /\ TypeOK /\ LaunchInv(p) /\ End(p)
        /\ status' = [state |-> state, dest |-> Dest(p), done |-> done[p]]
        /\ UNCHANGED <<program, peer, local, marker, smoked, remote>>
    BY DEF WriteStatus, disk, IInv
  <1>2. state \in States /\ (state = "WORKER_COMPLETE" => done[p] = Shards)
    BY DEF LaneState, WorkerState, States
  <1>3. state = "FULL_LANE_COMPLETE" =>
          done[p] = Shards /\ Dest(p) # None /\ Mergeable /\ <<Merged, MergedOf>> \in remote[Dest(p)]
    BY <1>1 DEF LaneState, WorkerState, LaunchInv, MergeInv
  <1>4. done[p] \in SUBSET Shards /\ done[p] \cap todo[p] = {}
    BY <1>1 DEF TypeOK, MemoryOK, LaunchInv, LabelInv, LaneInv
  <1>5. \A s \in done[p] : Safe(p, s)
    BY <1>1, <1>4 DEF LaunchInv, DoneInv
  <1>. HIDE DEF state
  <1>6. StatusHonest' /\ status' \in Statuses
    BY <1>1, <1>2, <1>3, <1>4, <1>5, StatusWritten
  <1>7. Kept /\ RootInv' /\ RootOK'
    BY <1>1, <1>6 DEF Kept, IInv, RootInv, Mergeable, MergedOf, TypeOK, RootOK
  <1>8. MemoryOK' /\ OthersSame(p) /\ LaunchInv(p)' /\ ~Holds(p)'
    BY <1>1, EndStep DEF TypeOK
  <1>. QED  BY <1>1, <1>6, <1>7, <1>8, MarkersStay, Frame DEF TypeOK

------------------------------------------------------------------------------
(* The sidecar and its mirror. *)

LEMMA ListInv == ASSUME IInv, NEW p \in Launches, List(p) PROVE IInv'
  <1>1. /\ pc[p] = "list" /\ at[p] \in Shards /\ Still /\ TypeOK /\ LaunchInv(p) /\ UNCHANGED <<peer, smoked>>
    BY DEF List, disk, Still, IInv
  <1>2. program = "sidecar" /\ RootOK'
    BY <1>1 DEF LaunchInv, LabelInv, TypeOK, RootOK, Still
  <1>3. CASE End(p)
    BY <1>1, <1>2, <1>3, QuietEnd
  <1>4. CASE /\ done' = [done EXCEPT ![p] = @ \cup (IF local[at[p]] = None THEN {} ELSE {at[p]})]
             /\ at' = [at EXCEPT ![p] = @ + 1] /\ UNCHANGED <<pc, args, todo, sha>>
    <2>1. MemoryOK' /\ OthersSame(p)
      BY <1>1, <1>4, ItemsAre DEF TypeOK, MemoryOK, OthersSame, Same
    <2>2. pc'[p] = "list" /\ args'[p] = args[p]
      BY <1>1, <1>4
    <2>3. LaunchInv(p)'
      BY <1>1, <1>2, <2>2 DEF Still, LaunchInv, LabelInv, DoneInv, FlightInv, MergeInv, LaneInv, InFlight, Dest
    <2>. QED  BY <1>1, <1>2, <2>1, <2>3, QuietStep DEF TypeOK
  <1>. QED  BY <1>3, <1>4 DEF List

LEMMA PrevalidateInv == ASSUME IInv, NEW p \in Launches, Prevalidate(p) PROVE IInv'
  <1>1. /\ pc[p] = "list" /\ Still /\ TypeOK /\ LaunchInv(p) /\ UNCHANGED <<peer, smoked>>
    BY DEF Prevalidate, disk, Still, IInv
  <1>2. program = "sidecar" /\ RootOK'
    BY <1>1 DEF LaunchInv, LabelInv, TypeOK, RootOK, Still
  <1>3. CASE End(p)
    BY <1>1, <1>2, <1>3, QuietEnd
  <1>4. CASE Goto(p, "sync") /\ todo' = [todo EXCEPT ![p] = done[p]] /\ UNCHANGED <<args, at, done, sha>>
    <2>1. MemoryOK' /\ OthersSame(p)
      BY <1>1, <1>4 DEF TypeOK, MemoryOK, Goto, Labels, OthersSame, Same
    <2>2. pc'[p] = "sync" /\ args'[p] = args[p] /\ done'[p] = done[p] /\ todo'[p] = done[p]
      BY <1>1, <1>4 DEF TypeOK, MemoryOK, Goto
    <2>3. LaunchInv(p)'
      BY <1>1, <1>2, <2>2 DEF Still, LaunchInv, LabelInv, DoneInv, FlightInv, MergeInv, LaneInv, InFlight, Dest
    <2>. QED  BY <1>1, <1>2, <2>1, <2>3, QuietStep DEF TypeOK
  <1>. QED  BY <1>3, <1>4 DEF Prevalidate

LEMMA SyncInv == ASSUME IInv, NEW p \in Launches, Sync(p) PROVE IInv'
  <1>. DEFINE s == Min(todo[p])
  <1>1. /\ pc[p] = "sync" /\ Still /\ TypeOK /\ LaunchInv(p) /\ UNCHANGED <<peer, smoked>>
        /\ todo[p] # {}
    BY DEF Sync, disk, Still, IInv
  <1>2. program = "sidecar" /\ RootOK' /\ s \in Shards
    BY <1>1, MinIsLeast, ItemsAre DEF LaunchInv, LabelInv, TypeOK, RootOK, MemoryOK, Still
  <1>3. CASE End(p)
    BY <1>1, <1>2, <1>3, QuietEnd
  <1>4. CASE local[s] = args[p].rt /\ MoveAt(p, s, "push")
    <2>. HIDE DEF s
    <2>1. MemoryOK' /\ OthersSame(p)
      BY <1>1, <1>2, <1>4, ItemsAre DEF TypeOK, MemoryOK, MoveAt, Goto, Labels, OthersSame, Same
    <2>2. /\ pc'[p] = "push" /\ args'[p] = args[p] /\ at'[p] = s
          /\ done'[p] = done[p] /\ todo'[p] = todo[p]
      BY <1>1, <1>4 DEF TypeOK, MemoryOK, MoveAt, Goto
    <2>3. local[s] # None
      BY <1>1, <1>4, NoneAssumption DEF LaunchInv, LabelInv, Arguments, Contents
    <2>4. LaunchInv(p)'
      BY <1>1, <1>2, <2>2, <2>3, ItemsAre
      DEF Still, LaunchInv, LabelInv, DoneInv, FlightInv, MergeInv, LaneInv, InFlight, Dest, Safe
    <2>. QED  BY <1>1, <1>2, <2>1, <2>4, QuietStep DEF TypeOK
  <1>. QED  BY <1>3, <1>4 DEF Sync

LEMMA RecheckInv == ASSUME IInv, NEW p \in Launches, Recheck(p) PROVE IInv'
  <1>1. /\ pc[p] = "sync" /\ Still /\ TypeOK /\ LaunchInv(p) /\ UNCHANGED <<peer, smoked>>
        /\ todo[p] = {}
    BY DEF Recheck, disk, Still, IInv
  <1>2. program = "sidecar" /\ RootOK' /\ Dest(p) # None
    BY <1>1 DEF LaunchInv, LabelInv, TypeOK, RootOK, Still
  <1>3. CASE End(p)
    BY <1>1, <1>2, <1>3, QuietEnd
  <1>4. CASE done[p] = Shards /\ Move(p, "merge")
    <2>1. MemoryOK' /\ OthersSame(p)
      BY <1>1, <1>4 DEF TypeOK, MemoryOK, Move, Goto, Labels, OthersSame, Same
    <2>2. /\ pc'[p] = "merge" /\ args'[p] = args[p] /\ at'[p] = at[p]
          /\ done'[p] = done[p] /\ todo'[p] = todo[p]
      BY <1>1, <1>4 DEF TypeOK, MemoryOK, Move, Goto
    <2>3. LaunchInv(p)'
      BY <1>1, <1>2, <1>4, <2>2
      DEF Still, LaunchInv, LabelInv, DoneInv, FlightInv, MergeInv, LaneInv, InFlight, Dest, Safe
    <2>. QED  BY <1>1, <1>2, <2>1, <2>3, QuietStep DEF TypeOK
  <1>. QED  BY <1>3, <1>4 DEF Recheck

\* A copied file is one more, for every launch.
LEMMA CopyFrame ==
  ASSUME IInv, program = "sidecar", program' = program, UNCHANGED memory, Kept, TypeOK', RootInv',
         RemoteBacked', StatusHonest'
  PROVE  IInv'
  <1>1. \A q \in Launches : Same(q)
    BY DEF Same, memory
  <1>2. \A q \in Launches : LaunchInv(q)'
    BY <1>1, OthersKeep
  <1>3. LockInv'
    BY DEF LockInv
  <1>. QED  BY <1>2, <1>3 DEF IInv

\* What is copied is what is there already, or the first of its runtime.
LEMMA CopyInv == ASSUME IInv, NEW rt \in Runtimes, Copy(rt) PROVE IInv' /\ Kept
  <1>. DEFINE file(i) == IF i = Merged THEN [s \in Shards |-> rt] ELSE rt
  <1>1. /\ program = "sidecar" /\ TypeOK /\ UNCHANGED <<program, peer, memory, status>>
        /\ \A i \in Items : local[i] \in {None, file(i)}
    <2>1. /\ program = "sidecar" /\ UNCHANGED <<program, peer, memory, status>>
          /\ \A s \in Shards : local[s] \in {None, rt}
          /\ local[Merged] \in {None, [s \in Shards |-> rt]}
      BY DEF Copy
    <2>. QED  BY <2>1, ItemsAre DEF IInv
  <1>2. \A i \in Items : file(i) \in Contents /\ file(i) # None
    BY NoneAssumption DEF Contents
  <1>3. \A s \in Shards : file(s) = rt /\ file(Merged)[s] = rt
    BY ItemsAre
  <1>. HIDE DEF file
  <1>4. CASE smoked' = TRUE /\ UNCHANGED <<local, marker, remote>>
    <2>1. Kept /\ RootOK' /\ MemoryOK' /\ RootInv'
      BY <1>1, <1>4 DEF Kept, TypeOK, RootOK, MemoryOK, memory, IInv, RootInv, Mergeable, MergedOf
    <2>. QED  BY <1>1, <1>4, <2>1, StatusStays, MarkersStay, CopyFrame DEF TypeOK
  <1>5. ASSUME NEW i \in Items, local' = [local EXCEPT ![i] = file(i)], UNCHANGED <<marker, smoked, remote>>
        PROVE  IInv' /\ Kept
    <2>1. /\ local'[i] = file(i) /\ \A j \in Items : j # i => local'[j] = local[j]
      BY <1>1, <1>5 DEF TypeOK, RootOK
    <2>2. Kept
      BY <1>1, <1>5, <2>1 DEF Kept
    <2>3. RootOK' /\ MemoryOK'
      BY <1>1, <1>2, <1>5 DEF TypeOK, RootOK, MemoryOK, memory
    <2>4. \A j \in Items : local'[j] \in {None, file(j)}
      BY <1>1, <2>1
    <2>5. RootInv'
      <3>1. \A s \in Shards : local'[s] \in {None, rt}
        BY <1>3, <2>4, ItemsAre
      <3>2. local'[Merged] \in {None, [s \in Shards |-> rt]}
        BY <2>4, ItemsAre DEF file
      <3>3. Mergeable' => MergedOf' = [s \in Shards |-> rt]
        BY <3>1 DEF Mergeable, MergedOf
      <3>. QED  BY <1>1, <3>1, <3>2, <3>3 DEF RootInv
    <2>. QED  BY <1>1, <1>5, <2>2, <2>3, <2>5, StatusStays, MarkersStay, CopyFrame DEF TypeOK
  <1>6. ASSUME NEW i \in Items, NEW dest \in Destinations, local[i] # None,
               marker' = [marker EXCEPT ![i] = [content |-> file(i), dest |-> dest]],
               remote' = [remote EXCEPT ![dest] = @ \cup
                 {<<j, file(j)>> : j \in IF i = Merged THEN Items ELSE {i}}],
               UNCHANGED <<local, smoked>>
        PROVE  IInv' /\ Kept
    <2>. DEFINE held == IF i = Merged THEN Items ELSE {i}
    <2>1. held \subseteq Items /\ i \in held /\ (i = Merged => Shards \subseteq held)
      BY <1>6, ItemsAre
    <2>2. {<<j, file(j)>> : j \in held} \subseteq Items \X Contents
      BY <1>2, <2>1
    <2>3. /\ \A d \in Destinations : remote[d] \subseteq remote'[d] /\ remote'[d] \subseteq Items \X Contents
          /\ \A j \in held : <<j, file(j)>> \in remote'[dest]
          /\ remote' \in [Destinations -> SUBSET (Items \X Contents)]
      <3>. HIDE DEF held
      <3>1. remote' = [remote EXCEPT ![dest] = @ \cup {<<j, file(j)>> : j \in held}]
        BY <1>6 DEF held
      <3>. DEFINE new == {<<j, file(j)>> : j \in held}
      <3>2. \A j \in held : <<j, file(j)>> \in new
        OBVIOUS
      <3>3. new \subseteq Items \X Contents
        BY <2>2
      <3>. HIDE DEF new
      <3>4. remote' = [remote EXCEPT ![dest] = @ \cup new] /\ remote \in [Destinations -> SUBSET (Items \X Contents)]
        BY <1>1, <3>1 DEF new, TypeOK, RootOK
      <3>. QED  BY <3>2, <3>3, <3>4
    <2>4. Kept
      BY <1>6, <2>3 DEF Kept
    <2>5. RootOK' /\ MemoryOK'
      BY <1>1, <1>2, <1>6, <2>3 DEF TypeOK, RootOK, MemoryOK, memory, Markers
    <2>6. RootInv'
      BY <1>1, <1>6 DEF IInv, RootInv, Mergeable, MergedOf
    <2>7. /\ marker'[i].content = local'[i] /\ marker'[i].dest = dest
          /\ <<i, local'[i]>> \in remote'[dest]
          /\ i = Merged => \A s \in Shards : <<s, local'[i][s]>> \in remote'[dest]
      <3>1. local[i] = file(i)
        BY <1>1, <1>6
      <3>2. marker'[i] = [content |-> file(i), dest |-> dest]
        BY <1>1, <1>6 DEF TypeOK, RootOK
      <3>3. i = Merged => \A s \in Shards : <<s, file(s)>> \in remote'[dest] /\ file(s) = file(i)[s]
        <4>1. ASSUME i = Merged, NEW s \in Shards
              PROVE  <<s, file(s)>> \in remote'[dest] /\ file(s) = file(i)[s]
          <5>1. s \in held
            BY <2>1, <4>1
          <5>. HIDE DEF held
          <5>. QED  BY <1>3, <2>3, <4>1, <5>1
        <4>. QED  BY <4>1
      <3>4. <<i, file(i)>> \in remote'[dest]
        <4>1. i \in held
          BY <2>1
        <4>. HIDE DEF held
        <4>. QED  BY <2>3, <4>1
      <3>5. local'[i] = file(i) /\ marker'[i].content = file(i) /\ marker'[i].dest = dest
        BY <1>6, <3>1, <3>2
      <3>6. i = Merged => \A s \in Shards : <<s, local'[i][s]>> \in remote'[dest]
        BY <3>3, <3>5
      <3>. QED  BY <3>4, <3>5, <3>6
    <2>8. RemoteBacked'
      <3>1. \A j \in Items : j # i => marker'[j] = marker[j]
        BY <1>1, <1>6 DEF TypeOK, RootOK
      <3>2. ASSUME NEW j \in Items, j # i, marker[j] # None
            PROVE  marker[j].dest \in Destinations
        BY <1>1, <3>2 DEF TypeOK, RootOK, Markers
      <3>. QED  BY <1>6, <2>3, <2>7, <3>1, <3>2 DEF IInv, RemoteBacked
    <2>. QED  BY <1>1, <2>4, <2>5, <2>6, <2>8, StatusStays, CopyFrame DEF TypeOK
  <1>. QED
    <2>1. \/ smoked' = TRUE /\ UNCHANGED <<local, marker, remote>>
          \/ \E i \in Items : local' = [local EXCEPT ![i] = file(i)] /\ UNCHANGED <<marker, smoked, remote>>
          \/ \E i \in Items, dest \in Destinations :
               /\ local[i] # None
               /\ marker' = [marker EXCEPT ![i] = [content |-> file(i), dest |-> dest]]
               /\ remote' = [remote EXCEPT ![dest] = @ \cup
                    {<<j, file(j)>> : j \in IF i = Merged THEN Items ELSE {i}}]
               /\ UNCHANGED <<local, smoked>>
      BY DEF Copy, file
    <2>. QED  BY <1>4, <1>5, <1>6, <2>1

------------------------------------------------------------------------------
(* Failures, and the theorems. *)

LEMMA FailInv ==
  ASSUME IInv, NEW p \in Launches, Crash(p) \/ PeerFails(p) \/ TimeOut(p)
  PROVE  IInv'
  <1>1. TypeOK
    BY DEF IInv
  <1>2. CASE Crash(p)
    <2>1. End(p) /\ Still /\ RootOK'
      BY <1>1, <1>2 DEF Crash, disk, Still, TypeOK, RootOK
    <2>. QED  BY <2>1, QuietEnd
  <1>3. CASE PeerFails(p) \/ TimeOut(p)
    <2>1. Still /\ UNCHANGED memory /\ TypeOK' /\ OthersSame(p) /\ Same(p) /\ (Holds(p)' => Holds(p))
      BY <1>1, <1>3 DEF PeerFails, TimeOut, disk, memory, Still, TypeOK, RootOK, MemoryOK, OthersSame, Same, Holds
    <2>2. LaunchInv(p)'
      <3>1. Kept /\ RootInv' /\ local' = local /\ program' = program
        BY <2>1 DEF Kept, IInv, RootInv, Still, Mergeable, MergedOf
      <3>. QED  BY <2>1, <3>1, OthersKeep
    <2>. QED  BY <2>1, <2>2, QuietStep
  <1>. QED  BY <1>2, <1>3

LEMMA InvInit == Init => IInv
  <1>. SUFFICES ASSUME Init PROVE IInv
    OBVIOUS
  <1>1. TypeOK
    BY ItemsAre DEF Init, TypeOK, MemoryOK, RootOK, Labels
  <1>2. RootInv
    BY ItemsAre DEF Init, RootInv
  <1>3. LockInv /\ RemoteBacked /\ StatusHonest
    BY DEF Init, LockInv, Holds, RemoteBacked, StatusHonest
  <1>4. \A p \in Launches : LaunchInv(p)
    BY DEF Init, LaunchInv, LabelInv, DoneInv, FlightInv, MergeInv, LaneInv, InFlight
  <1>. QED  BY <1>1, <1>2, <1>3, <1>4 DEF IInv

LEMMA InvNext == IInv /\ [Next]_vars => IInv'
  <1>. SUFFICES ASSUME IInv, [Next]_vars PROVE IInv'
    OBVIOUS
  <1>1. CASE UNCHANGED vars
    <2>1. UNCHANGED <<program, peer, pc, args, at, todo, done, sha, local, marker, smoked, remote, status>>
      BY <1>1 DEF vars, memory, disk
    <2>2. TypeOK'
      BY <2>1 DEF IInv, TypeOK, MemoryOK, RootOK
    <2>3. Kept /\ RootInv' /\ LockInv' /\ RemoteBacked' /\ StatusHonest'
      BY <2>1 DEF IInv, Kept, RootInv, Mergeable, MergedOf, LockInv, Holds, RemoteBacked, StatusHonest
    <2>4. \A q \in Launches : Same(q) /\ LaunchInv(q)'
      BY <2>1, <2>3, OthersKeep DEF Same
    <2>. QED  BY <2>2, <2>3, <2>4 DEF IInv
  <1>2. ASSUME NEW p \in Launches, Step(p)
        PROVE  IInv'
    <2>1. CASE Upload(p)
      BY <2>1, PushInv, CommitInv, MarkInv DEF Upload
    <2>2. CASE Lane(p)
      BY <2>2, ScanInv, AgreeInv, SmokeInv, CaptureInv, BarrierInv, FinishInv, MergeKeeps DEF Lane
    <2>3. CASE Worker(p)
      BY <2>3, WalkInv, RunningInv, UnlockInv DEF Worker
    <2>4. CASE Sidecar(p)
      BY <2>4, ListInv, PrevalidateInv, SyncInv, RecheckInv DEF Sidecar
    <2>5. CASE WriteStatus(p)
      BY <2>5, WriteStatusInv
    <2>. QED  BY <1>2, <2>1, <2>2, <2>3, <2>4, <2>5 DEF Step
  <1>. QED  BY <1>1, <1>2, StartInv, FailInv, CopyInv DEF Next

LEMMA InvHolds == Spec => []IInv
  BY InvInit, InvNext, PTL DEF Spec

LEMMA ReceiptsStep ==
  ASSUME IInv, [Next]_vars, NEW s \in Shards, local[s] # None
  PROVE  local'[s] = local[s]
  <1>1. Kept \/ local' = local
    <2>1. CASE UNCHANGED vars
      BY <2>1 DEF vars, disk
    <2>2. ASSUME NEW p \in Launches, Step(p)
          PROVE  Kept \/ local' = local
      BY <2>2, CaptureInv, MergeKeeps, WalkInv
      DEF Step, Upload, Push, Commit, Mark, Lane, Scan, Agree, Smoke, Barrier, Finish,
          Worker, Running, Unlock, WriteStatus, Sidecar, List, Prevalidate, Sync, Recheck, disk
    <2>3. ASSUME NEW p \in Launches, NEW a \in Arguments, Start(p, a) \/ Crash(p) \/ PeerFails(p) \/ TimeOut(p)
          PROVE  local' = local
      BY <2>3 DEF Start, Crash, PeerFails, TimeOut, disk
    <2>4. ASSUME NEW p \in Launches, Crash(p) \/ PeerFails(p) \/ TimeOut(p)
          PROVE  local' = local
      BY <2>4 DEF Crash, PeerFails, TimeOut, disk
    <2>. QED  BY <2>1, <2>2, <2>3, <2>4, CopyInv DEF Next
  <1>. QED  BY <1>1, ItemsAre DEF Kept

\* Every variable keeps its type, for any number of launches, shards, runtimes and destinations.
THEOREM UploadTypes == Spec => []TypeOK
  BY InvHolds, PTL DEF IInv

\* A marker promises what the store holds, whatever died between the commit and the marker, and
\* the marker of the merged artifact comes after all others (_upload_receipt, finalize_lane).
THEOREM MarkersAreBacked == Spec => []RemoteBacked
  BY InvHolds, PTL DEF IInv

\* A status of the lane or of the worker is true of root and store whenever it is read.
THEOREM StatusIsHonest == Spec => []StatusHonest
  BY InvHolds, PTL DEF IInv

\* No launch of any program replaces a committed receipt.
THEOREM ReceiptsAreFinal == Spec => ReceiptsStay
  <1>1. IInv /\ [Next]_vars => \A s \in Shards : local[s] # None => local'[s] = local[s]
    BY ReceiptsStep
  <1>2. IInv /\ [Next]_vars => [\A s \in Shards : local[s] # None => local'[s] = local[s]]_vars
    BY <1>1
  <1>. QED  BY <1>2, InvHolds, PTL DEF Spec, ReceiptsStay
==============================================================================
