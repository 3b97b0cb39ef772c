------------------------------- MODULE LaneUpload -------------------------------
(***************************************************************************)
(* From the receipts of a run to the remote store: a root, and one of the  *)
(* three programs that upload what is in it and leave a marker beside each *)
(* file.  The two-rank lane pipeline (glm53_observation_pipeline.py) and   *)
(* the observation worker (glm53_observation_worker.py) write the receipts *)
(* too, each under its lock.  The sidecar (glm53_observation_sidecar.py)   *)
(* takes no lock; its root is a mirror, copied file by file from a root of *)
(* one of the others.                                                      *)
(*                                                                         *)
(* Abstractions.  A receipt is the runtime that made it: the statistics    *)
(* of a shard follow from it.  The merged artifact is what it was merged   *)
(* from.  How a shard is observed is in RecordCapture and ObserverReplay.  *)
(* The remote store is versioned: a commit adds to what can be read back.  *)
(* A launch that fails its preflight, or finds the lock taken, changes     *)
(* nothing, like a dry run: neither is told from no launch.                *)
(***************************************************************************)
EXTENDS Integers, FiniteSets, FiniteSetsExt

CONSTANTS
  Launches,      \* launches of the program
  Runtimes,      \* runtime identities
  Destinations,  \* repository and prefix
  NumShards,
  None

ASSUME NumShardsAssumption == NumShards \in Nat \ {0}

Shards == 0 .. NumShards - 1
Merged == NumShards  \* merged-observations.json
Items == Shards \cup {Merged}
Programs == {"lane", "worker", "sidecar"}

Contents == Runtimes \cup [Shards -> Runtimes]
Markers == [content : Contents, dest : Destinations]
Arguments == [rt : Runtimes, dest : Destinations \cup {None}, limit : BOOLEAN, smoke : BOOLEAN]
States == {"QUALIFICATION_COMPLETE", "FULL_LANE_COMPLETE", "RUNNING", "PARTIAL", "WORKER_COMPLETE"}

ASSUME NoneAssumption ==
  None \notin Contents \cup Markers \cup Destinations \cup Arguments

VARIABLES
  program,  \* which program this root has
  pc,       \* pc[p]: where rank 0, the worker or the sidecar is
  peer,     \* peer[p]: is rank 1 of the lane there?
  args,     \* args[p]: its arguments
  at,       \* at[p]: the item it is at
  todo,     \* todo[p]: shards it still has to do
  done,     \* done[p]: shards committed, verified or recorded
  sha,      \* sha[p]: digest of the file it uploads
  local,    \* local[i]: receipt i, or the merged artifact
  marker,   \* marker[i]: its upload marker
  smoked,   \* is there a qualification-result.json?
  remote,   \* remote[dest]: what was committed there
  status    \* pipeline-status.json or worker-N.json

memory == <<pc, args, at, todo, done, sha>>
disk == <<local, marker, smoked>>
vars == <<program, peer, memory, disk, remote, status>>

------------------------------------------------------------------------------
Dest(p) == args[p].dest

Goto(p, label) == pc' = [pc EXCEPT ![p] = label]
Move(p, label) == Goto(p, label) /\ UNCHANGED <<args, at, todo, done, sha>>
MoveAt(p, i, label) == Goto(p, label) /\ at' = [at EXCEPT ![p] = i] /\ UNCHANGED <<args, todo, done, sha>>

\* The process ends, raises or dies; the peer of a lane is still there.
End(p) ==
  /\ Goto(p, "off")
  /\ args' = [args EXCEPT ![p] = None]
  /\ at' = [at EXCEPT ![p] = 0]
  /\ todo' = [todo EXCEPT ![p] = {}]
  /\ done' = [done EXCEPT ![p] = {}]
  /\ sha' = [sha EXCEPT ![p] = None]

\* A collective of the lane: without its peer, rank 0 raises.
Together(p, step) == IF program = "lane" /\ ~peer[p] THEN End(p) ELSE step

\* merge_shards: every shard, of one runtime.
Mergeable == \A s \in Shards : local[s] # None /\ local[s] = local[0]
MergedOf == [s \in Shards |-> local[s]]

------------------------------------------------------------------------------
(* _upload_receipt, and the same steps for the merged artifact. *)

\* A marker binds the bytes of the file and the destination.
Bound(p, i) == marker[i] = [content |-> local[i], dest |-> Dest(p)]

\* What follows once the item is uploaded, or uploads are off.
Then(p) ==
  CASE at[p] = Merged -> IF program = "sidecar" THEN End(p) ELSE Move(p, "status")
    [] at[p] # Merged /\ program = "sidecar" ->
         /\ Goto(p, "sync")
         /\ todo' = [todo EXCEPT ![p] = @ \ {at[p]}]
         /\ UNCHANGED <<args, at, done, sha>>
    [] at[p] # Merged /\ program = "worker" -> Move(p, "running")
    [] at[p] # Merged /\ program = "lane" /\ todo[p] = {} ->
         /\ Goto(p, "scan")
         /\ at' = [at EXCEPT ![p] = @ + 1]
         /\ done' = [done EXCEPT ![p] = @ \cup {at[p]}]
         /\ UNCHANGED <<args, todo, sha>>
    [] at[p] # Merged /\ program = "lane" /\ todo[p] # {} -> Move(p, "barrier")

\* Mutant: the marker has no digest of the file.
PushUnbound(p) ==
  /\ pc[p] = "push"
  /\ IF Dest(p) = None \/ Bound(p, at[p]) THEN Then(p)
     ELSE IF marker[at[p]] # None THEN End(p) ELSE Move(p, "commit")
  /\ UNCHANGED <<program, peer, disk, remote, status>>

\* A marker that is there must bind; it is not asked of the store again.
Push(p) ==
  /\ pc[p] = "push"
  /\ \/ (Dest(p) = None \/ Bound(p, at[p])) /\ Then(p)
     \/ Dest(p) # None /\ marker[at[p]] # None /\ ~Bound(p, at[p]) /\ End(p)
     \/ /\ Dest(p) # None /\ marker[at[p]] = None
        /\ Goto(p, "commit")
        /\ sha' = [sha EXCEPT ![p] = local[at[p]]]
        /\ UNCHANGED <<args, at, todo, done>>
  /\ UNCHANGED <<program, peer, disk, remote, status>>

\* Mutant: the marker is written as soon as the upload is sent.
CommitAfterMark(p) ==
  /\ pc[p] = "commit"
  /\ IF marker[at[p]] = None
     THEN /\ marker' = [marker EXCEPT ![at[p]] = [content |-> sha[p], dest |-> Dest(p)]]
          /\ UNCHANGED <<memory, remote>>
     ELSE /\ remote' = [remote EXCEPT ![Dest(p)] = @ \cup {<<at[p], local[at[p]]>>}]
          /\ Move(p, "mark")
          /\ UNCHANGED marker
  /\ UNCHANGED <<program, peer, local, smoked, status>>

\* upload_verified commits, and only then reads back: it may still raise.
Commit(p) ==
  /\ pc[p] = "commit"
  /\ remote' = [remote EXCEPT ![Dest(p)] = @ \cup {<<at[p], local[at[p]]>>}]
  /\ Move(p, "mark")
  /\ UNCHANGED <<program, peer, disk, status>>

Mark(p) ==
  /\ pc[p] = "mark"
  /\ marker' = [marker EXCEPT ![at[p]] = [content |-> sha[p], dest |-> Dest(p)]]
  /\ Then(p)
  /\ UNCHANGED <<program, peer, local, smoked, remote, status>>

------------------------------------------------------------------------------
(* Start and lock. *)

\* The last thing the worker does, its status, it does after it has let the lock go.
Holds(q) == pc[q] \notin {"off", "report"}

\* Mutant: the lock is shared.
LockShared(p) == TRUE

LockFree(p) == \A q \in Launches \ {p} : ~Holds(q)

\* What the command lines can say.  A smoke run takes no other limit.
Accepted(a) ==
  CASE program = "lane" -> a.smoke => a.dest = None /\ ~a.limit
    [] program = "worker" -> a.dest # None /\ ~a.smoke
    [] program = "sidecar" -> a.dest # None /\ ~a.smoke /\ ~a.limit

Start(p, a) ==
  /\ pc[p] = "off" /\ ~peer[p]
  /\ Accepted(a)
  /\ IF program = "sidecar" THEN ~smoked ELSE LockFree(p)
  /\ args' = [args EXCEPT ![p] = a]
  /\ Goto(p, CASE program = "lane" -> "scan" [] program = "worker" -> "walk" [] program = "sidecar" -> "list")
  /\ peer' = [peer EXCEPT ![p] = program = "lane"]
  /\ UNCHANGED <<program, at, todo, done, sha, disk, remote, status>>

------------------------------------------------------------------------------
(* The lane: rank 0, with rank 1 at the collectives. *)

\* Committed receipts must be of this runtime; with uploads on, each is uploaded.
Scan(p) ==
  /\ pc[p] = "scan" /\ at[p] \in Shards
  /\ CASE local[at[p]] = None -> MoveAt(p, at[p] + 1, "scan")
       [] local[at[p]] = args[p].rt -> Move(p, "push")
       [] OTHER -> End(p)
  /\ UNCHANGED <<program, peer, disk, remote, status>>

\* The committed list is broadcast, and both ranks cut the rest to the limit.
Agree(p) ==
  LET missing == Shards \ done[p] IN
  /\ pc[p] = "scan" /\ at[p] = Merged
  /\ Together(p, /\ Goto(p, IF args[p].smoke THEN "smoke" ELSE "capture")
                 /\ at' = [at EXCEPT ![p] = 0]
                 /\ todo' = [todo EXCEPT ![p] = IF args[p].limit /\ missing # {}
                                                THEN {Min(missing)} ELSE missing]
                 /\ UNCHANGED <<args, done, sha>>)
  /\ UNCHANGED <<program, peer, disk, remote, status>>

\* A partial shard leaves its result and nothing else.
Smoke(p) ==
  /\ pc[p] = "smoke"
  /\ smoked' = (smoked \/ peer[p])
  /\ peer' = [peer EXCEPT ![p] = FALSE]
  /\ End(p)
  /\ UNCHANGED <<program, local, marker, remote, status>>

\* One shard observed by both ranks, gathered, and its receipt published: the commit.
Capture(p) ==
  LET s == Min(todo[p]) IN
  /\ pc[p] = "capture" /\ todo[p] # {}
  /\ IF peer[p]
     THEN local' = [local EXCEPT ![s] = args[p].rt] /\ MoveAt(p, s, "push")
     ELSE End(p) /\ UNCHANGED local
  /\ UNCHANGED <<program, peer, marker, smoked, remote, status>>

Barrier(p) ==
  /\ pc[p] = "barrier"
  /\ Together(p, /\ Goto(p, "capture")
                 /\ todo' = [todo EXCEPT ![p] = @ \ {at[p]}]
                 /\ done' = [done EXCEPT ![p] = @ \cup {at[p]}]
                 /\ UNCHANGED <<args, at, sha>>)
  /\ UNCHANGED <<program, peer, disk, remote, status>>

\* Only a run over all shards, with uploads and without limit, merges; rank 1 is done.
Finish(p) ==
  /\ pc[p] = "capture" /\ todo[p] = {}
  /\ Move(p, IF done[p] = Shards /\ Dest(p) # None /\ ~args[p].limit THEN "merge" ELSE "status")
  /\ peer' = [peer EXCEPT ![p] = FALSE]
  /\ UNCHANGED <<program, disk, remote, status>>

\* finalize_lane writes the artifact again even where its marker exists.
Merge(p) ==
  /\ pc[p] = "merge"
  /\ IF Mergeable
     THEN local' = [local EXCEPT ![Merged] = MergedOf] /\ MoveAt(p, Merged, "push")
     ELSE End(p) /\ UNCHANGED local
  /\ UNCHANGED <<program, peer, marker, smoked, remote, status>>

\* Mutant: a lane whose shards are all committed is complete.
LaneStateByShards(p) ==
  IF done[p] = Shards THEN "FULL_LANE_COMPLETE" ELSE "QUALIFICATION_COMPLETE"

LaneState(p) == IF at[p] = Merged THEN "FULL_LANE_COMPLETE" ELSE "QUALIFICATION_COMPLETE"

------------------------------------------------------------------------------
(* The worker. *)

Enough(p) == args[p].limit /\ done[p] # {}

\* A shard with a receipt is taken as it is, whatever its runtime; another is observed.
Walk(p) ==
  /\ pc[p] = "walk" /\ at[p] \in Shards /\ ~Enough(p)
  /\ local' = IF local[at[p]] = None THEN [local EXCEPT ![at[p]] = args[p].rt] ELSE local
  /\ Move(p, "push")
  /\ UNCHANGED <<program, peer, marker, smoked, remote, status>>

Running(p) ==
  /\ pc[p] = "running"
  /\ done' = [done EXCEPT ![p] = @ \cup {at[p]}]
  /\ at' = [at EXCEPT ![p] = @ + 1]
  /\ Goto(p, "walk")
  /\ status' = [state |-> "RUNNING", dest |-> Dest(p), done |-> done'[p]]
  /\ UNCHANGED <<program, peer, args, todo, sha, disk, remote>>

\* The loop is over and the lock is gone.
Unlock(p) ==
  /\ pc[p] = "walk" /\ (at[p] = Merged \/ Enough(p))
  /\ Move(p, "report")
  /\ UNCHANGED <<program, peer, disk, remote, status>>

WorkerState(p) == IF done[p] = Shards THEN "WORKER_COMPLETE" ELSE "PARTIAL"

\* The final status of either program.
WriteStatus(p) ==
  /\ pc[p] \in {"status", "report"}
  /\ status' = [state |-> IF pc[p] = "status" THEN LaneState(p) ELSE WorkerState(p),
                dest |-> Dest(p), done |-> done[p]]
  /\ End(p)
  /\ UNCHANGED <<program, peer, disk, remote>>

------------------------------------------------------------------------------
(* The mirror and the sidecar. *)

\* External: a file of the mirrored root, which has one runtime, is copied; a marker comes
\* after its receipt, and the lane has uploaded what it binds.
Copy(rt) ==
  LET file(i) == IF i = Merged THEN [s \in Shards |-> rt] ELSE rt IN
  /\ program = "sidecar"
  /\ \A s \in Shards : local[s] \in {None, rt}
  /\ local[Merged] \in {None, file(Merged)}
  /\ \/ smoked' = TRUE /\ UNCHANGED <<local, marker, remote>>
     \/ \E i \in Items :
          /\ local' = [local EXCEPT ![i] = file(i)]
          /\ UNCHANGED <<marker, smoked, remote>>
     \/ \E i \in Items, dest \in Destinations :
          LET held == IF i = Merged THEN Items ELSE {i} IN
          /\ local[i] # None
          /\ marker' = [marker EXCEPT ![i] = [content |-> file(i), dest |-> dest]]
          /\ remote' = [remote EXCEPT ![dest] = @ \cup {<<j, file(j)>> : j \in held}]
          /\ UNCHANGED <<local, smoked>>
  /\ UNCHANGED <<program, peer, memory, status>>

\* A marker that was copied, or is the sidecar's own, binds the file for this destination.
Historical(p, i) == marker[i] # None => Bound(p, i)

List(p) ==
  /\ pc[p] = "list" /\ at[p] \in Shards
  /\ IF Historical(p, at[p]) /\ local[at[p]] \in {None, args[p].rt}
     THEN /\ done' = [done EXCEPT ![p] = @ \cup (IF local[at[p]] = None THEN {} ELSE {at[p]})]
          /\ at' = [at EXCEPT ![p] = @ + 1]
          /\ UNCHANGED <<pc, args, todo, sha>>
     ELSE End(p)
  /\ UNCHANGED <<program, peer, disk, remote, status>>

\* Merged files are checked before the network is used.
Prevalidate(p) ==
  /\ pc[p] = "list" /\ at[p] = Merged
  /\ IF /\ \/ local[Merged] = None /\ marker[Merged] = None
           \/ /\ done[p] = Shards /\ Mergeable
              /\ local[Merged] = MergedOf /\ Historical(p, Merged)
        /\ done[p] # {}
     THEN Goto(p, "sync") /\ todo' = [todo EXCEPT ![p] = done[p]] /\ UNCHANGED <<args, at, done, sha>>
     ELSE End(p)
  /\ UNCHANGED <<program, peer, disk, remote, status>>

Sync(p) ==
  /\ pc[p] = "sync" /\ todo[p] # {}
  /\ IF local[Min(todo[p])] = args[p].rt THEN MoveAt(p, Min(todo[p]), "push") ELSE End(p)
  /\ UNCHANGED <<program, peer, disk, remote, status>>

Recheck(p) ==
  /\ pc[p] = "sync" /\ todo[p] = {}
  /\ IF done[p] = Shards /\ \A s \in done[p] : local[s] = args[p].rt
     THEN Move(p, "merge") ELSE End(p)
  /\ UNCHANGED <<program, peer, disk, remote, status>>

------------------------------------------------------------------------------
(* Failures. *)

\* The process dies or raises: a failed upload, or read-back, is one of these.
Crash(p) == pc[p] # "off" /\ End(p) /\ UNCHANGED <<program, peer, disk, remote, status>>

\* Rank 1 dies, or waits longer for rank 0 than the timeout.
PeerFails(p) ==
  /\ peer[p] /\ pc[p] # "off"
  /\ peer' = [peer EXCEPT ![p] = FALSE]
  /\ UNCHANGED <<program, memory, disk, remote, status>>

\* Rank 0 is gone.
TimeOut(p) ==
  /\ peer[p] /\ pc[p] = "off"
  /\ peer' = [peer EXCEPT ![p] = FALSE]
  /\ UNCHANGED <<program, memory, disk, remote, status>>

------------------------------------------------------------------------------
Init ==
  /\ program \in Programs
  /\ pc = [p \in Launches |-> "off"]
  /\ peer = [p \in Launches |-> FALSE]
  /\ args = [p \in Launches |-> None]
  /\ at = [p \in Launches |-> 0]
  /\ todo = [p \in Launches |-> {}]
  /\ done = [p \in Launches |-> {}]
  /\ sha = [p \in Launches |-> None]
  /\ local = [i \in Items |-> None]
  /\ marker = [i \in Items |-> None]
  /\ smoked = FALSE
  /\ remote = [dest \in Destinations |-> {}]
  /\ status = None

Upload(p) == Push(p) \/ Commit(p) \/ Mark(p)
Lane(p) ==
  \/ Scan(p) \/ Agree(p) \/ Smoke(p) \/ Capture(p) \/ Barrier(p) \/ Finish(p) \/ Merge(p)
Worker(p) == Walk(p) \/ Running(p) \/ Unlock(p)
Sidecar(p) == List(p) \/ Prevalidate(p) \/ Sync(p) \/ Recheck(p)

Step(p) == Upload(p) \/ Lane(p) \/ Worker(p) \/ WriteStatus(p) \/ Sidecar(p)

Next ==
  \/ \E p \in Launches :
       \/ \E a \in Arguments : Start(p, a)
       \/ Step(p) \/ Crash(p) \/ PeerFails(p) \/ TimeOut(p)
  \/ \E rt \in Runtimes : Copy(rt)

Spec == Init /\ [][Next]_vars
------------------------------------------------------------------------------
(* Properties. *)

Labels == {"off", "scan", "smoke", "capture", "barrier", "merge", "status",
           "push", "commit", "mark", "walk", "running", "report", "list", "sync"}
\* The file has no destination: dest is kept beside it to say where its shards were verified.
Statuses == [state : States, dest : Destinations \cup {None}, done : SUBSET Shards]
MemoryOK ==
  /\ pc \in [Launches -> Labels]
  /\ args \in [Launches -> Arguments \cup {None}]
  /\ at \in [Launches -> Items]
  /\ todo \in [Launches -> SUBSET Shards] /\ done \in [Launches -> SUBSET Shards]
  /\ sha \in [Launches -> Contents \cup {None}]
RootOK ==
  /\ program \in Programs
  /\ peer \in [Launches -> BOOLEAN]
  /\ local \in [Items -> Contents \cup {None}]
  /\ marker \in [Items -> Markers \cup {None}]
  /\ smoked \in BOOLEAN
  /\ remote \in [Destinations -> SUBSET (Items \X Contents)]
  /\ status \in Statuses \cup {None}

\* Every variable keeps its type.
TypeOK == MemoryOK /\ RootOK

\* A marker never promises more than the store holds: the file it binds was committed at its
\* destination, that of the merged artifact after the marker of every receipt in it; and it
\* binds the file beside it, so that no later run is refused what an earlier one uploaded.
RemoteBacked ==
  \A i \in Items : marker[i] # None =>
    LET m == marker[i] IN
    /\ <<i, m.content>> \in remote[m.dest]
    /\ i = Merged => \A s \in Shards : <<s, m.content[s]>> \in remote[m.dest]
    /\ local[i] = m.content

\* A status is true of the root and of the store whenever it is read, however many runs,
\* with other arguments or dead half-way, came before and after the one that wrote it.
StatusHonest ==
  status # None =>
    /\ \A s \in status.done : local[s] # None
    /\ status.dest # None => \A s \in status.done : <<s, local[s]>> \in remote[status.dest]
    /\ status.state \in {"FULL_LANE_COMPLETE", "WORKER_COMPLETE"} => status.done = Shards
    /\ status.state = "FULL_LANE_COMPLETE" => status.dest # None
         /\ Mergeable /\ <<Merged, MergedOf>> \in remote[status.dest]

\* A committed receipt stays as it is, and so does the runtime of a lane.
ReceiptsStay ==
  [][\A s \in Shards : local[s] # None => local'[s] = local[s]]_vars
==============================================================================
