------------------------------- MODULE TailLedger -------------------------------
(***************************************************************************)
(* What the output root of the completion capture promises: a ledger of    *)
(* the shards from Low to High that grows like a ShardLedger.  A writer    *)
(* does not skip what earlier writers committed: it captures every shard   *)
(* again from Low on, which changes no entry, and its summary lists what   *)
(* it found followed by what it captured, so shards may be listed twice.   *)
(***************************************************************************)
EXTENDS Integers, Sequences

CONSTANTS
  Low, High,  \* first and last shard of the tail
  Runtimes, ExactStats, None

VARIABLES open, ledger, summary

ledgerVars == <<open, ledger, summary>>

Root == INSTANCE ShardLedger WITH Shards <- Low .. High

Init == Root!Init

\* The shards from Low up to, not including, n in order.
Run(n) == [i \in 1 .. (n - Low) |-> Low + i - 1]

\* The writer found the shards below found and captured those below captured.
CloseReplayed(state) ==
  /\ open
  /\ open' = FALSE
  /\ \E found, captured \in Low .. (High + 1) :
       /\ Root!Present = Low .. ((IF captured < found THEN found ELSE captured) - 1)
       /\ state = "RECORD_LOCAL_COMPLETE" => captured = High + 1
       /\ state = "PAUSED_AT_RECORD_SHARD" => captured > Low
       /\ summary' = [state |-> state, completed |-> Run(found) \o Run(captured)]
  /\ UNCHANGED ledger

Next ==
  \/ Root!Open \/ Root!Abandon
  \/ \E rt \in Runtimes : Root!CommitNext(rt)
  \/ \E state \in {"PAUSED_AT_RECORD_SHARD", "RECORD_LOCAL_COMPLETE"} : CloseReplayed(state)

Spec == Init /\ [][Next]_ledgerVars
==============================================================================
