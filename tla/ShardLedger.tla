------------------------------- MODULE ShardLedger -------------------------------
(***************************************************************************)
(* What an output root of the record capture promises to whoever reads it: *)
(* a ledger of shard receipts, written by one writer at a time, that grows *)
(* by one shard at a time, in manifest order, with exact statistics under  *)
(* one runtime; and a summary (record-status.json) that was true when the  *)
(* writer closed the ledger.  A writer may stop at any point without a     *)
(* summary, so an older summary can be behind the ledger.                  *)
(***************************************************************************)
EXTENDS Integers, Sequences

CONSTANTS
  Shards,     \* 0 .. n - 1
  Runtimes,
  ExactStats, \* ExactStats[s]: the statistics of shard s, each record once
  None

VARIABLES
  open,       \* does a writer hold the ledger's lock?
  ledger,     \* ledger[s]: the receipt of shard s, or None
  summary     \* the last summary written, or None

ledgerVars == <<open, ledger, summary>>

Present == {s \in Shards : ledger[s] # None}

Init ==
  /\ open = FALSE
  /\ ledger = [s \in Shards |-> None]
  /\ summary = None

Open == ~open /\ open' = TRUE /\ UNCHANGED <<ledger, summary>>
Abandon == open /\ open' = FALSE /\ UNCHANGED <<ledger, summary>>

\* The next receipt: the first missing shard, under the runtime of the others.
CommitNext(rt) ==
  /\ open
  /\ \A s \in Present : ledger[s].rt = rt
  /\ \E s \in Shards \ Present :
       /\ \A t \in Shards \ Present : s <= t
       /\ ledger' = [ledger EXCEPT ![s] = [rt |-> rt, obs |-> ExactStats[s]]]
  /\ UNCHANGED <<open, summary>>

\* The writer closes the ledger with the list of all shards present, in order.
Close(state) ==
  /\ open
  /\ open' = FALSE
  /\ state = "RECORD_LOCAL_COMPLETE" => Present = Shards
  /\ state = "PAUSED_AT_RECORD_SHARD" => Present # {}
  /\ \E k \in {s + 1 : s \in Shards} \cup {0} :
       /\ Present = 0 .. (k - 1)
       /\ summary' = [state |-> state, completed |-> [i \in 1 .. k |-> i - 1]]
  /\ UNCHANGED ledger

Next ==
  \/ Open \/ Abandon
  \/ \E rt \in Runtimes : CommitNext(rt)
  \/ \E state \in {"PAUSED_AT_RECORD_SHARD", "RECORD_LOCAL_COMPLETE"} : Close(state)

Spec == Init /\ [][Next]_ledgerVars
==============================================================================
