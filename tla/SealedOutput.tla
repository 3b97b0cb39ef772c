------------------------------ MODULE SealedOutput ------------------------------
(***************************************************************************)
(* What an output directory of the checkpoint builder promises to whoever  *)
(* stages it: it belongs to the first build contract that claimed it, it   *)
(* only gains files, and it is sealed only when it holds all of them.  A   *)
(* rerun may take the seal back and give the same seal again.              *)
(***************************************************************************)
EXTENDS Naturals

CONSTANTS Contracts, Files, None

VARIABLES
  owner,   \* the contract the directory belongs to, or None
  built,   \* files that have a receipt
  sealed   \* does the status say COMPLETE?

outputVars == <<owner, built, sealed>>

Init == owner = None /\ built = {} /\ sealed = FALSE

Claim(c) == owner = None /\ owner' = c /\ UNCHANGED <<built, sealed>>
Add(f) ==
  /\ owner # None
  /\ f \notin built
  /\ built' = built \cup {f}
  /\ UNCHANGED <<owner, sealed>>
Seal == built = Files /\ sealed' = TRUE /\ UNCHANGED <<owner, built>>
Reopen == sealed /\ sealed' = FALSE /\ UNCHANGED <<owner, built>>

Next == (\E c \in Contracts : Claim(c)) \/ (\E f \in Files : Add(f)) \/ Seal \/ Reopen

Spec == Init /\ [][Next]_outputVars
==============================================================================
