----------------------------- MODULE StableLog -----------------------------
(***************************************************************************)
(* What the flush log of a shard promises to the callers of log_write and  *)
(* mcd_trx_commit, without saying how: records get consecutive numbers,    *)
(* they reach the flush-log file in that order and without a hole, and a   *)
(* call returns only when its records are there (and, for a record of full *)
(* durability, when the file has been synced behind them).                 *)
(***************************************************************************)
EXTENDS Naturals

VARIABLES
    len,        \* number of records appended so far
    full,       \* the records written with SDF_FULL_DURABILITY
    written,    \* records in the file: survive a crash of the process
    stable,     \* records in the synced file: survive a power failure
    acked       \* records whose writer has been told "done"

vars == <<len, full, written, stable, acked>>

Init ==
    /\ len = 0
    /\ full = {}
    /\ written = {}
    /\ stable = {}
    /\ acked = {}

(* One more record, of full durability or not.                              *)
Append(f) ==
    /\ len' = len + 1
    /\ full' = IF f THEN full \cup {len + 1} ELSE full
    /\ UNCHANGED <<written, stable, acked>>

(* The next record, in order, reaches the file.                             *)
Persist ==
    \E k \in 1 .. len :
        /\ written = 1 .. (k - 1)
        /\ written' = 1 .. k
        /\ UNCHANGED <<len, full, stable, acked>>

Sync ==
    /\ stable' = written
    /\ UNCHANGED <<len, full, written, acked>>

(* Calls may return for a set of records that are durable enough.           *)
Ack ==
    \E S \in SUBSET (1 .. len) :
        /\ S \subseteq written
        /\ (S \cap full) \subseteq stable
        /\ acked' = acked \cup S
        /\ UNCHANGED <<len, full, written, stable>>

Next == (\E f \in BOOLEAN : Append(f)) \/ Persist \/ Sync \/ Ack

Spec == Init /\ [][Next]_vars
=============================================================================
