----------------------------- MODULE LateWrites -----------------------------
(***************************************************************************)
(* The indexer when a call that gives up does not stop its write.  Every   *)
(* write is a transaction of its own in PostgreSQL (the insert explicitly, *)
(* the updates through gorm).  When the context of a call ends while its   *)
(* COMMIT is in flight, the call returns an error at once and the database *)
(* may still execute the COMMIT later, also after the process restarted,   *)
(* or roll back.  Until then the transaction holds the rows it wrote, and  *)
(* any other write of one of these rows waits.                             *)
(***************************************************************************)
EXTENDS Indexer

CONSTANT MaxLate    \* bound: how many writes outlive their call, in all

ASSUME LateAssumption == MaxLate \in Nat

VARIABLES
    late,           \* the writes whose COMMIT is in flight without a call
    abandoned       \* how many there have been

lvars == <<chain, blocks, txs, pc, num, blk, todo, got, plan, late, abandoned>>

Marks == {"mark_synced", "mark_failed"}

Writes == [op : {"insert"}, block : Block]
     \cup [op : {"update"}, tx : Tx, block : Block]
     \cup [op : Marks, number : Numbers]

\* The write a call is about to make, if its next call is a write.
WriteOf(s) ==
    CASE pc[s] = "insert" -> {[op |-> "insert", block |-> blk[s]]}
      [] pc[s] = "update" ->
            {[op |-> "update", tx |-> r[1], block |-> r[2]] : r \in got[s]}
      [] pc[s] \in Marks -> {[op |-> pc[s], number |-> num[s]]}
      [] OTHER -> {}

\* The rows a write changes: ON CONFLICT DO NOTHING leaves existing rows
\* alone, an UPDATE without a row does nothing.
Locks(w) ==
    CASE w.op = "insert" ->
            {<<"block", n>> : n \in {m \in {NumberOf[w.block]} : ~Stored(m)}}
              \cup {<<"tx", t>> : t \in {u \in BlockTxs(w.block) : ~Indexed(u)}}
      [] w.op = "update" -> {<<"tx", w.tx>>}
      [] w.op \in Marks ->
            {<<"block", n>> : n \in {m \in {w.number} : Stored(m)}}

\* No row that the next write of s changes is held by a COMMIT in flight.
Free(s) ==
    \A w \in late, v \in WriteOf(s) : Locks(w) \cap Locks(v) = {}

-----------------------------------------------------------------------------
LInit == IxInit /\ late = {} /\ abandoned = 0

\* As in Indexer, but a write that is not free can only fail.
LStep ==
    /\ \/ \E s \in Runner \cup RunOnce : RunIndexerOnce(s)
       \/ \E s \in Manual, n \in Numbers : ManualSync(s, n)
       \/ \E s \in Syncer : Free(s) /\ SyncBlock(s)
       \/ \E s \in Syncer : ~Free(s) /\ Fail(s) /\ UNCHANGED plan
       \/ NodeStep /\ UNCHANGED plan
    /\ UNCHANGED <<late, abandoned>>

\* The context ends while the COMMIT is in flight.
Abandon(s) ==
    /\ abandoned < MaxLate /\ abandoned' = abandoned + 1
    /\ Free(s)
    /\ \E w \in WriteOf(s) : Locks(w) # {} /\ late' = late \cup {w}
    /\ Fail(s)
    /\ UNCHANGED plan

\* The database executes the COMMIT.
Land(w) ==
    /\ late' = late \ {w}
    /\ \/ /\ w.op = "insert"
          /\ blocks' = InsertBlock(w.block)
          /\ txs' = InsertTxs(w.block)
       \/ w.op = "update" /\ WriteReceipt(w.tx, w.block) /\ UNCHANGED blocks
       \/ /\ w.op = "mark_synced"
          /\ blocks' = MarkReceiptsSynced(w.number) /\ UNCHANGED txs
       \/ /\ w.op = "mark_failed"
          /\ blocks' = MarkReceiptsSyncFailed(w.number) /\ UNCHANGED txs
    /\ UNCHANGED <<chain, local, plan, abandoned>>

\* The database rolls back.
Drop(w) == late' = late \ {w} /\ UNCHANGED <<ixvars, abandoned>>

LRestart == Restart /\ UNCHANGED <<late, abandoned>>

LNext ==
    \/ LStep
    \/ \E s \in Syncer : Abandon(s)
    \/ \E w \in late : Land(w) \/ Drop(w)
    \/ LRestart

LSpec == LInit /\ [][LNext]_lvars

-----------------------------------------------------------------------------
LTypeOK == IxTypeOK /\ late \subseteq Writes /\ abandoned \in 0..MaxLate
=============================================================================
