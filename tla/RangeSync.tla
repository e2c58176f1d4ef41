------------------------------ MODULE RangeSync -----------------------------
(***************************************************************************)
(* The manual sync of a range, BlockService.SyncBlockRangeToDB: it calls   *)
(* SyncBlockToDB for one number after the other, goes on after most        *)
(* errors, and stops at a conflict with what is stored.                    *)
(*                                                                         *)
(* Block numbers are uint64 and wrap.  MaxNumber is the largest uint64 of  *)
(* an instance, so that 2^w is MaxNumber + 1.                              *)
(***************************************************************************)
EXTENDS BlockSync, Sequences

CONSTANTS
    Ranger,         \* the syncer that serves the range request
    MaxBlockRange,  \* maxBlockRange: 100 in the code
    RangeEnds       \* the values of "end" that are asked for

ASSUME RangeAssumption ==
    /\ Ranger \in Syncer
    /\ MaxBlockRange \in Nat \ {0}
    /\ RangeEnds \subseteq Numbers

VARIABLES
    phase,          \* "idle", "loop", "sync", "done" or "stopped"
    range,          \* the request: [start, end]
    number,         \* the loop variable
    succeeded,      \* result.Succeeded
    failedBlocks    \* result.FailedBlocks; its length is result.Failed

request == <<phase, range, number, succeeded, failedBlocks>>
rvars == <<chain, blocks, txs, pc, num, blk, todo, got,
           phase, range, number, succeeded, failedBlocks>>

Plus(m, n) == (m + n) % (MaxNumber + 1)
Minus(m, n) == (m + (MaxNumber + 1) - n) % (MaxNumber + 1)

\* Mutant: the limit is off by one.
TooLargeOffByOne(start, end) == Plus(Minus(end, start), 1) > MaxBlockRange + 1

TooLarge(start, end) == Plus(Minus(end, start), 1) > MaxBlockRange

Tried == succeeded + Len(failedBlocks)

\* Bound of the model: an instance looks no further than the first call above
\* the limit.
MaxTries == MaxBlockRange + 1

\* Errors after which the rest of the range makes no sense.
Fatal == {"reorg", "discontinuity", "conflict"}

\* Mutant: a number that failed is tried again.
AgainIfFailed == IF pc[Ranger] = "ok" THEN Plus(number, 1) ELSE number

NextNumber == Plus(number, 1)

-----------------------------------------------------------------------------
NoRequest ==
    /\ phase' = "idle"
    /\ range' = [start |-> 0, end |-> 0]
    /\ number' = 0
    /\ succeeded' = 0
    /\ failedBlocks' = <<>>

RInit ==
    /\ Init
    /\ phase = "idle"
    /\ range = [start |-> 0, end |-> 0]
    /\ number = 0
    /\ succeeded = 0
    /\ failedBlocks = <<>>

\* A request is accepted; one with start > end, or too large, is refused and
\* changes nothing.
SyncBlockRange(start, end) ==
    /\ phase = "idle"
    /\ start <= end
    /\ ~TooLarge(start, end)
    /\ phase' = "loop"
    /\ range' = [start |-> start, end |-> end]
    /\ number' = start
    /\ UNCHANGED <<vars, succeeded, failedBlocks>>

\* for number <= end
LoopBody ==
    /\ phase = "loop" /\ number <= range.end
    /\ Tried < MaxTries
    /\ Call(Ranger, number)
    /\ phase' = "sync"
    /\ UNCHANGED <<range, number, succeeded, failedBlocks>>

LoopEnd ==
    /\ phase = "loop" /\ number > range.end
    /\ phase' = "done"
    /\ UNCHANGED <<vars, range, number, succeeded, failedBlocks>>

\* ctx.Done() is closed: ErrRequestCanceled.
LoopCanceled ==
    /\ phase = "loop" /\ number <= range.end
    /\ phase' = "stopped"
    /\ UNCHANGED <<vars, range, number, succeeded, failedBlocks>>

\* SyncBlockToDB returns to the loop.
CountResult ==
    /\ phase = "sync"
    /\ Return(Ranger)
    /\ IF pc[Ranger] = "ok"
       THEN succeeded' = succeeded + 1 /\ UNCHANGED failedBlocks
       ELSE failedBlocks' = Append(failedBlocks, number) /\ UNCHANGED succeeded
    /\ IF pc[Ranger] \in Fatal
       THEN phase' = "stopped" /\ UNCHANGED number
       ELSE phase' = "loop" /\ number' = NextNumber
    /\ UNCHANGED range

Respond ==
    /\ phase \in {"done", "stopped"}
    /\ NoRequest
    /\ UNCHANGED vars

RangeStep == LoopBody \/ LoopEnd \/ LoopCanceled \/ CountResult \/ Respond

RNext ==
    \/ \E start \in Numbers, end \in RangeEnds : SyncBlockRange(start, end)
    \/ RangeStep
    \/ \E s \in Syncer : SyncStep(s) /\ UNCHANGED request
    \/ \E s \in Syncer \ {Ranger} :
        /\ Return(s) \/ \E n \in Numbers : Call(s, n)
        /\ UNCHANGED request
    \/ NodeStep /\ UNCHANGED request
    \/ Crash /\ NoRequest

RSpec == RInit /\ [][RNext]_rvars

\* The handler runs, and each of its calls has a deadline.
RFairSpec ==
    /\ RSpec
    /\ WF_rvars(RangeStep)
    /\ WF_rvars(SyncStep(Ranger) /\ UNCHANGED request)

-----------------------------------------------------------------------------
RTypeOK ==
    /\ TypeOK
    /\ phase \in {"idle", "loop", "sync", "done", "stopped"}
    /\ range \in [start : Numbers, end : Numbers]
    /\ number \in Numbers
    /\ succeeded \in 0..MaxTries
    /\ failedBlocks \in Seq(Numbers)

\* A request makes at most maxBlockRange calls of SyncBlockToDB.
RangeBounded == Tried <= MaxBlockRange

\* The report accounts for every number of the range, and what it counts as
\* synced is completed (no other caller being there to fail on it later).
RangeReport ==
    phase = "done" =>
        /\ Tried = range.end - range.start + 1
        /\ \A n \in range.start..range.end :
            Completed(n) \/ \E i \in 1..Len(failedBlocks) : failedBlocks[i] = n

\* Every request is answered.
RangeAnswered == phase = "loop" ~> phase = "idle"
=============================================================================
