---------------------------- MODULE CompletedLog ----------------------------
(***************************************************************************)
(* What the indexer promises to the readers of completed blocks: a log     *)
(* that starts at the start block, to which one block at a time is         *)
(* appended, each on top of its parent, and from which nothing is taken    *)
(* back.  The indexer needs a dozen calls to append a block, any of which  *)
(* may fail; here it is one step.                                          *)
(***************************************************************************)
EXTENDS Naturals

CONSTANTS Block, NoBlock, Numbers, NumberOf, ParentOf, StartBlock

VARIABLE log    \* number -> block, or NoBlock

InLog(n) == log[n] # NoBlock

Init == log = [n \in Numbers |-> NoBlock]

Extends(b) ==
    LET n == NumberOf[b]
    IN  n = StartBlock \/ (n > StartBlock /\ InLog(n - 1) /\ log[n - 1] = ParentOf[b])

Append(b) ==
    /\ ~InLog(NumberOf[b])
    /\ Extends(b)
    /\ log' = [log EXCEPT ![NumberOf[b]] = b]

Next == \E b \in Block : Append(b)

Spec == Init /\ [][Next]_log
=============================================================================
