------------------------------ MODULE ChainNode ------------------------------
(***************************************************************************)
(* The Ethereum node behind internal/rpc, modelled from how the code uses  *)
(* it: it serves the blocks of one canonical chain, and the canonical      *)
(* chain may be replaced at any time (growth, reorg, or an RPC endpoint    *)
(* that falls behind).                                                     *)
(*                                                                         *)
(* A block stands for its hash: number, parent and transactions are        *)
(* functions of it.  A transaction is the hash of a transaction; the same  *)
(* transaction may be mined in blocks of different forks, at different     *)
(* positions.                                                              *)
(***************************************************************************)
EXTENDS Naturals, FiniteSets

CONSTANTS
    Block,      \* block hashes
    Tx,         \* transaction hashes
    NoBlock,    \* "no such block": a missing row, a null column, no answer
    MaxNumber,  \* bound: the highest block number of the instance
    NumberOf,   \* Block -> its number
    ParentOf,   \* Block -> its parent hash
    TxIndex,    \* Block -> (its transactions -> their positions)
    Chains,     \* the canonical chains the node may serve
    FinalDepth, \* a block with that many blocks on top of it is final:
                \* 0 when the chain only grows, above MaxNumber when the
                \* node promises nothing
    Lag         \* how far the sync target ("latest", "safe", "finalized")
                \* trails the head of the canonical chain

VARIABLE chain  \* the canonical chain: number -> block

Numbers == 0..MaxNumber

Position == Nat

BlockTxs(b) == DOMAIN TxIndex[b]

\* A chain starts at block 0, is linked by parent hashes and holds each
\* transaction at most once.
IsChain(c) ==
    \E h \in Numbers :
        /\ c \in [0..h -> Block]
        /\ \A n \in 0..h : NumberOf[c[n]] = n
        /\ \A n \in 1..h : ParentOf[c[n]] = c[n - 1]
        /\ \A m, n \in 0..h : m # n => BlockTxs(c[m]) \cap BlockTxs(c[n]) = {}

ASSUME NodeAssumption ==
    /\ MaxNumber \in Nat
    /\ Lag \in Nat
    /\ FinalDepth \in Nat
    /\ NoBlock \notin Block
    /\ NumberOf \in [Block -> Numbers]
    /\ ParentOf \in [Block -> Block \cup {NoBlock}]
    /\ \A b \in Block : /\ BlockTxs(b) \subseteq Tx
                        /\ TxIndex[b] \in [BlockTxs(b) -> Position]

ASSUME ChainsAssumption ==
    /\ Chains # {}
    /\ \A c \in Chains : IsChain(c)

-----------------------------------------------------------------------------
(* What the node answers to the calls of internal/rpc.                     *)

\* eth_getBlockByNumber answers a block, not null.
HasBlock(n) == n \in DOMAIN chain

\* eth_getTransactionReceipt can only answer for a mined transaction; the
\* receipt carries the block the transaction is in, which stands for it.
Mined(t) == \E n \in DOMAIN chain : t \in BlockTxs(chain[n])

MinedIn(t) == chain[CHOOSE n \in DOMAIN chain : t \in BlockTxs(chain[n])]

\* eth_getBlockByNumber(tag) answers a header: the target exists.
HasTarget == HasBlock(Lag)

\* n <= the number of the sync target.
WithinTarget(n) == HasBlock(n + Lag)

-----------------------------------------------------------------------------
NodeInit == chain \in Chains

IsFinal(n) == HasBlock(n + FinalDepth)

\* The node switches to another canonical chain: longer, shorter, or another
\* fork, but final blocks stay, and stay final.
NewChain ==
    /\ chain' \in Chains \ {chain}
    /\ \A n \in DOMAIN chain : IsFinal(n) =>
        /\ n + FinalDepth \in DOMAIN chain'
        /\ chain'[n] = chain[n]

NodeTypeOK == chain \in Chains
=============================================================================
