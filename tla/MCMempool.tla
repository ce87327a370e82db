------------------------------ MODULE MCMempool ------------------------------
(***************************************************************************)
(* Instances of Mempool and PeerIDs for TLC.  The two share no state: a     *)
(* behaviour is one of the pool, or one of the ids.                        *)
(***************************************************************************)
EXTENDS Mempool, PeerIDs, TLC

CONSTANTS a, b, c, p, r

VARIABLE part  \* "pool" or "ids"

MCInit == part \in {"pool", "ids"} /\ Init /\ PeerInit

PoolStep == part = "pool" /\ Next /\ UNCHANGED <<part, peerVars>>

IDStep == part = "ids" /\ PeerNext /\ UNCHANGED <<part, vars>>

MCNext == PoolStep \/ IDStep

MCSpec == MCInit /\ [][MCNext]_<<part, vars, peerVars>>

MCElems == 1..4

\* Transaction c is larger: it takes the room of one or of both of the others.
MCTxSize == a :> 1 @@ b :> 2 @@ c :> 3

MCGasWanted == a :> 1 @@ b :> 1 @@ c :> 2

\* a and c have the same sender.
MCSender == a :> p @@ b :> NoSender @@ c :> p
=============================================================================
