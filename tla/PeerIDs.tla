------------------------------ MODULE PeerIDs --------------------------------
(***************************************************************************)
(* The short ids that the mempool knows peers by (node/mempool/mempool.go).*)
(* Every operation runs under one mutex.  An id is an unsigned integer     *)
(* that wraps around; id 0 stands for transactions that come from no peer. *)
(***************************************************************************)
EXTENDS Integers, FiniteSets

CONSTANTS
  Peers,    \* the peers that ever connect
  IDSpace,  \* 65536: the number of ids
  NoID      \* for a peer without an id

ASSUME IDAssumption == IDSpace \in Nat /\ IDSpace > 1 /\ NoID \notin Nat

IDs == 0..(IDSpace - 1)

maxActiveIDs == IDSpace - 1

VARIABLES
  peerMap,    \* the id of each peer, or NoID
  nextID,     \* where the search for the next id starts
  activeIDs,  \* the ids in use
  panicked    \* TRUE iff nextPeerID found all ids in use

peerVars == <<peerMap, nextID, activeIDs, panicked>>

\* NewMempoolIDs
PeerInit ==
  /\ peerMap = [p \in Peers |-> NoID]
  /\ activeIDs = {0}
  /\ nextID = 1
  /\ panicked = FALSE

\* x++ of an id.
Wrap(x) == IF x >= IDSpace THEN x - IDSpace ELSE x

\* The id that is n further than nextID is not in use, and all before it are.
FirstFree(n) ==
  /\ Wrap(nextID + n) \notin activeIDs
  /\ \A k \in 0..(n - 1) : Wrap(nextID + k) \in activeIDs

\* nextPeerID, and the two assignments that its callers make.
Assign(p) ==
  \/ /\ Cardinality(activeIDs) = maxActiveIDs
     /\ panicked' = TRUE
     /\ UNCHANGED <<peerMap, nextID, activeIDs>>
  \/ /\ Cardinality(activeIDs) # maxActiveIDs
     /\ \E n \in 0..(IDSpace - 1) :
          /\ FirstFree(n)
          /\ peerMap' = [peerMap EXCEPT ![p] = Wrap(nextID + n)]
          /\ activeIDs' = activeIDs \cup {Wrap(nextID + n)}
          /\ nextID' = Wrap(Wrap(nextID + n) + 1)
     /\ UNCHANGED panicked

\* A second reservation leaves the first id in use, by nobody.
ReserveForPeer(p) == Assign(p)

GetForPeer(p) ==
  \/ peerMap[p] = NoID /\ Assign(p)
  \/ peerMap[p] # NoID /\ UNCHANGED peerVars

\* Mutant: a peer without an id gives back the zero value.
Reclaim_Unknown(p) ==
  /\ activeIDs' = activeIDs \ {IF peerMap[p] = NoID THEN 0 ELSE peerMap[p]}
  /\ peerMap' = [peerMap EXCEPT ![p] = NoID]
  /\ UNCHANGED <<nextID, panicked>>

Reclaim(p) ==
  /\ activeIDs' = activeIDs \ {peerMap[p]}
  /\ peerMap' = [peerMap EXCEPT ![p] = NoID]
  /\ UNCHANGED <<nextID, panicked>>

PeerNext ==
  \E p \in Peers : ~panicked /\ (ReserveForPeer(p) \/ GetForPeer(p) \/ Reclaim(p))

PeerSpec == PeerInit /\ [][PeerNext]_peerVars

-----------------------------------------------------------------------------
(* Properties *)

PeerTypeOK ==
  /\ peerMap \in [Peers -> IDs \cup {NoID}]
  /\ nextID \in IDs
  /\ activeIDs \subseteq IDs
  /\ panicked \in BOOLEAN

\* No two peers have the same id, no peer has the id of transactions without a peer, ids
\* of peers are in use, and the ids never run out: nextPeerID's test for equality with
\* the limit is passed only with an id free, so that its loop ends.
PeerIDsUnique ==
  /\ \A p, q \in Peers : peerMap[p] # NoID =>
       /\ peerMap[p] \in activeIDs \ {0}
       /\ p # q => peerMap[p] # peerMap[q]
  /\ 0 \in activeIDs
  /\ Cardinality(activeIDs) <= maxActiveIDs
  /\ Cardinality(activeIDs) # maxActiveIDs => \E n \in 0..(IDSpace - 1) : FirstFree(n)
=============================================================================
