------------------------------- MODULE MCCodec -------------------------------
(***************************************************************************)
(* The block store, the link and the indexes, model-checked on samples     *)
(* that reach every field, the empty and the zero values, and integers of  *)
(* one, two and three groups.  The three share no state: a behaviour is    *)
(* one of the store, of the link or of the indexes.                        *)
(***************************************************************************)
EXTENDS StoreBytes, Link, MCIndexer

CONSTANTS MCBlocks  \* the number of blocks to save

VARIABLE part  \* "store", "link" or "index"

-----------------------------------------------------------------------------
(* Samples *)

H(n) == <<n, n>>

MCHeader(h) ==
  [Version |-> [Block |-> h % 2, App |-> 300 * (h - 1)], NamespaceID |-> <<7>>,
   Height |-> h, Time |-> IF h = 1 THEN 0 ELSE 129 * h, ChainID |-> <<99>>,
   LastHeaderHash |-> H(h - 1), LastCommitHash |-> H(0), DataHash |-> H(10 + h),
   ConsensusHash |-> H(0), AppHash |-> H(20 + h), LastResultsHash |-> H(200),
   ProposerAddress |-> <<5>>, AggregatorsHash |-> H(30)]

MCSig(h) == [BlockIDFlag |-> 2, ValidatorAddress |-> <<5>>, Timestamp |-> <<h>>, Signature |-> <<8, h>>]

MCCommit(h, sig) ==
  [Height |-> h, HeaderHash |-> H(h), Signatures |-> <<<<9, h>>>>, TMSignature |-> sig]

MCBlock(h, commit) ==
  [Header |-> MCHeader(h), LastCommit |-> commit,
   Data |-> [Txs |-> CASE h = 1 -> <<>> [] h = 2 -> <<<<>>, <<1>>>> [] OTHER -> <<<<1, 128>>>>,
             RawRootsList |-> IF h = 2 THEN <<H(4)>> ELSE <<>>, Evidence |-> <<>>]]

\* The first block carries an empty commit.
MCEntry(h, sig(_)) ==
  [block |-> MCBlock(h, IF h = 1 THEN NoCommit ELSE MCCommit(h - 1, sig(h - 1))),
   commit |-> MCCommit(h, sig(h))]

MCBlockSet == {MCEntry(h, MCSig) : h \in 1..MCBlocks}

MCOldBlocks == [h \in 1..2 |-> MCEntry(h, LAMBDA n : NoTMSignature)]

MCState(n) ==
  [Version |-> <<1>>, ChainID |-> <<99>>, InitialHeight |-> 1, LastBlockHeight |-> n,
   LastStoreHeight |-> 0, BaseHeight |-> 0, SLStateIndex |-> 200 * n, LastBlockID |-> H(n),
   LastBlockTime |-> <<n>>, NextValidators |-> <<6>>, Validators |-> <<6>>,
   LastValidators |-> IF n = 0 THEN <<>> ELSE <<6>>, LastHeightValidatorsChanged |-> 1,
   ConsensusParams |-> <<3>>, LastHeightConsensusParamsChanged |-> 1,
   LastResultsHash |-> H(0), AppHash |-> H(20 + n)]

MCStates == {MCState(1)}

MCContents == {<<4>>}

\* Different content has a different digest.
MCDigest(header) == IF header = ToABCIHeader(MCHeader(header.Height)) THEN H(header.Height) ELSE H(99)

MCBatch(hs, commits) ==
  [StartHeight |-> 1, EndHeight |-> Len(hs), Blocks |-> [i \in DOMAIN hs |-> MCEntry(hs[i], MCSig).block],
   Commits |-> [i \in 1..commits |-> MCCommit(hs[i], MCSig(i))]]

MCBatches == {MCBatch(<<>>, 0), MCBatch(<<1>>, 1), MCBatch(<<1, 2, 3>>, 3)}

MCGossip(e) == [Block |-> e.block, Commit |-> e.commit]

Of(kind, objects) == {[kind |-> kind, obj |-> o] : o \in objects}

MCObjects ==
  LET unsigned == [MCEntry(2, MCSig) EXCEPT !.commit.Signatures = <<>>]
      long == [MCEntry(2, MCSig) EXCEPT !.block.LastCommit.Signatures = <<<<1, 2, 3, 4>>>>]
      bare == [MCEntry(2, MCSig) EXCEPT !.block.Header.ProposerAddress = <<>>]
      entries == MCBlockSet \cup {unsigned, long, bare}
  IN  UNION {Of("Block", {e.block : e \in MCBlockSet}), Of("Header", {e.block.Header : e \in entries}),
             Of("Commit", {e.commit : e \in entries}), Of("Batch", MCBatches),
             Of("State", {MCState(n) : n \in 0..1}), Of("GossipedBlock", {MCGossip(e) : e \in entries}),
             Of("SubmitBatchRequest", MCBatches)}

Raw(kind, msgs) == {[kind |-> kind, msg |-> m] : m \in msgs}

Ints == {0, 1, 127, 128, 16383, 16384, 65535}

MCRawMsgs ==
  LET results == {Absent} \cup {[Code |-> c, Message |-> t, DataLayerHeight |-> c * 16384] :
                                c \in 0..3, t \in {<<>>, <<33>>}}
      data(list) == [Txs |-> list, IntermediateStateRoots |-> <<<<>>>>,
                    Evidence |-> EvidenceToProto(<<<<<<1>>, <<2>>>>, <<>>, <<<<3>>>>>>)]
  IN  UNION {Raw("Version", {[Block |-> b, App |-> a] : b \in Ints, a \in Ints}),
             Raw("Data", {data(list) : list \in {<<>>, <<<<>>, <<1>>>>}}),
             Raw("Block", {[Header |-> Absent, Data |-> Absent, LastCommit |-> Absent]}),
             Raw("DAResponse", results \ {Absent}),
             Raw("SubmitBatchResponse", {[Result |-> r] : r \in results}),
             Raw("CheckBatchAvailabilityRequest", {[DataLayerHeight |-> n] : n \in Ints}),
             Raw("CheckBatchAvailabilityResponse",
                 {[Result |-> r, DataAvailable |-> b] : r \in results, b \in 0..1}),
             Raw("RetrieveBatchesRequest", {[DataLayerHeight |-> n] : n \in Ints}),
             Raw("RetrieveBatchesResponse",
                 {[Result |-> r, Batches |-> b] :
                    r \in results, b \in {<<>>, <<BatchToProto(MCBatch(<<2>>, 1))>>}})}

\* Field 30 of each wire type, the group with a field inside.
MCUnknown ==
  {<<240, 1, 200, 1>>, <<241, 1, 1, 2, 3, 4, 5, 6, 7, 8>>, <<242, 1, 2, 1, 2>>,
   <<243, 1, 8, 1, 244, 1>>, <<245, 1, 1, 2, 3, 4>>}

-----------------------------------------------------------------------------

Idle == [kind |-> "idle", obj |-> Absent, msg |-> Absent, bytes |-> <<>>, fault |-> "none"]

MCInit ==
  /\ part \in {"store", "link", "index"}
  /\ StoreInit /\ IndexInit
  /\ IF part = "link" THEN LinkInit ELSE link = Idle
  /\ part # "store" => db = <<>>

StoreStep == part = "store" /\ StoreNext /\ UNCHANGED <<part, link, indexVars>>

LinkStep == part = "link" /\ LinkNext /\ UNCHANGED <<part, storeVars, indexVars>>

IndexStep == part = "index" /\ IndexNext /\ UNCHANGED <<part, storeVars, link>>

MCNext == StoreStep \/ LinkStep \/ IndexStep

MCSpec == MCInit /\ [][MCNext]_<<part, storeVars, link, indexVars>>

\* PagesAreTheAnswer of Indexer (TxSearch and BlockSearch of rpc/client/client.go),
\* evaluated in the behaviours of the indexes only: the pages of a search are, in
\* order, the transactions or the blocks that meet all its conditions; a page of
\* blocks of which one was pruned is not claimed.
SearchIsExact == part = "index" => PagesAreTheAnswer
=============================================================================
