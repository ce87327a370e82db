------------------------------ MODULE Messages -------------------------------
(***************************************************************************)
(* The messages of types/pb and p2p/pb: their fields, and the three        *)
(* functions generated for each.  Messages of Tendermint that travel in    *)
(* them are Opaque: some content the node does not look into.              *)
(***************************************************************************)
EXTENDS Wire

F(name, num, kind) == [name |-> name, num |-> num, kind |-> kind, sub |-> <<>>]

M(name, num, kind, sub) == [name |-> name, num |-> num, kind |-> kind, sub |-> sub]

Opaque == <<F("Content", 1, "bytes")>>

\* Tendermint's signature of a commit.
CommitSigFields == <<F("BlockIdFlag", 1, "varint"), F("ValidatorAddress", 2, "bytes"),
                     M("Timestamp", 3, "embed", Opaque), F("Signature", 4, "bytes")>>

VersionFields ==
  <<F("Block", 1, "varint"), F("App", 2, "varint")>>
MarshalVersion(m) == Marshal(VersionFields, m)
SizeVersion(m) == Size(VersionFields, m)
UnmarshalVersion(b) == Unmarshal(VersionFields, b)

HeaderFields ==
  <<M("Version", 1, "msg", VersionFields), F("NamespaceId", 2, "bytes"),
    F("Height", 3, "varint"), F("Time", 4, "varint"), F("LastHeaderHash", 5, "bytes"),
    F("LastCommitHash", 6, "bytes"), F("DataHash", 7, "bytes"),
    F("ConsensusHash", 8, "bytes"), F("AppHash", 9, "bytes"),
    F("LastResultsHash", 10, "bytes"), F("ProposerAddress", 11, "bytes"),
    F("AggregatorsHash", 12, "bytes"), F("ChainId", 13, "bytes")>>
MarshalHeader(m) == Marshal(HeaderFields, m)
SizeHeader(m) == Size(HeaderFields, m)
UnmarshalHeader(b) == Unmarshal(HeaderFields, b)

CommitFields ==
  <<F("Height", 1, "varint"), F("HeaderHash", 2, "bytes"),
    F("Signatures", 3, "strings"), M("TmSignature", 4, "msg", CommitSigFields)>>
MarshalCommit(m) == Marshal(CommitFields, m)
SizeCommit(m) == Size(CommitFields, m)
UnmarshalCommit(b) == Unmarshal(CommitFields, b)

DataFields ==
  <<F("Txs", 1, "strings"), F("IntermediateStateRoots", 2, "strings"),
    M("Evidence", 3, "msgs", Opaque)>>
MarshalData(m) == Marshal(DataFields, m)
SizeData(m) == Size(DataFields, m)
UnmarshalData(b) == Unmarshal(DataFields, b)

BlockFields ==
  <<M("Header", 1, "msg", HeaderFields), M("Data", 2, "msg", DataFields),
    M("LastCommit", 3, "msg", CommitFields)>>
MarshalBlock(m) == Marshal(BlockFields, m)
SizeBlock(m) == Size(BlockFields, m)
UnmarshalBlock(b) == Unmarshal(BlockFields, b)

BatchFields ==
  <<F("StartHeight", 1, "varint"), F("EndHeight", 2, "varint"),
    M("Blocks", 3, "msgs", BlockFields), M("Commits", 4, "msgs", CommitFields)>>
MarshalBatch(m) == Marshal(BatchFields, m)
SizeBatch(m) == Size(BatchFields, m)
UnmarshalBatch(b) == Unmarshal(BatchFields, b)

StateFields ==
  <<M("Version", 1, "msg", Opaque), F("ChainId", 2, "bytes"),
    F("InitialHeight", 3, "varint"), F("LastBlockHeight", 4, "varint"),
    M("LastBlockID", 5, "embed", Opaque), M("LastBlockTime", 6, "embed", Opaque),
    F("SLStateIndex", 7, "varint"), M("NextValidators", 8, "msg", Opaque),
    M("Validators", 9, "msg", Opaque), M("LastValidators", 10, "msg", Opaque),
    F("LastHeightValidatorsChanged", 11, "varint"),
    M("ConsensusParams", 12, "embed", Opaque),
    F("LastHeightConsensusParamsChanged", 13, "varint"),
    F("LastResultsHash", 14, "bytes"), F("AppHash", 15, "bytes"),
    F("LastStoreHeight", 16, "varint"), F("BaseHeight", 17, "varint")>>
MarshalState(m) == Marshal(StateFields, m)
SizeState(m) == Size(StateFields, m)
UnmarshalState(b) == Unmarshal(StateFields, b)

GossipedBlockFields ==
  <<M("Block", 1, "msg", BlockFields), M("Commit", 2, "msg", CommitFields)>>
MarshalGossipedBlock(m) == Marshal(GossipedBlockFields, m)
SizeGossipedBlock(m) == Size(GossipedBlockFields, m)
UnmarshalGossipedBlock(b) == Unmarshal(GossipedBlockFields, b)

DAResponseFields ==
  <<F("Code", 1, "varint"), F("Message", 2, "bytes"),
    F("DataLayerHeight", 3, "varint")>>
MarshalDAResponse(m) == Marshal(DAResponseFields, m)
SizeDAResponse(m) == Size(DAResponseFields, m)
UnmarshalDAResponse(b) == Unmarshal(DAResponseFields, b)

SubmitBatchRequestFields ==
  <<M("Batch", 1, "msg", BatchFields)>>
MarshalSubmitBatchRequest(m) == Marshal(SubmitBatchRequestFields, m)
SizeSubmitBatchRequest(m) == Size(SubmitBatchRequestFields, m)
UnmarshalSubmitBatchRequest(b) == Unmarshal(SubmitBatchRequestFields, b)

SubmitBatchResponseFields ==
  <<M("Result", 1, "msg", DAResponseFields)>>
MarshalSubmitBatchResponse(m) == Marshal(SubmitBatchResponseFields, m)
SizeSubmitBatchResponse(m) == Size(SubmitBatchResponseFields, m)
UnmarshalSubmitBatchResponse(b) == Unmarshal(SubmitBatchResponseFields, b)

CheckBatchAvailabilityRequestFields ==
  <<F("DataLayerHeight", 1, "varint")>>
MarshalCheckBatchAvailabilityRequest(m) == Marshal(CheckBatchAvailabilityRequestFields, m)
SizeCheckBatchAvailabilityRequest(m) == Size(CheckBatchAvailabilityRequestFields, m)
UnmarshalCheckBatchAvailabilityRequest(b) == Unmarshal(CheckBatchAvailabilityRequestFields, b)

CheckBatchAvailabilityResponseFields ==
  <<M("Result", 1, "msg", DAResponseFields), F("DataAvailable", 2, "bool")>>
MarshalCheckBatchAvailabilityResponse(m) == Marshal(CheckBatchAvailabilityResponseFields, m)
SizeCheckBatchAvailabilityResponse(m) == Size(CheckBatchAvailabilityResponseFields, m)
UnmarshalCheckBatchAvailabilityResponse(b) == Unmarshal(CheckBatchAvailabilityResponseFields, b)

RetrieveBatchesRequestFields ==
  <<F("DataLayerHeight", 1, "varint")>>
MarshalRetrieveBatchesRequest(m) == Marshal(RetrieveBatchesRequestFields, m)
SizeRetrieveBatchesRequest(m) == Size(RetrieveBatchesRequestFields, m)
UnmarshalRetrieveBatchesRequest(b) == Unmarshal(RetrieveBatchesRequestFields, b)

RetrieveBatchesResponseFields ==
  <<M("Result", 1, "msg", DAResponseFields), M("Batches", 2, "msgs", BatchFields)>>
MarshalRetrieveBatchesResponse(m) == Marshal(RetrieveBatchesResponseFields, m)
SizeRetrieveBatchesResponse(m) == Size(RetrieveBatchesResponseFields, m)
UnmarshalRetrieveBatchesResponse(b) == Unmarshal(RetrieveBatchesResponseFields, b)

=============================================================================
