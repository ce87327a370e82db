----------------------------- MODULE Conversion ------------------------------
(***************************************************************************)
(* The node's own types and their conversion to and from the messages      *)
(* (types/serialization.go, p2p/events.go), to Tendermint's types          *)
(* (conv/abci/block.go), their hash (types/hashing.go) and their basic     *)
(* validation (types/validation.go).                                       *)
(*                                                                         *)
(* A conversion that can fail returns [err, val]; err is "panic" where the *)
(* code panics or dereferences a nil pointer.  The fixed lengths of hashes *)
(* and namespaces are constants.  Tendermint's values (a validator set, a  *)
(* block id, a time) are byte strings.                                     *)
(***************************************************************************)
EXTENDS Messages

CONSTANTS
  NamespaceLen,     \* 8: the bytes of a namespace id
  MaxSignatureSize, \* Tendermint's limit
  Digest(_)         \* Tendermint's hash of its header, HashLen bytes

\* int64(x) of a uint64.
Signed(x) == IF x >= Pow2(Width - 1) THEN x - Pow2(Width) ELSE x

-----------------------------------------------------------------------------
(* To messages *)

HeaderToProto(h) ==
  [Version |-> [Block |-> h.Version.Block, App |-> h.Version.App],
   NamespaceId |-> h.NamespaceID, Height |-> h.Height, Time |-> h.Time,
   ChainId |-> h.ChainID, LastHeaderHash |-> h.LastHeaderHash,
   LastCommitHash |-> h.LastCommitHash, DataHash |-> h.DataHash,
   ConsensusHash |-> h.ConsensusHash, AppHash |-> h.AppHash,
   LastResultsHash |-> h.LastResultsHash, ProposerAddress |-> h.ProposerAddress,
   AggregatorsHash |-> h.AggregatorsHash]

CommitToProto(c) ==
  [Height |-> c.Height, HeaderHash |-> c.HeaderHash, Signatures |-> c.Signatures,
   TmSignature |-> [BlockIdFlag |-> c.TMSignature.BlockIDFlag,
                    ValidatorAddress |-> c.TMSignature.ValidatorAddress,
                    Timestamp |-> [Content |-> c.TMSignature.Timestamp],
                    Signature |-> c.TMSignature.Signature]]

\* A piece of evidence is the sequence of its ABCI forms.  The address of the loop's
\* variable is appended for each, so that all are the last one in the end.
EvidenceToProto(evidence) ==
  FlattenSeq([i \in DOMAIN evidence |->
                [j \in DOMAIN evidence[i] |-> [Content |-> Last(evidence[i])]]])

DataToProto(d) ==
  [Txs |-> d.Txs, IntermediateStateRoots |-> d.RawRootsList,
   Evidence |-> EvidenceToProto(d.Evidence)]

BlockToProto(b) ==
  [Header |-> HeaderToProto(b.Header), Data |-> DataToProto(b.Data),
   LastCommit |-> CommitToProto(b.LastCommit)]

BlocksToProto(blocks) == [i \in DOMAIN blocks |-> BlockToProto(blocks[i])]

CommitsToProto(commits) == [i \in DOMAIN commits |-> CommitToProto(commits[i])]

BatchToProto(b) ==
  [StartHeight |-> b.StartHeight, EndHeight |-> b.EndHeight,
   Blocks |-> BlocksToProto(b.Blocks), Commits |-> CommitsToProto(b.Commits)]

GossipedBlockToProto(g) ==
  [Block |-> BlockToProto(g.Block), Commit |-> CommitToProto(g.Commit)]

StateToProto(s) ==
  LET tm(v) == [Content |-> v] IN
  [Version |-> tm(s.Version), ChainId |-> s.ChainID, InitialHeight |-> s.InitialHeight,
   LastBlockHeight |-> s.LastBlockHeight, SLStateIndex |-> s.SLStateIndex,
   LastBlockID |-> tm(s.LastBlockID), LastBlockTime |-> tm(s.LastBlockTime),
   NextValidators |-> tm(s.NextValidators), Validators |-> tm(s.Validators),
   LastValidators |-> tm(s.LastValidators), LastStoreHeight |-> s.LastStoreHeight,
   BaseHeight |-> s.BaseHeight,
   LastHeightValidatorsChanged |-> s.LastHeightValidatorsChanged,
   ConsensusParams |-> tm(s.ConsensusParams),
   LastHeightConsensusParamsChanged |-> s.LastHeightConsensusParamsChanged,
   LastResultsHash |-> s.LastResultsHash, AppHash |-> s.AppHash]

-----------------------------------------------------------------------------
(* From messages *)

HashFields == {"LastHeaderHash", "LastCommitHash", "DataHash", "ConsensusHash", "AppHash",
               "LastResultsHash", "AggregatorsHash"}

\* Every fixed-length field must have its length (safeCopy).
HeaderFromProto(p) ==
  IF p = Absent THEN Err("panic")
  ELSE IF p.Version = Absent THEN Err("panic")
  ELSE IF Len(p.NamespaceId) # NamespaceLen \/ \E f \in HashFields : Len(p[f]) # HashLen
  THEN Err("length")
  ELSE Ok([f \in HashFields |-> p[f]] @@
          [Version |-> [Block |-> p.Version.Block, App |-> p.Version.App],
           NamespaceID |-> p.NamespaceId, Height |-> p.Height, Time |-> p.Time,
           ChainID |-> p.ChainId, ProposerAddress |-> p.ProposerAddress])

NoTMSignature ==
  [BlockIDFlag |-> 0, ValidatorAddress |-> <<>>, Timestamp |-> <<>>, Signature |-> <<>>]

\* Tendermint's signature is missing in commits of old releases.
CommitFromProto(p) ==
  IF p = Absent THEN Err("panic")
  ELSE IF Len(p.HeaderHash) # HashLen THEN Err("length")
  ELSE Ok([Height |-> p.Height, HeaderHash |-> p.HeaderHash, Signatures |-> p.Signatures,
           TMSignature |->
             IF p.TmSignature = Absent THEN NoTMSignature
             ELSE [BlockIDFlag |-> p.TmSignature.BlockIdFlag,
                   ValidatorAddress |-> p.TmSignature.ValidatorAddress,
                   Timestamp |-> p.TmSignature.Timestamp.Content,
                   Signature |-> p.TmSignature.Signature]])

NoCommit ==
  [Height |-> 0, HeaderHash |-> [i \in 1..HashLen |-> 0], Signatures |-> <<>>,
   TMSignature |-> NoTMSignature]

\* Evidence is dropped (evidenceFromProto returns none).
BlockFromProto(p) ==
  LET header == HeaderFromProto(p.Header)
      commit == IF p.LastCommit = Absent THEN Ok(NoCommit) ELSE CommitFromProto(p.LastCommit)
  IN  IF p = Absent THEN Err("panic")
      ELSE IF header.err # "" THEN header
      ELSE IF p.Data = Absent THEN Err("panic")
      ELSE IF commit.err # "" THEN commit
      ELSE Ok([Header |-> header.val, LastCommit |-> commit.val,
               Data |-> [Txs |-> p.Data.Txs, RawRootsList |-> p.Data.IntermediateStateRoots,
                         Evidence |-> <<>>]])

AllOrPanic(results) ==
  IF \E i \in DOMAIN results : results[i].err # "" THEN Err("panic")
  ELSE Ok([i \in DOMAIN results |-> results[i].val])

ProtoToBlocks(blocks) == AllOrPanic([i \in DOMAIN blocks |-> BlockFromProto(blocks[i])])

\* Mutant: the loop variable is shared, every commit is the last one.
ProtoToCommits_LoopVariable(commits) ==
  AllOrPanic([i \in DOMAIN commits |-> CommitFromProto(commits[Len(commits)])])

ProtoToCommits(commits) == AllOrPanic([i \in DOMAIN commits |-> CommitFromProto(commits[i])])

BatchFromProto(p) ==
  LET blocks == ProtoToBlocks(p.Blocks)
      commits == ProtoToCommits(p.Commits)
  IN  IF blocks.err # "" THEN blocks
      ELSE IF commits.err # "" THEN commits
      ELSE Ok([StartHeight |-> p.StartHeight, EndHeight |-> p.EndHeight,
               Blocks |-> blocks.val, Commits |-> commits.val])

GossipedBlockFromProto(p) ==
  LET block == BlockFromProto(p.Block)
      commit == CommitFromProto(p.Commit)
  IN  IF block.err # "" THEN block
      ELSE IF commit.err # "" THEN commit
      ELSE Ok([Block |-> block.val, Commit |-> commit.val])

\* copy into an array of HashLen bytes: what is too long is cut, what is short leaves zeros.
CopyHash(bytes) == [i \in 1..HashLen |-> IF i <= Len(bytes) THEN bytes[i] ELSE 0]

\* A nil validator set is an error of Tendermint's conversion.
StateFromProto(p) ==
  IF p.Version = Absent THEN Err("panic")
  ELSE IF Absent \in {p.NextValidators, p.Validators, p.LastValidators} THEN Err("validators")
  ELSE Ok([Version |-> p.Version.Content, ChainID |-> p.ChainId,
           InitialHeight |-> p.InitialHeight, LastBlockHeight |-> p.LastBlockHeight,
           LastStoreHeight |->
             IF p.LastStoreHeight = 0 /\ Signed(p.LastBlockHeight) > 1
             THEN p.LastBlockHeight ELSE p.LastStoreHeight,
           BaseHeight |-> p.BaseHeight, SLStateIndex |-> p.SLStateIndex,
           LastBlockID |-> p.LastBlockID.Content, LastBlockTime |-> p.LastBlockTime.Content,
           NextValidators |-> p.NextValidators.Content, Validators |-> p.Validators.Content,
           LastValidators |-> p.LastValidators.Content,
           LastHeightValidatorsChanged |-> p.LastHeightValidatorsChanged,
           ConsensusParams |-> p.ConsensusParams.Content,
           LastHeightConsensusParamsChanged |-> p.LastHeightConsensusParamsChanged,
           LastResultsHash |-> CopyHash(p.LastResultsHash), AppHash |-> CopyHash(p.AppHash)])

-----------------------------------------------------------------------------
(* Binary forms *)

\* Decode the bytes, then convert the message.
Through(decoded, FromProto(_)) ==
  IF decoded.err # "" THEN Err(decoded.err) ELSE FromProto(decoded.msg)

BlockMarshalBinary(b) == MarshalBlock(BlockToProto(b))
BlockUnmarshalBinary(bytes) == Through(UnmarshalBlock(bytes), BlockFromProto)
HeaderMarshalBinary(h) == MarshalHeader(HeaderToProto(h))
HeaderUnmarshalBinary(bytes) == Through(UnmarshalHeader(bytes), HeaderFromProto)
CommitMarshalBinary(c) == MarshalCommit(CommitToProto(c))
CommitUnmarshalBinary(bytes) == Through(UnmarshalCommit(bytes), CommitFromProto)
BatchMarshalBinary(b) == MarshalBatch(BatchToProto(b))
BatchUnmarshalBinary(bytes) == Through(UnmarshalBatch(bytes), BatchFromProto)
GossipedBlockMarshalBinary(g) == MarshalGossipedBlock(GossipedBlockToProto(g))
GossipedBlockUnmarshalBinary(bytes) ==
  Through(UnmarshalGossipedBlock(bytes), GossipedBlockFromProto)

-----------------------------------------------------------------------------
(* Tendermint's forms and the hash *)

TMBlockID(hash) == [Hash |-> hash, PartSetHeader |-> [Total |-> 1, Hash |-> hash]]

\* The namespace is not part of it.
ToABCIHeader(h) ==
  [Version |-> h.Version, Height |-> Signed(h.Height), Time |-> Signed(h.Time),
   LastBlockID |-> TMBlockID(h.LastHeaderHash), LastCommitHash |-> h.LastCommitHash,
   DataHash |-> h.DataHash, ValidatorsHash |-> h.AggregatorsHash,
   NextValidatorsHash |-> h.AggregatorsHash, ConsensusHash |-> h.ConsensusHash,
   AppHash |-> h.AppHash, LastResultsHash |-> h.LastResultsHash,
   ProposerAddress |-> h.ProposerAddress, ChainID |-> h.ChainID]

HeaderHash(h) == Digest(ToABCIHeader(h))

BlockIDFlagCommit == 2

\* Of the commit's own block when it is called with that block's header; ToABCIBlock
\* calls it with the header of the block that carries the commit.
ToABCICommit(c, h) ==
  [Height |-> Signed(c.Height), BlockID |-> TMBlockID(HeaderHash(h)),
   Signatures |->
     IF c.TMSignature.Signature # <<>> THEN <<c.TMSignature>>
     ELSE [i \in DOMAIN c.Signatures |->
             [BlockIDFlag |-> BlockIDFlagCommit, Signature |-> c.Signatures[i],
              ValidatorAddress |-> IF Len(c.Signatures) = 1 THEN h.ProposerAddress ELSE <<>>,
              Timestamp |-> IF Len(c.Signatures) = 1 THEN Signed(h.Time) ELSE <<>>]]]

ToABCIBlock(b) ==
  LET commit == ToABCICommit(b.LastCommit, b.Header) IN
  [Header |-> ToABCIHeader(b.Header), Txs |-> b.Data.Txs,
   LastCommit |-> IF Len(commit.Signatures) # 1 THEN commit
                  ELSE [commit EXCEPT !.Signatures[1].ValidatorAddress = b.Header.ProposerAddress]]

ToABCIBlockMeta(b) ==
  LET block == ToABCIBlock(b) IN
  [BlockID |-> Digest(block.Header), Header |-> block.Header, NumTxs |-> Len(block.Txs)]

-----------------------------------------------------------------------------
(* Validation *)

HeaderValidateBasic(h) == h.ProposerAddress # <<>>

CommitValidateBasic(c) ==
  c.Height > 0 => /\ Len(c.Signatures) = 1
                  /\ Len(c.Signatures[1]) <= MaxSignatureSize

BlockValidateBasic(b) == HeaderValidateBasic(b.Header) /\ CommitValidateBasic(b.LastCommit)

GossipedBlockValidate(g) == BlockValidateBasic(g.Block) /\ CommitValidateBasic(g.Commit)

\* BlockValidator: the block is published to the node only if this is TRUE.
BlockValidator(bytes) ==
  LET g == GossipedBlockUnmarshalBinary(bytes) IN g.err = "" /\ GossipedBlockValidate(g.val)
=============================================================================
