----------------------------- MODULE StoreBytes ------------------------------
(***************************************************************************)
(* The bytes of BlockStore's keys and values, as store/store.go makes them *)
(* with the encoding of types/serialization.go, and those that an old      *)
(* release left.                                                           *)
(***************************************************************************)
EXTENDS BlockStore, Conversion

CONSTANTS OldBlocks  \* as a sequence, the blocks a store of an old release may hold

RECURSIVE BigEndian(_, _)
BigEndian(x, n) == IF n = 0 THEN <<>> ELSE Append(BigEndian(x \div 256, n - 1), x % 256)

HeightBytes(h) == BigEndian(h, (Width + 7) \div 8)

BlockHash(b) == HeaderHash(b.Header)

MetaBlockID(b) == ToABCIBlockMeta(b).BlockID

StateMarshal(s) == MarshalState(StateToProto(s))

StateUnmarshal(bytes) == Through(UnmarshalState(bytes), StateFromProto)

\* Responses and validator sets are messages of Tendermint.
ContentMarshal(c) == Marshal(Opaque, [Content |-> c])

ContentUnmarshal(bytes) == Through(Unmarshal(Opaque, bytes), LAMBDA msg : Ok(msg.Content))

\* What an old release wrote: commits without Tendermint's signature, and a state without
\* the heights of the store.
OldOps ==
  LET bare(c) == [CommitToProto(c) EXCEPT !.TmSignature = Absent]
      block(b) == MarshalBlock([BlockToProto(b) EXCEPT !.LastCommit = bare(b.LastCommit)])
      ops(e) == <<[BlockOps(e)[1] EXCEPT !.bytes = block(e.block)],
                  [BlockOps(e)[2] EXCEPT !.bytes = MarshalCommit(bare(e.commit))],
                  BlockOps(e)[3]>>
      n == Len(OldBlocks)
      state(s) == [WithHeights(s, 0, 0) EXCEPT !.LastBlockHeight = n]
      s == CHOOSE s \in States : TRUE
  IN  FlattenSeq([i \in 1..n |-> ops(OldBlocks[i])])
        \o <<[StateOps(state(s))[1] EXCEPT !.obj = WithHeights(state(s), n, 0)]>>
=============================================================================
