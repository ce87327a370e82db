-------------------------------- MODULE Link ---------------------------------
(***************************************************************************)
(* A message on its way between two processes: a gossiped block            *)
(* (p2p/gossip.go, p2p/validator.go), a batch on the data availability     *)
(* layer, a call of the gRPC client of that layer and its answer           *)
(* (da/grpc/grpc.go), or any message by itself.                            *)
(*                                                                         *)
(* The other side may run a newer release, which writes fields unknown     *)
(* here, and a reader may get only the first bytes of a message.  A call   *)
(* that gets no answer is an error of the client and has no bytes.         *)
(***************************************************************************)
EXTENDS Conversion

CONSTANTS
  Objects,   \* [kind, obj]: what is sent in a converted form
  RawMsgs,   \* [kind, msg]: what is sent as it stands
  Unknown    \* encodings of fields that no message has

VARIABLE link  \* [kind, obj, msg, bytes, fault]; kind "none" if nothing was sent

-----------------------------------------------------------------------------
(* The functions of each kind of message *)

MarshalOf(kind, m) ==
  CASE kind = "Version"                        -> MarshalVersion(m)
    [] kind = "Header"                         -> MarshalHeader(m)
    [] kind = "Commit"                         -> MarshalCommit(m)
    [] kind = "Data"                           -> MarshalData(m)
    [] kind = "Block"                          -> MarshalBlock(m)
    [] kind = "Batch"                          -> MarshalBatch(m)
    [] kind = "State"                          -> MarshalState(m)
    [] kind = "GossipedBlock"                  -> MarshalGossipedBlock(m)
    [] kind = "DAResponse"                     -> MarshalDAResponse(m)
    [] kind = "SubmitBatchRequest"             -> MarshalSubmitBatchRequest(m)
    [] kind = "SubmitBatchResponse"            -> MarshalSubmitBatchResponse(m)
    [] kind = "CheckBatchAvailabilityRequest"  -> MarshalCheckBatchAvailabilityRequest(m)
    [] kind = "CheckBatchAvailabilityResponse" -> MarshalCheckBatchAvailabilityResponse(m)
    [] kind = "RetrieveBatchesRequest"         -> MarshalRetrieveBatchesRequest(m)
    [] kind = "RetrieveBatchesResponse"        -> MarshalRetrieveBatchesResponse(m)

SizeOf(kind, m) ==
  CASE kind = "Version"                        -> SizeVersion(m)
    [] kind = "Header"                         -> SizeHeader(m)
    [] kind = "Commit"                         -> SizeCommit(m)
    [] kind = "Data"                           -> SizeData(m)
    [] kind = "Block"                          -> SizeBlock(m)
    [] kind = "Batch"                          -> SizeBatch(m)
    [] kind = "State"                          -> SizeState(m)
    [] kind = "GossipedBlock"                  -> SizeGossipedBlock(m)
    [] kind = "DAResponse"                     -> SizeDAResponse(m)
    [] kind = "SubmitBatchRequest"             -> SizeSubmitBatchRequest(m)
    [] kind = "SubmitBatchResponse"            -> SizeSubmitBatchResponse(m)
    [] kind = "CheckBatchAvailabilityRequest"  -> SizeCheckBatchAvailabilityRequest(m)
    [] kind = "CheckBatchAvailabilityResponse" -> SizeCheckBatchAvailabilityResponse(m)
    [] kind = "RetrieveBatchesRequest"         -> SizeRetrieveBatchesRequest(m)
    [] kind = "RetrieveBatchesResponse"        -> SizeRetrieveBatchesResponse(m)

UnmarshalOf(kind, b) ==
  CASE kind = "Version"                        -> UnmarshalVersion(b)
    [] kind = "Header"                         -> UnmarshalHeader(b)
    [] kind = "Commit"                         -> UnmarshalCommit(b)
    [] kind = "Data"                           -> UnmarshalData(b)
    [] kind = "Block"                          -> UnmarshalBlock(b)
    [] kind = "Batch"                          -> UnmarshalBatch(b)
    [] kind = "State"                          -> UnmarshalState(b)
    [] kind = "GossipedBlock"                  -> UnmarshalGossipedBlock(b)
    [] kind = "DAResponse"                     -> UnmarshalDAResponse(b)
    [] kind = "SubmitBatchRequest"             -> UnmarshalSubmitBatchRequest(b)
    [] kind = "SubmitBatchResponse"            -> UnmarshalSubmitBatchResponse(b)
    [] kind = "CheckBatchAvailabilityRequest"  -> UnmarshalCheckBatchAvailabilityRequest(b)
    [] kind = "CheckBatchAvailabilityResponse" -> UnmarshalCheckBatchAvailabilityResponse(b)
    [] kind = "RetrieveBatchesRequest"         -> UnmarshalRetrieveBatchesRequest(b)
    [] kind = "RetrieveBatchesResponse"        -> UnmarshalRetrieveBatchesResponse(b)

-----------------------------------------------------------------------------
(* The gRPC client of the data availability layer *)

\* SubmitBatch: the request, and the result the answer is turned into.
SubmitBatchRequest(batch) == [Batch |-> BatchToProto(batch)]

SubmitBatchResult(resp) ==
  IF resp.Result = Absent THEN Err("panic")
  ELSE Ok([Code |-> resp.Result.Code, Message |-> resp.Result.Message,
           DAHeight |-> resp.Result.DataLayerHeight])

CheckBatchResult(resp) ==
  IF resp.Result = Absent THEN Err("panic")
  ELSE Ok([Code |-> resp.Result.Code, Message |-> resp.Result.Message,
           DataAvailable |-> resp.DataAvailable])

\* RetrieveBatches: FromProto of a batch returns no error, it panics.
RetrieveBatchResult(resp) ==
  LET batches == [i \in DOMAIN resp.Batches |-> BatchFromProto(resp.Batches[i])] IN
  IF resp.Result = Absent \/ \E i \in DOMAIN batches : batches[i].err # "" THEN Err("panic")
  ELSE Ok([Code |-> resp.Result.Code, Message |-> resp.Result.Message,
           Batches |-> [i \in DOMAIN batches |-> batches[i].val]])

-----------------------------------------------------------------------------
(* What is sent for an object, and what is made of it at the other end *)

MessageOf(kind, o) ==
  CASE kind = "Block"              -> BlockToProto(o)
    [] kind = "Header"             -> HeaderToProto(o)
    [] kind = "Commit"             -> CommitToProto(o)
    [] kind = "Batch"              -> BatchToProto(o)
    [] kind = "State"              -> StateToProto(o)
    [] kind = "GossipedBlock"      -> GossipedBlockToProto(o)
    [] kind = "SubmitBatchRequest" -> SubmitBatchRequest(o)

\* The State and the request are encoded where they are used.
BytesOf(kind, o) ==
  CASE kind = "Block"         -> BlockMarshalBinary(o)
    [] kind = "Header"        -> HeaderMarshalBinary(o)
    [] kind = "Commit"        -> CommitMarshalBinary(o)
    [] kind = "Batch"         -> BatchMarshalBinary(o)
    [] kind = "GossipedBlock" -> GossipedBlockMarshalBinary(o)
    [] OTHER                  -> MarshalOf(kind, MessageOf(kind, o))

Received(kind, bytes) ==
  CASE kind = "Block"              -> BlockUnmarshalBinary(bytes)
    [] kind = "Header"             -> HeaderUnmarshalBinary(bytes)
    [] kind = "Commit"             -> CommitUnmarshalBinary(bytes)
    [] kind = "Batch"              -> BatchUnmarshalBinary(bytes)
    [] kind = "State"              -> Through(UnmarshalState(bytes), StateFromProto)
    [] kind = "GossipedBlock"      -> GossipedBlockUnmarshalBinary(bytes)
    [] kind = "SubmitBatchRequest" ->
         LET req == UnmarshalSubmitBatchRequest(bytes) IN
         IF req.err # "" THEN Err(req.err) ELSE BatchFromProto(req.msg.Batch)

\* The answer to a call, as the client returns it.
Answer(kind, resp) ==
  CASE kind = "SubmitBatchResponse"            -> SubmitBatchResult(resp)
    [] kind = "CheckBatchAvailabilityResponse" -> CheckBatchResult(resp)
    [] kind = "RetrieveBatchesResponse"        -> RetrieveBatchResult(resp)
    [] OTHER                                   -> Err("no answer")

-----------------------------------------------------------------------------

LinkInit == link = [kind |-> "none", obj |-> Absent, msg |-> Absent, bytes |-> <<>>, fault |-> "none"]

Transmit(kind, obj, msg, bytes) ==
  /\ link.kind = "none"
  /\ link' = [kind |-> kind, obj |-> obj, msg |-> msg, bytes |-> bytes, fault |-> "none"]

Send(s) == Transmit(s.kind, s.obj, MessageOf(s.kind, s.obj), BytesOf(s.kind, s.obj))

SendRaw(s) == Transmit(s.kind, Absent, s.msg, MarshalOf(s.kind, s.msg))

Newer(field) ==
  /\ link.kind # "none" /\ link.fault = "none"
  /\ \E bytes \in {field \o link.bytes, link.bytes \o field} :
       link' = [link EXCEPT !.bytes = bytes, !.fault = "newer"]

Truncate(n) ==
  /\ link.kind # "none" /\ link.fault = "none"
  /\ link' = [link EXCEPT !.bytes = SubSeq(@, 1, n), !.fault = "truncated"]

LinkNext ==
  \/ \E s \in Objects : Send(s)
  \/ \E s \in RawMsgs : SendRaw(s)
  \/ \E field \in Unknown : Newer(field)
  \/ \E n \in 0..(Len(link.bytes) - 1) : Truncate(n)

-----------------------------------------------------------------------------
(* Properties *)

Sent == link.msg # Absent

\* Size is the number of bytes Marshal writes, for every message; Marshal allocates its
\* buffer by it and writes from the end, the clients compare it with their limits.
SizeIsExact == Sent => SizeOf(link.kind, link.msg) = Len(MarshalOf(link.kind, link.msg))

\* A message arrives as it was sent, from a newer release too: its encoding is read as the
\* same message, the object made of it is the object sent, a gossiped block is accepted
\* exactly if the sender's object is valid, and an answer becomes the same result.
Delivered ==
  Sent /\ link.fault # "truncated" =>
    \A got \in {UnmarshalOf(link.kind, link.bytes)} :
      /\ got = [err |-> "", msg |-> link.msg]
      /\ link.obj # Absent => Received(link.kind, link.bytes) = Ok(link.obj)
      /\ link.obj # Absent /\ link.kind = "GossipedBlock" =>
           BlockValidator(link.bytes) = GossipedBlockValidate(link.obj)
      /\ Answer(link.kind, got.msg) = Answer(link.kind, link.msg)

\* The first bytes of a message are refused, or read as the message with its last fields
\* and the last elements of repeated fields missing; never as other values.
TruncationShows ==
  Sent /\ link.fault = "truncated" =>
    \A got \in {UnmarshalOf(link.kind, link.bytes)}, none \in {UnmarshalOf(link.kind, <<>>)} :
      got.err = "" =>
        \A f \in DOMAIN link.msg :
          \/ got.msg[f] = link.msg[f]
          \/ got.msg[f] = none.msg[f]
          \/ /\ none.msg[f] = <<>>
             /\ IsPrefix(got.msg[f], link.msg[f])
=============================================================================
