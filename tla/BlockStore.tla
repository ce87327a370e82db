----------------------------- MODULE BlockStore ------------------------------
(***************************************************************************)
(* The store of blocks, commits, the state, responses and validator sets   *)
(* (store/store.go, store/pruning.go) over a key-value database            *)
(* (store/badger.go).  How objects become bytes is a parameter: StoreBytes *)
(* gives it the encoding of the code.                                      *)
(*                                                                         *)
(* A write goes to the database at once or into a write batch, which       *)
(* reaches the database as a whole or, if the process stops before, not at *)
(* all; which of the two is what the callers in block/ ask for (the state  *)
(* is written both ways, and by two goroutines).  PruneBlocks commits its  *)
(* deletes in several batches.  Besides the bytes, objs remembers what was *)
(* saved.                                                                  *)
(***************************************************************************)
EXTENDS Basics, Integers, Sequences, FiniteSetsExt, Functions

CONSTANTS
  Blocks,         \* blocks to save, as records of a block and its commit
  States,         \* states to save; the store's heights are filled in
  Contents,       \* responses and validator sets
  OldWrites,      \* the writes of a store of an old release
  FlushEvery,     \* 1000: the heights pruned in one batch
  MaxStoreHeight, \* 2^64 - 1: the largest height
  MaxWrites,      \* bound: the number of writes
  HeightKey(_),   \* the bytes of a height
  HashOf(_), BlockIDOf(_),  \* the hash a block is saved under, and the one of its Tendermint form
  EncodeBlock(_), EncodeCommit(_), EncodeState(_), EncodeContent(_),
  DecodeBlock(_), DecodeCommit(_), DecodeState(_), DecodeContent(_)

Heights == 0..MaxStoreHeight

IsHash(x) == x \in Seq(Nat) /\ Len(x) = HashLen

\* A state with the heights of the store.
WithHeights(s, h, b) == [s EXCEPT !.LastStoreHeight = h, !.BaseHeight = b]

\* What the bytes of a state say about the base, if they can be read.
HasBase(bytes, b) ==
  LET read == DecodeState(bytes) IN
  read.err = "" => read.val.BaseHeight = b /\ read.val.LastStoreHeight \in b..MaxStoreHeight

\* The state that the block manager saves is at most one block ahead of the store.
Saveable(s, h) == s.LastBlockHeight <= h + 1

ASSUME StoreConstants ==
  /\ FlushEvery \in Nat \ {0} /\ MaxWrites \in Nat /\ MaxStoreHeight \in Nat
  /\ \A h \in Heights : HeightKey(h) \in Seq(Nat)
  /\ \A g, h \in Heights : HeightKey(g) = HeightKey(h) => g = h
  /\ \A e \in Blocks : e.block.Header.Height \in Heights /\ IsHash(HashOf(e.block))
  /\ \A s \in States, h \in Heights : Saveable(s, h) =>
       \A b \in 0..h : HasBase(EncodeState(WithHeights(s, h, b)), b)

\* An old release kept no base, and wrote a block and its commit with the index.
ASSUME OldStore ==
  /\ Len(OldWrites) \in Nat /\ DOMAIN OldWrites = 1..Len(OldWrites)
  /\ \A i \in DOMAIN OldWrites : LET w == OldWrites[i] IN
       \/ w.kind = "block" /\ w.id = HashOf(w.obj) /\ IsHash(w.id)
       \/ w.kind = "commit" /\ IsHash(w.id)
       \/ /\ w.kind = "index" /\ w.id \in Heights /\ IsHash(w.bytes)
          /\ \E j \in DOMAIN OldWrites : LET v == OldWrites[j] IN
               v.kind = "block" /\ v.id = w.bytes /\ v.obj.Header.Height = w.id
          /\ \E j \in DOMAIN OldWrites : OldWrites[j].kind = "commit" /\ OldWrites[j].id = w.bytes
       \/ w.kind = "state" /\ w.id = 0 /\ HasBase(w.bytes, 0)

\* The blocks that are ever saved.
Saved ==
  {e.block : e \in Blocks} \cup
  {OldWrites[i].obj : i \in {j \in DOMAIN OldWrites : OldWrites[j].kind = "block"}}

\* Blocks of different heights have different hashes, also in Tendermint's form.
ASSUME Hashes ==
  /\ \A b \in Saved : BlockIDOf(b) = HashOf(b)
  /\ \A b, c \in Saved : HashOf(b) = HashOf(c) => b.Header.Height = c.Header.Height

\* The decoding of a record.
Decode(kind, bytes) ==
  CASE kind = "block"  -> DecodeBlock(bytes)
    [] kind = "commit" -> DecodeCommit(bytes)
    [] kind = "index"  -> Ok(bytes)
    [] kind = "state"  -> DecodeState(bytes)
    [] kind \in {"responses", "validators"} -> DecodeContent(bytes)

\* What is encoded is decoded as it was.
ASSUME RoundTrip ==
  /\ \A e \in Blocks : /\ DecodeBlock(EncodeBlock(e.block)) = Ok(e.block)
                        /\ DecodeCommit(EncodeCommit(e.commit)) = Ok(e.commit)
  /\ \A s \in States, h \in Heights : Saveable(s, h) => \A b \in 0..h :
       DecodeState(EncodeState(WithHeights(s, h, b))) = Ok(WithHeights(s, h, b))
  /\ \A c \in Contents : DecodeContent(EncodeContent(c)) = Ok(c)
  /\ \A i \in DOMAIN OldWrites : LET w == OldWrites[i] IN Decode(w.kind, w.bytes) = Ok(w.obj)

VARIABLES
  db,      \* from keys to values, both bytes
  batch,   \* the writes of the open write batch, Absent if there is none
  height,  \* the height of the latest block, in memory
  base,    \* the height of the earliest block, in memory
  prune,   \* the running PruneBlocks [next, target], Absent if there is none
  objs,    \* ghost: from <<kind, id>> to the object saved last
  ever,    \* ghost: the heights of the blocks that reached the database
  lowest,  \* ghost: the highest height PruneBlocks was asked to prune to
  writes   \* writes so far

storeVars == <<db, batch, height, base, prune, objs, ever, lowest, writes>>

-----------------------------------------------------------------------------
(* Keys *)

\* Mutant: commits have the prefix of blocks.
Key_SharedPrefix(kind, id) ==
  CASE kind = "block"      -> <<1>> \o id
    [] kind = "index"      -> <<2>> \o HeightKey(id)
    [] kind = "commit"     -> <<1>> \o id
    [] kind = "state"      -> <<4>>
    [] kind = "responses"  -> <<5>> \o HeightKey(id)
    [] kind = "validators" -> <<6>> \o HeightKey(id)

Key(kind, id) ==
  CASE kind = "block"      -> <<1>> \o id
    [] kind = "index"      -> <<2>> \o HeightKey(id)
    [] kind = "commit"     -> <<3>> \o id
    [] kind = "state"      -> <<4>>
    [] kind = "responses"  -> <<5>> \o HeightKey(id)
    [] kind = "validators" -> <<6>> \o HeightKey(id)

-----------------------------------------------------------------------------
(* The database *)

\* A write of the bytes and, as the ghost, of the object.
Set(kind, id, bytes, obj) == [kind |-> kind, id |-> id, bytes |-> bytes, obj |-> obj]

\* f with vals[i] at keys[i]: the last write to a key counts.
Put(f, keys, vals) ==
  [k \in DOMAIN f \cup Range(keys) |->
     IF k \in Range(keys) THEN vals[Max({i \in DOMAIN keys : keys[i] = k})] ELSE f[k]]

\* The database, the ghost and the heights of its blocks after some writes.
Stored(f, ops) ==
  Put(f, [i \in DOMAIN ops |-> Key(ops[i].kind, ops[i].id)], [i \in DOMAIN ops |-> ops[i].bytes])

Remembered(f, ops) ==
  Put(f, [i \in DOMAIN ops |-> <<ops[i].kind, ops[i].id>>], [i \in DOMAIN ops |-> ops[i].obj])

Indexed(ops) == {ops[i].id : i \in {j \in DOMAIN ops : ops[j].kind = "index"}}

Commit(ops) ==
  /\ db' = Stored(db, ops)
  /\ objs' = Remembered(objs, ops)
  /\ ever' = ever \cup Indexed(ops)

\* The records, as pairs of a kind and an id, are deleted.
Delete(records) ==
  /\ db' = Restrict(db, DOMAIN db \ {Key(r[1], r[2]) : r \in records})
  /\ objs' = Restrict(objs, DOMAIN objs \ records)
  /\ UNCHANGED ever

Get(kind, id) == IF Key(kind, id) \in DOMAIN db THEN Ok(db[Key(kind, id)]) ELSE Err("not found")

-----------------------------------------------------------------------------
(* Reads *)

LoadHashFromIndex(h) ==
  LET blob == Get("index", h) IN
  IF blob.err = "" /\ Len(blob.val) # HashLen THEN Err("length") ELSE blob

LoadBlockByHash(hash) ==
  LET blob == Get("block", hash) IN IF blob.err # "" THEN blob ELSE DecodeBlock(blob.val)

LoadBlock(h) ==
  LET hash == LoadHashFromIndex(h) IN IF hash.err # "" THEN hash ELSE LoadBlockByHash(hash.val)

LoadCommitByHash(hash) ==
  LET blob == Get("commit", hash) IN IF blob.err # "" THEN blob ELSE DecodeCommit(blob.val)

LoadCommit(h) ==
  LET hash == LoadHashFromIndex(h) IN IF hash.err # "" THEN hash ELSE LoadCommitByHash(hash.val)

LoadContent(kind, h) ==
  LET blob == Get(kind, h) IN IF blob.err # "" THEN blob ELSE DecodeContent(blob.val)

LoadBlockResponses(h) == LoadContent("responses", h)

LoadValidators(h) == LoadContent("validators", h)

ReadState ==
  LET blob == Get("state", 0) IN IF blob.err # "" THEN blob ELSE DecodeState(blob.val)

-----------------------------------------------------------------------------
(* Writes *)

BlockOps(e) ==
  LET hash == HashOf(e.block) IN
  <<Set("block", hash, EncodeBlock(e.block), e.block),
    Set("commit", hash, EncodeCommit(e.commit), e.commit),
    Set("index", e.block.Header.Height, hash, hash)>>

StateOps(s) == <<Set("state", 0, EncodeState(s), s)>>

ContentOps(kind, h, c) == <<Set(kind, h, EncodeContent(c), c)>>

\* Into the batch if there is one to write to, else to the database.
Write(ops, into) ==
  /\ writes < MaxWrites
  /\ writes' = writes + 1
  /\ CASE into = "batch" -> batch # Absent /\ batch' = batch \o ops /\ UNCHANGED <<db, objs, ever>>
       [] into = "db"    -> Commit(ops) /\ UNCHANGED batch

\* SaveBlock of the next block, or again of the last one, with the SetHeight that the block
\* manager calls at the end of applyBlock.
SaveBlock(e) ==
  /\ prune = Absent
  /\ e.block.Header.Height \in {height, height + 1}
  /\ Write(BlockOps(e), "db")
  /\ height' = Max({height, e.block.Header.Height})
  /\ UNCHANGED <<base, prune, lowest>>

\* The block manager saves what belongs to a block after the block, before the next one.
LastSaved == {h \in {height} : LoadHashFromIndex(h).err = ""}

SaveBlockResponses(h, c) ==
  Write(ContentOps("responses", h, c), "batch") /\ UNCHANGED <<height, base, prune, lowest>>

SaveValidators(h, c) ==
  Write(ContentOps("validators", h, c), "batch") /\ UNCHANGED <<height, base, prune, lowest>>

\* The base of the state is that of the store, or an earlier one: the state that
\* updateStateIndex writes, also while PruneBlocks runs, is that of the last block.
UpdateState(s, b, into) ==
  /\ Saveable(s, height)
  /\ Write(StateOps(WithHeights(s, height, b)), into)
  /\ UNCHANGED <<height, base, prune, lowest>>

NewBatch ==
  /\ prune = Absent
  /\ batch = Absent
  /\ batch' = <<>>
  /\ UNCHANGED <<db, height, base, prune, objs, ever, lowest, writes>>

CommitBatch ==
  /\ prune = Absent
  /\ batch \notin {Absent, <<>>}
  /\ Commit(batch)
  /\ batch' = Absent
  /\ UNCHANGED <<height, base, prune, lowest, writes>>

\* LoadState sets the heights in memory from the state it reads.
LoadState(read) ==
  /\ read.err = ""
  /\ height' = read.val.LastStoreHeight
  /\ base' = read.val.BaseHeight

\* The process stops; what was not committed is lost.  The new process loads the state,
\* if there is one.
Crash ==
  /\ batch' = Absent
  /\ prune' = Absent
  /\ \E read \in {ReadState} :
       \/ LoadState(read)
       \/ read.err # "" /\ height' = 0 /\ base' = 0
  /\ UNCHANGED <<db, objs, ever, lowest, writes>>

-----------------------------------------------------------------------------
(* PruneBlocks *)

\* Refused below the base and beyond the height.
PruneBlocks(h) ==
  /\ prune = Absent
  /\ batch = Absent
  /\ h \in Max({1, base})..height
  /\ prune' = [next |-> base, target |-> h]
  /\ lowest' = Max({lowest, h})
  /\ UNCHANGED <<db, batch, height, base, objs, ever, writes>>

\* What belongs to the block at height h.
RecordsOf(h) ==
  LET hash == LoadHashFromIndex(h).val IN
  {<<"block", hash>>, <<"commit", hash>>, <<"index", h>>, <<"responses", h>>, <<"validators", h>>}

\* The heights left to prune, up to h.  Those without an index are passed over.
Present(h) == {g \in prune.next..h : LoadHashFromIndex(g).err = ""}

\* Mutant: the heights that fill a batch are counted, one more is dropped from it.
PruneFlush_Skips(h) ==
  /\ prune # Absent
  /\ h \in Present(prune.target - 1) /\ Cardinality(Present(h)) = FlushEvery
  /\ Delete(UNION {RecordsOf(g) : g \in Present(h)})
  /\ base' = Max({base, h})
  /\ prune' = [prune EXCEPT !.next = h + 2]
  /\ UNCHANGED <<batch, height, lowest, writes>>

\* The loop up to the height h that fills a batch, which is committed; the base becomes
\* that height.
PruneFlush(h) ==
  /\ prune # Absent
  /\ h \in Present(prune.target - 1) /\ Cardinality(Present(h)) = FlushEvery
  /\ Delete(UNION {RecordsOf(g) : g \in Present(h)})
  /\ base' = Max({base, h})
  /\ prune' = [prune EXCEPT !.next = h + 1]
  /\ UNCHANGED <<batch, height, lowest, writes>>

\* The end of the loop, and the last commit.
PruneEnd ==
  /\ prune # Absent
  /\ Cardinality(Present(prune.target - 1)) < FlushEvery
  /\ Delete(UNION {RecordsOf(g) : g \in Present(prune.target - 1)})
  /\ base' = Max({base, prune.target})
  /\ prune' = Absent
  /\ UNCHANGED <<batch, height, lowest, writes>>

-----------------------------------------------------------------------------
(* Specification *)

\* A new database, or that of an old release.
StoreInit ==
  /\ \E ops \in {<<>>, OldWrites} :
       /\ db = Stored(<<>>, ops)
       /\ objs = Remembered(<<>>, ops)
       /\ ever = Indexed(ops)
       /\ height = Max({0} \cup Indexed(ops))
  /\ batch = Absent
  /\ base = 0
  /\ prune = Absent
  /\ lowest = 0
  /\ writes = 0

StoreNext ==
  \/ \E e \in Blocks : SaveBlock(e)
  \/ \E h \in LastSaved, c \in Contents : SaveBlockResponses(h, c) \/ SaveValidators(h, c)
  \/ \E s \in States, b \in 0..base, into \in {"batch", "db"} : UpdateState(s, b, into)
  \/ NewBatch
  \/ CommitBatch
  \/ Crash
  \/ \E h \in 1..height : PruneBlocks(h)
  \/ \E h \in 0..height : PruneFlush(h)
  \/ PruneEnd

StoreSpec == StoreInit /\ [][StoreNext]_storeVars

-----------------------------------------------------------------------------
(* Properties *)

Load(kind, id) ==
  CASE kind = "index"      -> LoadHashFromIndex(id)
    [] kind = "responses"  -> LoadBlockResponses(id)
    [] kind = "validators" -> LoadValidators(id)
    [] kind = "state"      -> ReadState

\* Every load returns what was saved last, through both conversions and the encoding, from
\* stores written by an old release too; and a block found at a height is of that height,
\* has its commit, and has the hash it was saved under.
ReadBack ==
  /\ \A k \in DOMAIN objs : k[1] \notin {"block", "commit"} => Load(k[1], k[2]) = Ok(objs[k])
  /\ \A k \in DOMAIN objs : k[1] = "index" =>
       \A block \in {LoadBlock(k[2])} :
         /\ block = Ok(objs[<<"block", objs[k]>>])
         /\ LoadCommit(k[2]) = Ok(objs[<<"commit", objs[k]>>])
         /\ block.val.Header.Height = k[2]
         /\ BlockIDOf(block.val) = objs[k]

\* PruneBlocks, in however many batches and after however many crashes, removes no block at
\* or above the height it was asked to prune to, and when it has returned nothing is left
\* below the base of what belongs to a block.
PruneIsExact ==
  /\ \A h \in ever : h >= lowest => LoadHashFromIndex(h).err = ""
  /\ prune = Absent =>
       \A h \in ever : h < base =>
         \A kind \in {"index", "responses", "validators"} : Get(kind, h).err # ""
=============================================================================
