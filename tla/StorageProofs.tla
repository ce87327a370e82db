---------------------------- MODULE StorageProofs ----------------------------
(***************************************************************************)
(* Proofs that the block store returns what was saved and prunes exactly,  *)
(* and that the indexer service skips no block and mixes no two: for every *)
(* number of heights and of writes, every batch size of the pruning, every *)
(* encoding that its decoding undoes, every chain and every size of the    *)
(* indexer's buffers.                                                      *)
(*                                                                         *)
(* The store.  No two records share a key, so a write or a delete touches  *)
(* its own record.  Nothing that belongs to a block is left below the      *)
(* base: a restart goes back to the base on disk, which is not above the   *)
(* one in memory, and a batch holds only records beside an index, since no *)
(* batch is open while PruneBlocks runs.  Every index has its block and    *)
(* its commit, and two heights never share a hash, so pruning one block    *)
(* leaves the parts of the others.                                         *)
(*                                                                         *)
(* The indexer.  The service counts: it takes whatever comes first from    *)
(* the transaction buffer, as often as the header says.  That these are    *)
(* the transactions of that header rests on the order of both buffers, on  *)
(* what a cancelled subscription leaves behind in them, and on how far the *)
(* bus has got; the invariant says this about every transaction of the     *)
(* buffer.                                                                 *)
(***************************************************************************)
EXTENDS BlockStore, IndexerService, TLAPS, NaturalsInduction, WellFoundedInduction

-----------------------------------------------------------------------------
(* Maxima *)

\* A finite set of naturals has a maximum, which Max chooses.
LEMMA MaxOf ==
  ASSUME NEW n \in Nat, NEW S, S \subseteq 0..n, S # {}
  PROVE  Max(S) \in S /\ \A x \in S : x <= Max(S)
<1> DEFINE T == {n - x : x \in S}
<1>1. \A x \in S : x \in Int /\ n - x \in Nat
  OBVIOUS
<1>2. T \subseteq Nat /\ T # {}
  BY <1>1, Zenon
<1>3. PICK t \in T : \A y \in T : ~(<<y, t>> \in OpToRel(<, Nat))
  BY <1>2, NatLessThanWellFounded, WFMin, Zenon
<1>4. PICK m \in S : t = n - m
  BY <1>3, Zenon
<1>5. ASSUME NEW x \in S PROVE x <= m
  <2>1. n - x \in T /\ n - x \in Nat /\ t \in Nat
    BY <1>1, <1>2, <1>3, Zenon
  <2>2. n - x < t => <<n - x, t>> \in OpToRel(<, Nat)
    BY <2>1, Zenon DEF OpToRel
  <2>3. ~(n - x < t)
    BY <1>3, <2>1, <2>2, Zenon
  <2> QED
    BY <1>1, <1>4, <2>3
<1>6. m \in S /\ \A x \in S : x <= m
  BY <1>4, <1>5, Zenon
<1> HIDE DEF T
<1> QED
  BY <1>6, Zenon DEF Max

\* The greater of two numbers.
LEMMA MaxOfTwo ==
  ASSUME NEW x \in Nat, NEW y \in Nat
  PROVE  Max({x, y}) \in {x, y} /\ x <= Max({x, y}) /\ y <= Max({x, y})
<1>1. x + y \in Nat /\ {x, y} \subseteq 0..(x + y) /\ {x, y} # {}
  OBVIOUS
<1>2. Max({x, y}) \in {x, y} /\ \A z \in {x, y} : z <= Max({x, y})
  BY <1>1, MaxOf, Zenon
<1> QED
  BY <1>2, Zenon

-----------------------------------------------------------------------------
(* Keys *)

\* The records the store has: pairs of a kind and an id.
IsRecord(kind, id) ==
  \/ kind \in {"block", "commit"} /\ id \in Seq(Nat)
  \/ kind \in {"index", "responses", "validators"} /\ id \in Heights
  \/ kind = "state" /\ id = 0

\* A key is a prefix for the kind, and a rest.
Prefix(kind) ==
  CASE kind = "block" -> 1 [] kind = "index" -> 2 [] kind = "commit" -> 3
    [] kind = "state" -> 4 [] kind = "responses" -> 5 [] kind = "validators" -> 6

Suffix(kind, id) ==
  CASE kind \in {"block", "commit"} -> id
    [] kind \in {"index", "responses", "validators"} -> HeightKey(id)
    [] kind = "state" -> <<>>

Prefixed(p, s) == <<p>> \o s

\* A key is the prefix of its kind and the bytes of the hash or of the height.
LEMMA KeyParts ==
  ASSUME NEW kind, NEW id, IsRecord(kind, id)
  PROVE  /\ Key(kind, id) = Prefixed(Prefix(kind), Suffix(kind, id))
         /\ Prefix(kind) \in Nat /\ Suffix(kind, id) \in Seq(Nat)
<1>1. CASE kind = "block" /\ id \in Seq(Nat)
  BY <1>1 DEF Key, Prefix, Suffix, Prefixed
<1>2. CASE kind = "commit" /\ id \in Seq(Nat)
  BY <1>2 DEF Key, Prefix, Suffix, Prefixed
<1>3. CASE kind = "index" /\ id \in Heights
  BY <1>3, StoreConstants DEF Key, Prefix, Suffix, Prefixed
<1>4. CASE kind = "responses" /\ id \in Heights
  BY <1>4, StoreConstants DEF Key, Prefix, Suffix, Prefixed
<1>5. CASE kind = "validators" /\ id \in Heights
  BY <1>5, StoreConstants DEF Key, Prefix, Suffix, Prefixed
<1>6. CASE kind = "state"
  BY <1>6 DEF Key, Prefix, Suffix, Prefixed
<1> QED
  BY <1>1, <1>2, <1>3, <1>4, <1>5, <1>6, Zenon DEF IsRecord

\* Equal keys have equal prefixes and equal rests.
LEMMA SameParts ==
  ASSUME NEW p \in Nat, NEW q \in Nat, NEW s \in Seq(Nat), NEW t \in Seq(Nat),
         Prefixed(p, s) = Prefixed(q, t)
  PROVE  p = q /\ s = t
<1>0. <<p>> \o s = <<q>> \o t
  BY Zenon DEF Prefixed
<1>1. p = q
  <2>1. (<<p>> \o s)[1] = p /\ (<<q>> \o t)[1] = q
    OBVIOUS
  <2> QED
    BY <1>0, <2>1, Zenon
<1>2. Len(s) = Len(t)
  <2>1. Len(<<p>> \o s) = 1 + Len(s) /\ Len(<<q>> \o t) = 1 + Len(t)
    OBVIOUS
  <2>2. Len(s) \in Nat /\ Len(t) \in Nat /\ 1 + Len(s) = 1 + Len(t)
    BY <1>0, <2>1
  <2> QED
    BY <2>2
<1>3. ASSUME NEW i \in 1..Len(s) PROVE s[i] = t[i]
  <2>1. (<<p>> \o s)[i + 1] = s[i]
    OBVIOUS
  <2>2. (<<q>> \o t)[i + 1] = t[i]
    BY <1>2
  <2> QED
    BY <1>0, <2>1, <2>2, Zenon
<1>4. s = t
  <2>1. s = [i \in 1..Len(s) |-> s[i]] /\ t = [i \in 1..Len(t) |-> t[i]]
    OBVIOUS
  <2> QED
    BY <1>2, <1>3, <2>1, Zenon
<1> QED
  BY <1>1, <1>4, Zenon

\* Two records with one key.
SameKey(kind, id, kind2, id2) ==
  IsRecord(kind, id) /\ IsRecord(kind2, id2) /\ Key(kind, id) = Key(kind2, id2)

\* Two records do not share a key.
LEMMA KeysDiffer ==
  ASSUME NEW kind, NEW id, NEW kind2, NEW id2, SameKey(kind, id, kind2, id2)
  PROVE  kind = kind2 /\ id = id2
<1>0. IsRecord(kind, id) /\ IsRecord(kind2, id2) /\ Key(kind, id) = Key(kind2, id2)
  BY Zenon DEF SameKey
<1>1. Prefix(kind) = Prefix(kind2) /\ Suffix(kind, id) = Suffix(kind2, id2)
  <2>1. /\ Key(kind, id) = Prefixed(Prefix(kind), Suffix(kind, id))
        /\ Prefix(kind) \in Nat /\ Suffix(kind, id) \in Seq(Nat)
    BY <1>0, KeyParts, Zenon
  <2>2. /\ Key(kind2, id2) = Prefixed(Prefix(kind2), Suffix(kind2, id2))
        /\ Prefix(kind2) \in Nat /\ Suffix(kind2, id2) \in Seq(Nat)
    BY <1>0, KeyParts, Zenon
  <2> QED
    BY <1>0, <2>1, <2>2, SameParts, Zenon
<1>2. /\ kind \in {"block", "commit", "index", "responses", "validators", "state"}
      /\ kind2 \in {"block", "commit", "index", "responses", "validators", "state"}
  BY <1>0, Zenon DEF IsRecord
<1>3. kind = kind2
  BY <1>1, <1>2 DEF Prefix
<1>4. CASE kind \in {"block", "commit"}
  BY <1>1, <1>3, <1>4 DEF Suffix
<1>5. CASE kind \in {"index", "responses", "validators"}
  <2>1. HeightKey(id) = HeightKey(id2)
    BY <1>1, <1>3, <1>5 DEF Suffix
  <2>2. id \in Heights /\ id2 \in Heights
    BY <1>0, <1>3, <1>5 DEF IsRecord
  <2> QED
    BY <1>3, <2>1, <2>2, StoreConstants, Zenon
<1>6. CASE kind = "state"
  BY <1>0, <1>3, <1>6 DEF IsRecord
<1> QED
  BY <1>2, <1>4, <1>5, <1>6, Zenon

-----------------------------------------------------------------------------
(* Writes and deletes *)

\* The database d has a record.
Holds(d, kind, id) == Key(kind, id) \in DOMAIN d

Writes(ops, kind, id) == {i \in DOMAIN ops : ops[i].kind = kind /\ ops[i].id = id}

\* The last of the writes to a record, if there is one.
Final(ops, kind, id) == Max(Writes(ops, kind, id))

\* A sequence of writes of records.
AreWrites(ops) ==
  /\ Len(ops) \in Nat /\ DOMAIN ops = 1..Len(ops)
  /\ \A i \in DOMAIN ops : IsRecord(ops[i].kind, ops[i].id)

FinalOf(ops, kind, id, i) == i \in DOMAIN ops /\ ops[i].kind = kind /\ ops[i].id = id

\* The last of the writes to a record is one of them.
LEMMA FinalWrite ==
  ASSUME NEW ops, AreWrites(ops), NEW kind, NEW id, Writes(ops, kind, id) # {}
  PROVE  FinalOf(ops, kind, id, Final(ops, kind, id))
<1> DEFINE n == Len(ops)
<1>1. n \in Nat /\ DOMAIN ops = 1..n
  BY Zenon DEF AreWrites
<1> HIDE DEF n
<1>2. 1..n \subseteq 0..n
  BY <1>1
<1>3. Writes(ops, kind, id) \subseteq 0..n
  BY <1>1, <1>2, Zenon DEF Writes
<1>4. Final(ops, kind, id) \in Writes(ops, kind, id)
  BY <1>1, <1>3, MaxOf, Zenon DEF Final
<1> QED
  BY <1>4, Zenon DEF Writes, FinalOf

\* What a record is after some writes: v, which the last of them wrote, or what it was.
Puts(f, g, ops, kind, id, k, v) ==
  /\ Writes(ops, kind, id) # {} => k \in DOMAIN g /\ g[k] = v
  /\ Writes(ops, kind, id) = {} =>
       /\ k \in DOMAIN g <=> k \in DOMAIN f
       /\ k \in DOMAIN f => g[k] = f[k]

\* The same for Put: where a key is written, and what is then there.
Hits(keys, k) == {i \in DOMAIN keys : keys[i] = k}

PutsAt(f, g, keys, vals, k) ==
  /\ Hits(keys, k) # {} => k \in DOMAIN g /\ g[k] = vals[Max(Hits(keys, k))]
  /\ Hits(keys, k) = {} =>
       /\ k \in DOMAIN g <=> k \in DOMAIN f
       /\ k \in DOMAIN f => g[k] = f[k]

\* What Put leaves at one key.
LEMMA PutAt ==
  ASSUME NEW f, NEW keys, NEW vals, NEW k
  PROVE  PutsAt(f, Put(f, keys, vals), keys, vals, k)
<1>1. k \in Range(keys) <=> Hits(keys, k) # {}
  BY Zenon DEF Range, Hits
<1>2. /\ DOMAIN Put(f, keys, vals) = DOMAIN f \cup Range(keys)
      /\ \A x \in DOMAIN f \cup Range(keys) :
           Put(f, keys, vals)[x] = IF x \in Range(keys) THEN vals[Max(Hits(keys, x))] ELSE f[x]
  BY Zenon DEF Put, Hits
<1> QED
  BY <1>1, <1>2, Zenon DEF PutsAt

\* What writes leave of one record of the database.
LEMMA StoredAt ==
  ASSUME NEW d, NEW ops, AreWrites(ops), NEW kind, NEW id, IsRecord(kind, id)
  PROVE  Puts(d, Stored(d, ops), ops, kind, id, Key(kind, id), ops[Final(ops, kind, id)].bytes)
<1> DEFINE keys == [i \in DOMAIN ops |-> Key(ops[i].kind, ops[i].id)]
           vals == [i \in DOMAIN ops |-> ops[i].bytes]
<1>1. Hits(keys, Key(kind, id)) = Writes(ops, kind, id)
  <2>1. ASSUME NEW i \in DOMAIN ops, Key(ops[i].kind, ops[i].id) = Key(kind, id)
        PROVE  ops[i].kind = kind /\ ops[i].id = id
    <3>1. IsRecord(ops[i].kind, ops[i].id)
      BY Zenon DEF AreWrites
    <3>2. SameKey(ops[i].kind, ops[i].id, kind, id)
      BY <2>1, <3>1, Zenon DEF SameKey
    <3> QED
      BY <3>2, KeysDiffer, Zenon
  <2>2. DOMAIN keys = DOMAIN ops /\ \A i \in DOMAIN ops : keys[i] = Key(ops[i].kind, ops[i].id)
    BY Zenon
  <2> HIDE DEF keys
  <2> QED
    BY <2>1, <2>2, Zenon DEF Hits, Writes
<1>2. Stored(d, ops) = Put(d, keys, vals)
  BY Zenon DEF Stored
<1>3. Writes(ops, kind, id) # {} => vals[Final(ops, kind, id)] = ops[Final(ops, kind, id)].bytes
  BY FinalWrite, Zenon DEF FinalOf
<1> HIDE DEF keys, vals
<1>4. PutsAt(d, Stored(d, ops), keys, vals, Key(kind, id))
  BY <1>2, PutAt, Zenon
<1> QED
  BY <1>1, <1>3, <1>4, Zenon DEF Puts, PutsAt, Final

\* What writes leave of one object.
LEMMA RememberedAt ==
  ASSUME NEW o, NEW ops, AreWrites(ops), NEW kind, NEW id
  PROVE  Puts(o, Remembered(o, ops), ops, kind, id, <<kind, id>>, ops[Final(ops, kind, id)].obj)
<1> DEFINE keys == [i \in DOMAIN ops |-> <<ops[i].kind, ops[i].id>>]
           vals == [i \in DOMAIN ops |-> ops[i].obj]
<1>1. Hits(keys, <<kind, id>>) = Writes(ops, kind, id)
  <2>1. \A i \in DOMAIN ops :
          <<ops[i].kind, ops[i].id>> = <<kind, id>> <=> ops[i].kind = kind /\ ops[i].id = id
    OBVIOUS
  <2>2. /\ DOMAIN keys = DOMAIN ops
        /\ \A i \in DOMAIN ops : keys[i] = <<ops[i].kind, ops[i].id>>
    BY Zenon
  <2> HIDE DEF keys
  <2> QED
    BY <2>1, <2>2, Zenon DEF Hits, Writes
<1>2. Remembered(o, ops) = Put(o, keys, vals)
  BY Zenon DEF Remembered
<1>3. Writes(ops, kind, id) # {} => vals[Final(ops, kind, id)] = ops[Final(ops, kind, id)].obj
  BY FinalWrite, Zenon DEF FinalOf
<1> HIDE DEF keys, vals
<1>4. PutsAt(o, Remembered(o, ops), keys, vals, <<kind, id>>)
  BY <1>2, PutAt, Zenon
<1> QED
  BY <1>1, <1>3, <1>4, Zenon DEF Puts, PutsAt, Final

\* Some records as pairs.
AreRecords(records) == \A r \in records : r = <<r[1], r[2]>> /\ IsRecord(r[1], r[2])

Without(d, records) == Restrict(d, DOMAIN d \ {Key(r[1], r[2]) : r \in records})

Forgotten(o, records) == Restrict(o, DOMAIN o \ records)

\* A record of e, which is d after the delete of some records.
KeptIn(d, e, records, kind, id) ==
  /\ Holds(e, kind, id) <=> Holds(d, kind, id) /\ <<kind, id>> \notin records
  /\ Holds(e, kind, id) => e[Key(kind, id)] = d[Key(kind, id)]

\* A delete takes the records it names and no other, since no two share a key.
LEMMA WithoutAt ==
  ASSUME NEW d, NEW records, AreRecords(records), NEW kind, NEW id, IsRecord(kind, id)
  PROVE  KeptIn(d, Without(d, records), records, kind, id)
<1>1. Key(kind, id) \in {Key(r[1], r[2]) : r \in records} <=> <<kind, id>> \in records
  <2>1. ASSUME NEW r \in records, Key(kind, id) = Key(r[1], r[2]) PROVE <<kind, id>> \in records
    <3>1. IsRecord(r[1], r[2]) /\ r = <<r[1], r[2]>>
      BY <2>1, Zenon DEF AreRecords
    <3>2. SameKey(kind, id, r[1], r[2])
      BY <2>1, <3>1, Zenon DEF SameKey
    <3>3. kind = r[1] /\ id = r[2]
      BY <3>2, KeysDiffer, Zenon
    <3> QED
      BY <3>1, <3>3, Zenon
  <2>2. ASSUME <<kind, id>> \in records PROVE \E r \in records : Key(kind, id) = Key(r[1], r[2])
    <3>1. <<kind, id>>[1] = kind /\ <<kind, id>>[2] = id
      OBVIOUS
    <3> QED
      BY <2>2, <3>1, Zenon
  <2> QED
    BY <2>1, <2>2, Zenon
<1> QED
  BY <1>1, Zenon DEF KeptIn, Holds, Without, Restrict

-----------------------------------------------------------------------------
(* The invariant *)

\* The base in the bytes of a state is at most b.
BaseAtMost(bytes, b) == \E c \in 0..b : HasBase(bytes, c)

\* An index has a hash.
Whole(d) == \A h \in Heights : Holds(d, "index", h) => IsHash(d[Key("index", h)])

\* Responses and validators are beside an index, so that PruneBlocks finds them.
Beside(d) ==
  \A h \in Heights : Holds(d, "responses", h) \/ Holds(d, "validators", h) => Holds(d, "index", h)

\* No block is left below low.
From(d, low) == \A h \in Heights : Holds(d, "index", h) => low <= h

\* The base on disk, to which a restart goes back, is not above b.
StateFrom(d, b) == Holds(d, "state", 0) => BaseAtMost(d[Key("state", 0)], b)

\* A write that d can take if it has no block below low and the base is b.
Takes(d, low, b, op) ==
  \/ op.kind \in {"block", "commit"} /\ op.id \in Seq(Nat)
  \/ op.kind = "index" /\ op.id \in Heights /\ low <= op.id /\ IsHash(op.bytes)
  \/ op.kind \in {"responses", "validators"} /\ op.id \in Heights /\ Holds(d, "index", op.id)
  \/ op.kind = "state" /\ op.id = 0 /\ BaseAtMost(op.bytes, b)

DataInv(d, low, b) == Whole(d) /\ Beside(d) /\ From(d, low) /\ StateFrom(d, b)

\* What the block manager puts into its batch.
Batched(d, b, op) ==
  \/ op.kind \in {"responses", "validators"} /\ op.id \in Heights /\ Holds(d, "index", op.id)
  \/ op.kind = "state" /\ op.id = 0 /\ BaseAtMost(op.bytes, b)

\* The open batch.
WriteBatchInv(d, b, ops) ==
  ops \in Seq(Range(ops)) /\ \A i \in DOMAIN ops : Batched(d, b, ops[i])

\* The first height that may have a block.
Low == IF prune = Absent THEN base ELSE prune.next

\* A running PruneBlocks is between the base and its target.
PruneInv ==
  /\ prune \in [next : Nat, target : Nat] /\ batch = Absent
  /\ base <= prune.next /\ prune.next <= prune.target
  /\ prune.target <= lowest /\ prune.target <= height

\* The inductive invariant for PruneIsExact.
SInv ==
  /\ height \in Heights /\ base \in 0..height /\ lowest \in Heights /\ ever \subseteq Heights
  /\ DataInv(db, Low, base)
  /\ \A h \in ever : lowest <= h => Holds(db, "index", h)
  /\ batch # Absent => WriteBatchInv(db, base, batch)
  /\ prune # Absent => PruneInv

\* A sequence of writes that d can take.
AllTaken(d, low, b, ops) ==
  /\ Len(ops) \in Nat /\ DOMAIN ops = 1..Len(ops)
  /\ \A i \in DOMAIN ops : Takes(d, low, b, ops[i])

\* Writes that the database can take are writes of records.
LEMMA TakenAreWrites ==
  ASSUME NEW d, NEW low, NEW b, NEW ops, AllTaken(d, low, b, ops)
  PROVE  AreWrites(ops)
  BY Zenon DEF AllTaken, Takes, AreWrites, IsRecord

\* A record of e, which is d after writes it can take.
After(d, low, b, ops, e, kind, id) ==
  /\ Holds(d, kind, id) => Holds(e, kind, id)
  /\ Writes(ops, kind, id) # {} => Holds(e, kind, id)
  /\ Holds(e, kind, id) =>
       \/ Holds(d, kind, id) /\ e[Key(kind, id)] = d[Key(kind, id)]
       \/ \E i \in DOMAIN ops : /\ Takes(d, low, b, ops[i]) /\ ops[i].kind = kind /\ ops[i].id = id
                               /\ e[Key(kind, id)] = ops[i].bytes

\* After such writes a record is what one of them wrote, or what it was.
LEMMA TakenAt ==
  ASSUME NEW d, NEW low, NEW b, NEW ops, AllTaken(d, low, b, ops),
         NEW kind, NEW id, IsRecord(kind, id)
  PROVE  After(d, low, b, ops, Stored(d, ops), kind, id)
<1>1. AreWrites(ops)
  BY TakenAreWrites, Zenon
<1>2. Puts(d, Stored(d, ops), ops, kind, id, Key(kind, id), ops[Final(ops, kind, id)].bytes)
  BY <1>1, StoredAt, Zenon
<1>3. CASE Writes(ops, kind, id) = {}
  BY <1>2, <1>3, Zenon DEF Puts, Holds, After
<1>4. CASE Writes(ops, kind, id) # {}
  <2> DEFINE i == Final(ops, kind, id)
  <2>1. FinalOf(ops, kind, id, i)
    BY <1>1, <1>4, FinalWrite, Zenon
  <2>2. Holds(Stored(d, ops), kind, id) /\ Stored(d, ops)[Key(kind, id)] = ops[i].bytes
    BY <1>2, <1>4, Zenon DEF Puts, Holds
  <2> HIDE DEF i
  <2>3. i \in DOMAIN ops /\ ops[i].kind = kind /\ ops[i].id = id /\ Takes(d, low, b, ops[i])
    BY <2>1, Zenon DEF AllTaken, FinalOf
  <2> QED
    BY <2>2, <2>3, Zenon DEF After
<1> QED
  BY <1>3, <1>4, Zenon

\* What the records of each kind are.
LEMMA Kinds ==
  /\ \A h \in Heights : /\ IsRecord("index", h) /\ IsRecord("responses", h)
                         /\ IsRecord("validators", h)
  /\ IsRecord("state", 0)
  /\ \A x : IsHash(x) => IsRecord("block", x) /\ IsRecord("commit", x)
  BY Zenon DEF IsRecord, IsHash

\* The database e, which is d after writes.
Taken(d, low, b, e, ops) ==
  /\ DataInv(e, low, b)
  /\ \A h \in Heights : Holds(d, "index", h) => Holds(e, "index", h)
  /\ \A h \in Indexed(ops) : h \in Heights /\ Holds(e, "index", h)

\* A commit of writes that the database can take keeps its invariant.
LEMMA CommitTakes ==
  ASSUME NEW d, NEW low, NEW b, DataInv(d, low, b), NEW ops, AllTaken(d, low, b, ops)
  PROVE  Taken(d, low, b, Stored(d, ops), ops)
<1> DEFINE e == Stored(d, ops)
<1>0. Whole(d) /\ Beside(d) /\ From(d, low) /\ StateFrom(d, b)
  BY Zenon DEF DataInv
<1>1. ASSUME NEW kind, NEW id, IsRecord(kind, id) PROVE After(d, low, b, ops, e, kind, id)
  BY <1>1, TakenAt, Zenon
<1> HIDE DEF e
<1>2. ASSUME NEW h \in Heights
      PROVE  /\ Holds(d, "index", h) => Holds(e, "index", h)
             /\ Writes(ops, "index", h) # {} => Holds(e, "index", h)
             /\ Holds(e, "index", h) => low <= h /\ IsHash(e[Key("index", h)])
  <2>1. IsRecord("index", h)
    BY Kinds, Zenon
  <2>2. ASSUME Holds(d, "index", h), e[Key("index", h)] = d[Key("index", h)]
        PROVE  low <= h /\ IsHash(e[Key("index", h)])
    BY <1>0, <2>2, Zenon DEF Whole, From
  <2>3. ASSUME NEW i \in DOMAIN ops, Takes(d, low, b, ops[i]), ops[i].kind = "index", ops[i].id = h,
               e[Key("index", h)] = ops[i].bytes
        PROVE  low <= h /\ IsHash(e[Key("index", h)])
    BY <2>3 DEF Takes
  <2>4. After(d, low, b, ops, e, "index", h)
    BY <1>1, <2>1, Zenon
  <2> QED
    BY <2>2, <2>3, <2>4, Zenon DEF After
<1>3. ASSUME NEW h \in Heights, NEW kind \in {"responses", "validators"}, Holds(e, kind, h)
      PROVE  Holds(e, "index", h)
  <2>1. IsRecord(kind, h)
    BY Kinds, Zenon
  <2>2. CASE Holds(d, kind, h)
    <3>1. Holds(d, "index", h)
      BY <1>0, <2>2, Zenon DEF Beside
    <3> QED
      BY <1>2, <3>1, Zenon
  <2>3. ASSUME NEW i \in DOMAIN ops, Takes(d, low, b, ops[i]), ops[i].kind = kind, ops[i].id = h
        PROVE  Holds(e, "index", h)
    <3>1. Holds(d, "index", h)
      BY <2>3 DEF Takes
    <3> QED
      BY <1>2, <3>1, Zenon
  <2>4. After(d, low, b, ops, e, kind, h)
    BY <1>1, <2>1, Zenon
  <2> QED
    BY <1>3, <2>2, <2>3, <2>4, Zenon DEF After
<1>4. StateFrom(e, b)
  <2>1. IsRecord("state", 0)
    BY Kinds, Zenon
  <2>2. ASSUME NEW i \in DOMAIN ops, Takes(d, low, b, ops[i]), ops[i].kind = "state"
        PROVE  BaseAtMost(ops[i].bytes, b)
    BY <2>2 DEF Takes
  <2>3. After(d, low, b, ops, e, "state", 0)
    BY <1>1, <2>1, Zenon
  <2> QED
    BY <1>0, <2>2, <2>3, Zenon DEF StateFrom, After
<1>5. ASSUME NEW h \in Indexed(ops) PROVE h \in Heights /\ Holds(e, "index", h)
  <2>1. PICK i \in DOMAIN ops : ops[i].kind = "index" /\ ops[i].id = h
    BY <1>5, Zenon DEF Indexed
  <2>2. Takes(d, low, b, ops[i]) /\ i \in Writes(ops, "index", h)
    BY <2>1, Zenon DEF AllTaken, Writes
  <2>3. h \in Heights
    BY <2>1, <2>2 DEF Takes
  <2> QED
    BY <1>2, <2>2, <2>3, Zenon
<1>6. Whole(e) /\ Beside(e) /\ From(e, low)
  BY <1>2, <1>3, Zenon DEF Whole, Beside, From
<1> QED
  BY <1>2, <1>4, <1>5, <1>6, Zenon DEF Taken, DataInv, e

\* A bound on the base on disk may be raised.
LEMMA BaseRises ==
  ASSUME NEW b \in Nat, NEW c \in Nat, b <= c, NEW bytes, BaseAtMost(bytes, b)
  PROVE  BaseAtMost(bytes, c)
<1>1. \A x \in 0..b : x \in 0..c
  OBVIOUS
<1> QED
  BY <1>1, Zenon DEF BaseAtMost

\* What belongs to the block at height h, and to those of the heights of P.
RecordsAt(d, h) ==
  {<<"block", d[Key("index", h)]>>, <<"commit", d[Key("index", h)]>>, <<"index", h>>,
   <<"responses", h>>, <<"validators", h>>}

RecordsIn(d, P) == UNION {RecordsAt(d, h) : h \in P}

\* The heights of P have blocks.
ArePresent(d, P) == P \subseteq Heights /\ \A h \in P : Holds(d, "index", h)

\* The parts of a pair.
LEMMA PairIs ==
  ASSUME NEW x, NEW y, NEW r, r = <<x, y>>
  PROVE  r[1] = x /\ r[2] = y /\ r = <<r[1], r[2]>>
  OBVIOUS

\* What belongs to blocks are records.
LEMMA RecordsInAre ==
  ASSUME NEW d, Whole(d), NEW P, ArePresent(d, P)
  PROVE  AreRecords(RecordsIn(d, P))
<1> SUFFICES ASSUME NEW h \in P, NEW r \in RecordsAt(d, h)
             PROVE  r = <<r[1], r[2]>> /\ IsRecord(r[1], r[2])
  BY Zenon DEF AreRecords, RecordsIn
<1>1. h \in Heights /\ IsHash(d[Key("index", h)])
  BY Zenon DEF ArePresent, Whole
<1>2. PICK kind, id : r = <<kind, id>> /\ IsRecord(kind, id)
  BY <1>1, Kinds, Zenon DEF RecordsAt
<1> QED
  BY <1>2, PairIs, Zenon

\* A record that belongs to some blocks belongs to one of them.
LEMMA InRecordsIn ==
  ASSUME NEW d, NEW P, NEW r
  PROVE  r \in RecordsIn(d, P) <=> \E g \in P : r \in RecordsAt(d, g)
  BY Zenon DEF RecordsIn

\* The records of a height belong to its block alone.
LEMMA HeightRecords ==
  ASSUME NEW d, NEW P, NEW h, NEW kind \in {"index", "responses", "validators"}
  PROVE  <<kind, h>> \in RecordsIn(d, P) <=> h \in P
<1>1. \A g : <<kind, h>> \in RecordsAt(d, g) <=> h = g
  BY DEF RecordsAt
<1>2. <<kind, h>> \in RecordsIn(d, P) <=> \E g \in P : <<kind, h>> \in RecordsAt(d, g)
  BY InRecordsIn, Zenon
<1> QED
  BY <1>1, <1>2, Zenon

\* The state belongs to no block.
LEMMA StateRecords ==
  ASSUME NEW d, NEW P
  PROVE  <<"state", 0>> \notin RecordsIn(d, P)
<1>1. \A g : <<"state", 0>> \notin RecordsAt(d, g)
  BY DEF RecordsAt
<1>2. <<"state", 0>> \in RecordsIn(d, P) <=> \E g \in P : <<"state", 0>> \in RecordsAt(d, g)
  BY InRecordsIn, Zenon
<1> QED
  BY <1>1, <1>2, Zenon

\* The hash of a block at a height of P.
IsIndexed(d, P, x) == \E g \in P : x = d[Key("index", g)]

\* A block or a commit belongs to the height whose index has its hash.
LEMMA HashRecords ==
  ASSUME NEW d, NEW P, NEW x, NEW kind \in {"block", "commit"}
  PROVE  <<kind, x>> \in RecordsIn(d, P) <=> IsIndexed(d, P, x)
<1>1. \A g : <<kind, x>> \in RecordsAt(d, g) <=> x = d[Key("index", g)]
  BY DEF RecordsAt
<1>2. <<kind, x>> \in RecordsIn(d, P) <=> \E g \in P : <<kind, x>> \in RecordsAt(d, g)
  BY InRecordsIn, Zenon
<1> QED
  BY <1>1, <1>2, Zenon DEF IsIndexed

\* Deleting the records of the heights P.
LEMMA DeleteKeeps ==
  ASSUME NEW d, NEW low, NEW b \in Nat, DataInv(d, low, b), NEW P, ArePresent(d, P),
         NEW low2, NEW b2 \in Nat, b <= b2,
         \A h \in Heights : Holds(d, "index", h) /\ h \notin P => low2 <= h
  PROVE  /\ DataInv(Without(d, RecordsIn(d, P)), low2, b2)
         /\ \A h \in Heights : Holds(d, "index", h) /\ h \notin P =>
              Holds(Without(d, RecordsIn(d, P)), "index", h)
<1> DEFINE e == Without(d, RecordsIn(d, P))
<1>0. Whole(d) /\ Beside(d) /\ From(d, low) /\ StateFrom(d, b)
  BY Zenon DEF DataInv
<1>1. AreRecords(RecordsIn(d, P))
  BY <1>0, RecordsInAre, Zenon
<1>2. ASSUME NEW h \in Heights
      PROVE  /\ \A kind \in {"index", "responses", "validators"} :
                  Holds(e, kind, h) <=> Holds(d, kind, h) /\ h \notin P
             /\ Holds(e, "index", h) => e[Key("index", h)] = d[Key("index", h)]
  <2>1. \A kind \in {"index", "responses", "validators"} :
          IsRecord(kind, h) /\ (<<kind, h>> \in RecordsIn(d, P) <=> h \in P)
    BY Kinds, HeightRecords, Zenon
  <2>2. \A kind \in {"index", "responses", "validators"} : KeptIn(d, e, RecordsIn(d, P), kind, h)
    BY <1>1, <2>1, WithoutAt, Zenon
  <2> HIDE DEF e
  <2> QED
    BY <2>1, <2>2, Zenon DEF KeptIn
<1>3. /\ Holds(e, "state", 0) => Holds(d, "state", 0)
      /\ Holds(e, "state", 0) => e[Key("state", 0)] = d[Key("state", 0)]
  <2>1. IsRecord("state", 0) /\ <<"state", 0>> \notin RecordsIn(d, P)
    BY Kinds, StateRecords, Zenon
  <2>2. KeptIn(d, e, RecordsIn(d, P), "state", 0)
    BY <1>1, <2>1, WithoutAt, Zenon
  <2> HIDE DEF e
  <2> QED
    BY <2>1, <2>2, Zenon DEF KeptIn
<1> HIDE DEF e
<1>4. Whole(e)
  BY <1>0, <1>2, Zenon DEF Whole
<1>5. Beside(e)
  BY <1>0, <1>2, Zenon DEF Beside
<1>6. From(e, low2)
  BY <1>2, Zenon DEF From
<1>7. StateFrom(e, b2)
  BY <1>0, <1>3, BaseRises, Zenon DEF StateFrom
<1> QED
  BY <1>2, <1>4, <1>5, <1>6, <1>7, Zenon DEF DataInv, e

-----------------------------------------------------------------------------
(* Each action keeps the invariant *)

\* Get finds what the database has.
LEMMA Reads ==
  ASSUME NEW kind, NEW id
  PROVE  /\ Get(kind, id).err = "" <=> Holds(db, kind, id)
         /\ Holds(db, kind, id) => Get(kind, id).val = db[Key(kind, id)]
<1>1. \A v : Ok(v).err = "" /\ Ok(v).val = v
  BY DEF Ok
<1>2. Err("not found").err # ""
  BY DEF Err
<1> QED
  BY <1>1, <1>2, Zenon DEF Get, Holds

\* So does LoadHashFromIndex, as every index has the length of a hash.
LEMMA IndexReads ==
  ASSUME Whole(db), NEW h \in Heights
  PROVE  /\ LoadHashFromIndex(h).err = "" <=> Holds(db, "index", h)
         /\ Holds(db, "index", h) => LoadHashFromIndex(h).val = db[Key("index", h)]
<1>1. /\ Get("index", h).err = "" <=> Holds(db, "index", h)
      /\ Holds(db, "index", h) => Get("index", h).val = db[Key("index", h)]
  BY Reads, Zenon
<1>2. CASE Holds(db, "index", h)
  <2>1. Len(Get("index", h).val) = HashLen
    BY <1>1, <1>2, Zenon DEF Whole, IsHash
  <2> QED
    BY <1>1, <1>2, <2>1, Zenon DEF LoadHashFromIndex
<1>3. CASE ~Holds(db, "index", h)
  BY <1>1, <1>3, Zenon DEF LoadHashFromIndex
<1> QED
  BY <1>2, <1>3, Zenon

\* The heights in memory are numbers, the base not above the height.
LEMMA StoreNumbers ==
  ASSUME SInv
  PROVE  /\ MaxStoreHeight \in Nat /\ height \in Nat /\ base \in Nat /\ lowest \in Nat
         /\ base <= height /\ height <= MaxStoreHeight /\ lowest <= MaxStoreHeight
         /\ \A h : h \in Heights <=> h \in Nat /\ h <= MaxStoreHeight
<1>1. MaxStoreHeight \in Nat
  BY StoreConstants, Zenon
<1>2. \A h : h \in Heights <=> h \in Nat /\ h <= MaxStoreHeight
  BY <1>1 DEF Heights
<1>3. height \in Heights /\ base \in 0..height /\ lowest \in Heights
  BY Zenon DEF SInv
<1>4. height \in Nat /\ height <= MaxStoreHeight /\ lowest \in Nat /\ lowest <= MaxStoreHeight
  BY <1>2, <1>3, Zenon
<1>5. base \in Nat /\ base <= height
  BY <1>3, <1>4
<1> QED
  BY <1>1, <1>2, <1>4, <1>5, Zenon

\* What a commit of writes leaves.
LEMMA CommitStep ==
  ASSUME SInv, NEW ops, AllTaken(db, Low, base, ops), Commit(ops)
  PROVE  /\ DataInv(db', Low, base) /\ ever' \subseteq Heights
         /\ \A h \in ever' : lowest <= h => Holds(db', "index", h)
         /\ batch # Absent => WriteBatchInv(db', base, batch)
<1>1. DataInv(db, Low, base) /\ ever \subseteq Heights
  BY Zenon DEF SInv
<1>2. Taken(db, Low, base, db', ops) /\ ever' = ever \cup Indexed(ops)
  BY <1>1, CommitTakes, Zenon DEF Commit
<1>3. ever' \subseteq Heights
  BY <1>1, <1>2, Zenon DEF Taken
<1>4. ASSUME NEW h \in ever', lowest <= h PROVE Holds(db', "index", h)
  BY <1>1, <1>2, <1>4, Zenon DEF SInv, Taken
<1>5. ASSUME batch # Absent PROVE WriteBatchInv(db', base, batch)
  <2>1. WriteBatchInv(db, base, batch)
    BY <1>5, Zenon DEF SInv
  <2>2. \A op : Batched(db, base, op) => Batched(db', base, op)
    BY <1>2, Zenon DEF Batched, Taken
  <2> QED
    BY <2>1, <2>2, Zenon DEF WriteBatchInv
<1> QED
  BY <1>2, <1>3, <1>4, <1>5, Zenon DEF Taken

\* A write to the database is a commit.
LEMMA WriteToDB ==
  ASSUME NEW ops, Write(ops, "db")
  PROVE  Commit(ops) /\ batch' = batch
  BY DEF Write

\* A write into the batch leaves the database.
LEMMA WriteToBatch ==
  ASSUME NEW ops, Write(ops, "batch")
  PROVE  /\ batch # Absent /\ batch' = batch \o ops
         /\ UNCHANGED <<db, objs, ever>>
  BY DEF Write

\* The parts of the invariant that a commit of writes changes.
LEMMA CommitStepInv ==
  ASSUME SInv, NEW ops, AllTaken(db, Low, base, ops), Commit(ops),
         batch' \in {batch, Absent}, UNCHANGED <<base, prune, lowest>>,
         height' \in Heights, base \in 0..height', prune # Absent => height' = height
  PROVE  SInv'
<1>1. /\ DataInv(db', Low, base) /\ ever' \subseteq Heights
      /\ \A h \in ever' : lowest <= h => Holds(db', "index", h)
      /\ batch # Absent => WriteBatchInv(db', base, batch)
  BY CommitStep, Zenon
<1>2. lowest \in Heights
  BY Zenon DEF SInv
<1>3. base' = base /\ prune' = prune /\ lowest' = lowest
  BY Zenon
<1>4. Low' = Low
  BY <1>3, Zenon DEF Low
<1>5. height' \in Heights /\ base' \in 0..height' /\ lowest' \in Heights /\ ever' \subseteq Heights
  BY <1>1, <1>2, <1>3, Zenon
<1>6. DataInv(db', Low', base')
  BY <1>1, <1>3, <1>4, Zenon
<1>7. \A h \in ever' : lowest' <= h => Holds(db', "index", h)
  BY <1>1, <1>3, Zenon
<1>8. batch' # Absent => WriteBatchInv(db', base', batch')
  BY <1>1, <1>3, Zenon
<1>9. prune' # Absent => PruneInv'
  BY <1>3, Zenon DEF SInv, PruneInv
<1> QED
  BY <1>5, <1>6, <1>7, <1>8, <1>9, Zenon DEF SInv

\* SaveBlock writes an index that is not below the base.
LEMMA SaveBlockStep ==
  ASSUME SInv, NEW e \in Blocks, SaveBlock(e)
  PROVE  SInv'
<1> DEFINE ops == BlockOps(e)
           hh == e.block.Header.Height
<1>1. /\ prune = Absent /\ Commit(ops) /\ batch' = batch /\ UNCHANGED <<base, prune, lowest>>
      /\ hh \in {height, height + 1} /\ height' = Max({height, hh})
  BY WriteToDB, Zenon DEF SaveBlock
<1>2. hh \in Heights /\ IsHash(HashOf(e.block))
  BY StoreConstants, Zenon
<1>3. AllTaken(db, base, base, ops)
  <2>1. /\ Len(ops) = 3 /\ DOMAIN ops = 1..3 /\ ops[1].kind = "block" /\ ops[1].id = HashOf(e.block)
        /\ ops[2].kind = "commit" /\ ops[2].id = HashOf(e.block)
        /\ ops[3].kind = "index" /\ ops[3].id = hh /\ ops[3].bytes = HashOf(e.block)
    BY DEF BlockOps, Set
  <2>2. base <= hh
    BY <1>1, StoreNumbers
  <2> HIDE DEF ops, hh
  <2>3. /\ Takes(db, base, base, ops[1]) /\ Takes(db, base, base, ops[2])
        /\ Takes(db, base, base, ops[3])
    BY <1>2, <2>1, <2>2, Zenon DEF Takes, IsHash
  <2>4. \A i \in 1..3 : i = 1 \/ i = 2 \/ i = 3
    OBVIOUS
  <2>5. 3 \in Nat
    OBVIOUS
  <2> QED
    BY <2>1, <2>3, <2>4, <2>5, Zenon DEF AllTaken
<1> HIDE DEF ops, hh
<1>4. height' \in Heights /\ base \in 0..height'
  <2>1. hh \in Nat /\ height \in Nat
    BY <1>2, StoreNumbers, Zenon
  <2>2. Max({height, hh}) \in {height, hh} /\ height <= Max({height, hh})
    BY <2>1, MaxOfTwo, Zenon
  <2>3. height' \in Heights /\ height <= height'
    BY <1>1, <1>2, <2>2, Zenon DEF SInv
  <2> QED
    BY <2>3, StoreNumbers
<1>5. Low = base
  BY <1>1, Zenon DEF Low
<1> QED
  BY <1>1, <1>3, <1>4, <1>5, CommitStepInv, Zenon

\* A sequence is one over its range.
LEMMA RangeOfSeq ==
  ASSUME NEW S, NEW s \in Seq(S)
  PROVE  s \in Seq(Range(s))
<1>1. Len(s) \in Nat /\ DOMAIN s = 1..Len(s) /\ s = [i \in 1..Len(s) |-> s[i]]
  OBVIOUS
<1>2. \A i \in 1..Len(s) : s[i] \in Range(s)
  BY <1>1, Zenon DEF Range
<1> QED
  BY <1>1, <1>2

\* The sequence t is s with op at its end.
Appended(s, op, t) ==
  /\ t \in Seq(Range(t)) /\ Len(t) = Len(s) + 1 /\ Len(s) \in Nat
  /\ \A i \in DOMAIN t : t[i] = op \/ (i \in DOMAIN s /\ t[i] = s[i])

\* What is appended is the last element.
LEMMA AppendOne ==
  ASSUME NEW s, s \in Seq(Range(s)), NEW op
  PROVE  Appended(s, op, s \o <<op>>)
<1> DEFINE S == Range(s) \cup {op}
<1>1. s \in Seq(S) /\ <<op>> \in Seq(S)
  <2>1. Range(s) \subseteq S /\ op \in S
    BY Zenon
  <2> HIDE DEF S
  <2> QED
    BY <2>1
<1> HIDE DEF S
<1>2. s \o <<op>> \in Seq(S)
  BY <1>1
<1>3. s \o <<op>> \in Seq(Range(s \o <<op>>))
  BY <1>2, RangeOfSeq, Zenon
<1>4. Len(s \o <<op>>) = Len(s) + 1 /\ Len(s) \in Nat
  BY <1>1
<1>5. \A i \in DOMAIN (s \o <<op>>) :
        (s \o <<op>>)[i] = op \/ (i \in DOMAIN s /\ (s \o <<op>>)[i] = s[i])
  BY <1>1
<1> QED
  BY <1>3, <1>4, <1>5, Zenon DEF Appended

\* A write into the batch.
LEMMA BatchStep ==
  ASSUME SInv, NEW op, Batched(db, base, op), Write(<<op>>, "batch"),
         UNCHANGED <<height, base, prune, lowest>>
  PROVE  SInv'
<1>1. /\ prune = Absent /\ batch # Absent /\ batch' = batch \o <<op>>
      /\ db' = db /\ ever' = ever
  BY WriteToBatch, Zenon DEF SInv, PruneInv
<1>2. WriteBatchInv(db, base, batch)
  BY <1>1, Zenon DEF SInv
<1>3. Appended(batch, op, batch')
  BY <1>1, <1>2, AppendOne, Zenon DEF WriteBatchInv
<1>4. WriteBatchInv(db, base, batch')
  BY <1>2, <1>3, Zenon DEF WriteBatchInv, Appended
<1>5. prune' = Absent /\ height' = height /\ base' = base /\ lowest' = lowest
  BY <1>1, Zenon
<1> QED
  BY <1>1, <1>4, <1>5, Zenon DEF SInv, Low

\* Responses and validators are written beside an index.
LEMMA ContentStep ==
  ASSUME SInv, NEW h \in LastSaved, NEW c, SaveBlockResponses(h, c) \/ SaveValidators(h, c)
  PROVE  SInv'
<1>1. h \in Heights /\ Holds(db, "index", h)
  BY IndexReads, Zenon DEF LastSaved, SInv, DataInv
<1>2. CASE SaveBlockResponses(h, c)
  <2> DEFINE op == Set("responses", h, EncodeContent(c), c)
  <2>1. op.kind = "responses" /\ op.id = h
    BY DEF Set
  <2>2. Write(<<op>>, "batch") /\ UNCHANGED <<height, base, prune, lowest>>
    BY <1>2, Zenon DEF SaveBlockResponses, ContentOps
  <2> HIDE DEF op
  <2>3. Batched(db, base, op)
    BY <1>1, <2>1, Zenon DEF Batched
  <2> QED
    BY <2>2, <2>3, BatchStep, Zenon
<1>3. CASE SaveValidators(h, c)
  <2> DEFINE op == Set("validators", h, EncodeContent(c), c)
  <2>1. op.kind = "validators" /\ op.id = h
    BY DEF Set
  <2>2. Write(<<op>>, "batch") /\ UNCHANGED <<height, base, prune, lowest>>
    BY <1>3, Zenon DEF SaveValidators, ContentOps
  <2> HIDE DEF op
  <2>3. Batched(db, base, op)
    BY <1>1, <2>1, Zenon DEF Batched
  <2> QED
    BY <2>2, <2>3, BatchStep, Zenon
<1> QED
  BY <1>2, <1>3, Zenon

\* UpdateState writes the base in memory, or an earlier one.
LEMMA UpdateStateStep ==
  ASSUME SInv, NEW s \in States, NEW b \in 0..base, NEW into \in {"batch", "db"},
         UpdateState(s, b, into)
  PROVE  SInv'
<1> DEFINE bytes == EncodeState(WithHeights(s, height, b))
           op == Set("state", 0, bytes, WithHeights(s, height, b))
<1>1. BaseAtMost(bytes, base)
  <2>1. b \in 0..height
    BY StoreNumbers
  <2>2. HasBase(bytes, b)
    BY <2>1, StoreConstants, Zenon DEF SInv, UpdateState
  <2> QED
    BY <2>2, Zenon DEF BaseAtMost
<1>2. op.kind = "state" /\ op.id = 0 /\ op.bytes = bytes
  BY DEF Set
<1>3. Write(<<op>>, into) /\ UNCHANGED <<height, base, prune, lowest>>
  BY Zenon DEF UpdateState, StateOps
<1> HIDE DEF bytes, op
<1>4. CASE into = "batch"
  <2>1. Batched(db, base, op)
    BY <1>1, <1>2, Zenon DEF Batched
  <2> QED
    BY <1>3, <1>4, <2>1, BatchStep, Zenon
<1>5. CASE into = "db"
  <2>1. Commit(<<op>>) /\ batch' = batch
    BY <1>3, <1>5, WriteToDB, Zenon
  <2>2. Len(<<op>>) = 1 /\ 1 \in Nat /\ DOMAIN <<op>> = 1..1 /\ \A i \in 1..1 : <<op>>[i] = op
    OBVIOUS
  <2>3. Takes(db, Low, base, op)
    BY <1>1, <1>2, Zenon DEF Takes
  <2>4. AllTaken(db, Low, base, <<op>>)
    BY <2>2, <2>3, Zenon DEF AllTaken
  <2>5. height' \in Heights /\ base \in 0..height'
    BY <1>3, Zenon DEF SInv
  <2> QED
    BY <1>3, <2>1, <2>4, <2>5, CommitStepInv, Zenon
<1> QED
  BY <1>4, <1>5, Zenon

\* A new batch is empty.
LEMMA NewBatchStep ==
  ASSUME SInv, NewBatch
  PROVE  SInv'
<1>1. /\ prune = Absent /\ prune' = Absent /\ batch' = <<>> /\ db' = db /\ height' = height
      /\ base' = base /\ ever' = ever /\ lowest' = lowest
  BY Zenon DEF NewBatch
<1>2. <<>> \in Seq(Range(<<>>)) /\ DOMAIN <<>> = {}
  OBVIOUS
<1>3. WriteBatchInv(db, base, <<>>)
  BY <1>2, Zenon DEF WriteBatchInv
<1> QED
  BY <1>1, <1>3, Zenon DEF SInv, Low

\* The database can take what the batch holds.
LEMMA CommitBatchStep ==
  ASSUME SInv, CommitBatch
  PROVE  SInv'
<1>1. /\ prune = Absent /\ batch # Absent /\ Commit(batch) /\ batch' = Absent
      /\ UNCHANGED <<height, base, prune, lowest>>
  BY Zenon DEF CommitBatch
<1>2. WriteBatchInv(db, base, batch)
  BY <1>1, Zenon DEF SInv
<1>3. Len(batch) \in Nat /\ DOMAIN batch = 1..Len(batch)
  <2>1. batch \in Seq(Range(batch))
    BY <1>2, Zenon DEF WriteBatchInv
  <2> QED
    BY <2>1
<1>4. \A op : Batched(db, base, op) => Takes(db, base, base, op)
  BY Zenon DEF Batched, Takes
<1>5. AllTaken(db, base, base, batch)
  BY <1>2, <1>3, <1>4, Zenon DEF WriteBatchInv, AllTaken
<1>6. height' \in Heights /\ base \in 0..height'
  BY <1>1, Zenon DEF SInv
<1>7. Low = base
  BY <1>1, Zenon DEF Low
<1> QED
  BY <1>1, <1>5, <1>6, <1>7, CommitStepInv, Zenon

\* The restart goes back to the base on disk, which is not above the one in memory.
LEMMA CrashStep ==
  ASSUME SInv, Crash
  PROVE  SInv'
<1>1. /\ batch' = Absent /\ prune' = Absent /\ db' = db /\ ever' = ever /\ lowest' = lowest
      /\ \/ LoadState(ReadState)
         \/ ReadState.err # "" /\ height' = 0 /\ base' = 0
  BY Zenon DEF Crash
<1>2. DataInv(db, Low, base) /\ base \in Nat /\ Low \in Nat /\ base <= Low
  <2>1. base \in Nat
    BY StoreNumbers, Zenon
  <2>2. CASE prune = Absent
    BY <2>1, <2>2 DEF Low, SInv
  <2>3. CASE prune # Absent
    <3>1. prune \in [next : Nat, target : Nat] /\ base <= prune.next /\ DataInv(db, Low, base)
      BY <2>3, Zenon DEF SInv, PruneInv
    <3>2. Low = prune.next
      BY <2>3, Zenon DEF Low
    <3>3. prune.next \in Nat
      BY <3>1
    <3> QED
      BY <2>1, <3>1, <3>2, <3>3, Zenon
  <2> QED
    BY <2>2, <2>3, Zenon
<1> DEFINE bytes == db[Key("state", 0)]
<1>3. /\ ReadState.err = "" => Holds(db, "state", 0)
      /\ Holds(db, "state", 0) => ReadState = DecodeState(bytes)
  BY Reads, Zenon DEF ReadState
<1> HIDE DEF bytes
<1>4. /\ height' \in Heights /\ base' \in 0..height' /\ base' \in Nat /\ base' <= base
      /\ StateFrom(db, base')
  <2>1. CASE LoadState(ReadState)
    <3>1. PICK c \in 0..base : HasBase(bytes, c)
      BY <1>2, <1>3, <2>1, Zenon DEF LoadState, DataInv, StateFrom, BaseAtMost, bytes
    <3>2. base' = c /\ height' \in c..MaxStoreHeight
      BY <1>3, <2>1, <3>1, Zenon DEF LoadState, HasBase
    <3>3. c \in Nat /\ c <= base /\ c \in 0..c
      BY <1>2
    <3>4. height' \in Heights /\ base' \in 0..height'
      BY <3>2, <3>3, StoreNumbers DEF Heights
    <3>5. StateFrom(db, c)
      BY <3>1, <3>3, Zenon DEF StateFrom, BaseAtMost, bytes
    <3> QED
      BY <3>2, <3>3, <3>4, <3>5, Zenon
  <2>2. CASE ReadState.err # "" /\ height' = 0 /\ base' = 0
    <3>1. Holds(db, "state", 0) => HasBase(bytes, 0)
      BY <1>3, <2>2, Zenon DEF HasBase
    <3>2. 0 \in 0..0 /\ 0 \in Heights /\ 0 \in Nat /\ 0 <= base
      BY StoreNumbers
    <3>3. StateFrom(db, 0)
      BY <3>1, <3>2, Zenon DEF StateFrom, BaseAtMost, bytes
    <3> QED
      BY <2>2, <3>2, <3>3, Zenon
  <2> QED
    BY <1>1, <2>1, <2>2, Zenon
<1>5. From(db, base')
  <2>1. \A h \in Heights : h \in Nat
    BY StoreNumbers, Zenon
  <2>2. \A h \in Heights : Low <= h => base' <= h
    BY <1>2, <1>4, <2>1
  <2> QED
    BY <1>2, <2>2, Zenon DEF DataInv, From
<1>6. DataInv(db, base', base')
  BY <1>2, <1>4, <1>5, Zenon DEF DataInv
<1> QED
  BY <1>1, <1>4, <1>6, Zenon DEF SInv, Low

\* PruneBlocks starts at the base.
LEMMA PruneBlocksStep ==
  ASSUME SInv, NEW h, PruneBlocks(h)
  PROVE  SInv'
<1>1. /\ prune = Absent /\ batch = Absent /\ h \in Max({1, base})..height
      /\ prune' = [next |-> base, target |-> h] /\ lowest' = Max({lowest, h})
      /\ db' = db /\ batch' = batch /\ height' = height /\ base' = base /\ ever' = ever
  BY Zenon DEF PruneBlocks
<1>2. h \in Nat /\ base <= h /\ h <= height
  <2>1. Max({1, base}) \in {1, base} /\ base <= Max({1, base})
    <3>1. 1 \in Nat /\ base \in Nat
      BY StoreNumbers
    <3> QED
      BY <3>1, MaxOfTwo, Zenon
  <2> QED
    BY <1>1, <2>1, StoreNumbers
<1>3. lowest' \in {lowest, h} /\ lowest <= lowest' /\ h <= lowest'
  BY <1>1, <1>2, StoreNumbers, MaxOfTwo, Zenon
<1>4. lowest' \in Heights /\ \A g \in ever : lowest' <= g => lowest <= g
  <2>1. \A g \in ever : g \in Nat
    BY StoreNumbers, Zenon DEF SInv
  <2>2. h \in Heights
    BY <1>2, StoreNumbers
  <2>3. lowest' \in Heights
    BY <1>3, <2>2, Zenon DEF SInv
  <2> QED
    BY <1>3, <2>1, <2>3, StoreNumbers
<1>5. prune' \in [next : Nat, target : Nat] /\ prune'.next = base /\ prune'.target = h
  BY <1>1, <1>2, StoreNumbers
<1>6. base <= base
  BY StoreNumbers
<1>7. (prune # Absent => PruneInv)'
  BY <1>1, <1>2, <1>3, <1>5, <1>6, Zenon DEF PruneInv
<1>8. Low' = base
  BY <1>1, <1>5, Zenon DEF Low
<1>9. DataInv(db, base, base)
  BY <1>1, Zenon DEF SInv, Low
<1> QED
  BY <1>1, <1>4, <1>7, <1>8, <1>9, Zenon DEF SInv

\* The step deletes what belongs to the blocks from the next height to h.
PrunedBelow(h) ==
  /\ \A g : g \in Present(h) <=> g \in prune.next..h /\ Holds(db, "index", g)
  /\ ArePresent(db, Present(h))
  /\ db' = Without(db, RecordsIn(db, Present(h)))
  /\ objs' = Forgotten(objs, RecordsIn(db, Present(h)))
  /\ ever' = ever

\* What a prune of the heights up to h deletes.
LEMMA PruneDeletes ==
  ASSUME SInv, prune # Absent, NEW h \in Int, h < prune.target,
         Delete(UNION {RecordsOf(g) : g \in Present(h)})
  PROVE  /\ PrunedBelow(h) /\ prune.next \in Nat
         /\ \A g \in prune.next..h : g \in Heights /\ g < lowest
<1> DEFINE P == Present(h)
<1>1. /\ DataInv(db, prune.next, base) /\ prune \in [next : Nat, target : Nat]
      /\ prune.target <= lowest /\ prune.target <= height
  BY Zenon DEF SInv, Low, PruneInv
<1>2. /\ prune.next \in Nat /\ prune.target \in Nat
      /\ \A g \in prune.next..h : g \in Heights /\ g < lowest
  BY <1>1, StoreNumbers
<1>3. \A g : g \in P <=> g \in prune.next..h /\ Holds(db, "index", g)
  BY <1>1, <1>2, IndexReads, Zenon DEF Present, DataInv
<1>4. ArePresent(db, P)
  BY <1>2, <1>3, Zenon DEF ArePresent
<1>5. UNION {RecordsOf(g) : g \in P} = RecordsIn(db, P)
  <2>1. \A g \in P : RecordsOf(g) = RecordsAt(db, g)
    <3> SUFFICES ASSUME NEW g \in P PROVE RecordsOf(g) = RecordsAt(db, g)
      BY Zenon
    <3>1. LoadHashFromIndex(g).val = db[Key("index", g)]
      BY <1>1, <1>2, <1>3, IndexReads, Zenon DEF DataInv
    <3> QED
      BY <3>1, Zenon DEF RecordsOf, RecordsAt
  <2> HIDE DEF P
  <2> QED
    BY <2>1, Zenon DEF RecordsIn
<1>6. /\ db' = Without(db, RecordsIn(db, P)) /\ objs' = Forgotten(objs, RecordsIn(db, P))
      /\ ever' = ever
  BY <1>5, Zenon DEF Delete, Without, Forgotten
<1> QED
  BY <1>2, <1>3, <1>4, <1>6, Zenon DEF PrunedBelow

\* What it leaves.
LEMMA PruneStep ==
  ASSUME SInv, prune # Absent, NEW h \in Int, h < prune.target,
         Delete(UNION {RecordsOf(g) : g \in Present(h)}),
         NEW low \in Nat, low <= h + 1, NEW b \in Nat, base <= b
  PROVE  /\ DataInv(db', low, b) /\ ever' = ever
         /\ \A g \in ever : lowest <= g => Holds(db', "index", g)
<1> DEFINE P == Present(h)
<1>1. DataInv(db, prune.next, base)
  BY Zenon DEF SInv, Low
<1>2. prune.next \in Nat /\ \A g \in prune.next..h : g \in Heights /\ g < lowest
  BY PruneDeletes, Zenon
<1>3. \A g : g \in P <=> g \in prune.next..h /\ Holds(db, "index", g)
  BY PruneDeletes, Zenon DEF PrunedBelow
<1>4. ArePresent(db, P) /\ db' = Without(db, RecordsIn(db, P)) /\ ever' = ever
  BY PruneDeletes, Zenon DEF PrunedBelow
<1> HIDE DEF P
<1>5. ASSUME NEW g \in Heights, Holds(db, "index", g), g \notin P
      PROVE  low <= g
  <2>1. prune.next <= g /\ g \in Nat
    BY <1>1, <1>5, StoreNumbers, Zenon DEF DataInv, From
  <2>2. g \notin prune.next..h
    BY <1>3, <1>5, Zenon
  <2> QED
    BY <1>2, <2>1, <2>2
<1>6. base \in Nat
  BY StoreNumbers, Zenon
<1>7. /\ DataInv(db', low, b)
      /\ \A g \in Heights : Holds(db, "index", g) /\ g \notin P => Holds(db', "index", g)
  BY <1>1, <1>4, <1>5, <1>6, DeleteKeeps, Zenon
<1>8. ASSUME NEW g \in ever, lowest <= g PROVE Holds(db', "index", g)
  <2>1. g \in Heights /\ Holds(db, "index", g)
    BY <1>8, Zenon DEF SInv
  <2>2. g \in Nat
    BY <2>1, StoreNumbers, Zenon
  <2>3. ~(g < lowest)
    BY <1>8, <2>2, StoreNumbers
  <2> QED
    BY <1>2, <1>3, <1>7, <2>1, <2>3, Zenon
<1> QED
  BY <1>4, <1>7, <1>8, Zenon

\* A full batch of deletes leaves nothing below the next height.
LEMMA PruneFlushStep ==
  ASSUME SInv, NEW h, PruneFlush(h)
  PROVE  SInv'
<1>1. /\ prune # Absent /\ h \in prune.next..(prune.target - 1)
      /\ Delete(UNION {RecordsOf(g) : g \in Present(h)})
      /\ base' = Max({base, h}) /\ prune' = [prune EXCEPT !.next = h + 1]
      /\ batch' = batch /\ height' = height /\ lowest' = lowest
  BY Zenon DEF PruneFlush, Present
<1>2. /\ prune \in [next : Nat, target : Nat] /\ batch = Absent /\ base <= prune.next
      /\ prune.target <= lowest /\ prune.target <= height
  BY <1>1, Zenon DEF SInv, PruneInv
<1>3. /\ prune.next \in Nat /\ prune.target \in Nat /\ h \in Nat /\ h < prune.target
      /\ base <= h /\ h + 1 \in Nat /\ h + 1 <= h + 1 /\ h \in Int /\ h + 1 <= prune.target
      /\ h <= h + 1
  BY <1>1, <1>2, StoreNumbers
<1>4. base' \in {base, h} /\ base <= base' /\ h <= base'
  BY <1>1, <1>3, StoreNumbers, MaxOfTwo, Zenon
<1>5. base' \in Nat /\ base' <= h + 1 /\ base' \in 0..height
  BY <1>2, <1>3, <1>4, StoreNumbers
<1>6. /\ DataInv(db', h + 1, base') /\ ever' = ever
      /\ \A g \in ever : lowest <= g => Holds(db', "index", g)
  BY <1>1, <1>3, <1>4, <1>5, PruneStep, Zenon
<1>7. /\ prune' \in [next : Nat, target : Nat] /\ prune'.next = h + 1
      /\ prune'.target = prune.target
  BY <1>1, <1>2, <1>3
<1>8. (prune # Absent => PruneInv)'
  BY <1>1, <1>2, <1>3, <1>5, <1>7, Zenon DEF PruneInv
<1>9. DataInv(db', Low', base')
  <2>1. CASE prune' = Absent
    <3>1. DataInv(db', base', base')
      BY <1>1, <1>3, <1>4, <1>5, PruneStep, Zenon
    <3> QED
      BY <2>1, <3>1, Zenon DEF Low
  <2>2. CASE prune' # Absent
    BY <1>6, <1>7, <2>2, Zenon DEF Low
  <2> QED
    BY <2>1, <2>2, Zenon
<1> QED
  BY <1>1, <1>2, <1>5, <1>6, <1>8, <1>9, Zenon DEF SInv

\* The last batch leaves nothing below the target, the new base.
LEMMA PruneEndStep ==
  ASSUME SInv, PruneEnd
  PROVE  SInv'
<1> DEFINE h == prune.target - 1
<1>1. /\ prune # Absent /\ Delete(UNION {RecordsOf(g) : g \in Present(h)})
      /\ base' = Max({base, prune.target}) /\ prune' = Absent
      /\ batch' = batch /\ height' = height /\ lowest' = lowest
  BY Zenon DEF PruneEnd
<1>2. /\ prune \in [next : Nat, target : Nat] /\ batch = Absent /\ base <= prune.next
      /\ prune.next <= prune.target /\ prune.target <= height
  BY <1>1, Zenon DEF SInv, PruneInv
<1>3. /\ prune.target \in Nat /\ base <= prune.target
      /\ h \in Int /\ h < prune.target /\ prune.target <= h + 1
  BY <1>2, StoreNumbers
<1>4. base' \in {base, prune.target} /\ base <= base'
  BY <1>1, <1>3, StoreNumbers, MaxOfTwo, Zenon
<1>5. base' \in Nat /\ base' <= h + 1 /\ base' \in 0..height
  BY <1>2, <1>3, <1>4, StoreNumbers
<1> HIDE DEF h
<1>6. /\ DataInv(db', base', base') /\ ever' = ever
      /\ \A g \in ever : lowest <= g => Holds(db', "index", g)
  BY <1>1, <1>3, <1>4, <1>5, PruneStep, Zenon
<1> QED
  BY <1>1, <1>2, <1>5, <1>6, Zenon DEF SInv, Low

\* A new store, and that of an old release, satisfy the invariant.
LEMMA StoreStarts ==
  ASSUME StoreInit
  PROVE  SInv
<1>1. PICK ops \in {<<>>, OldWrites} :
        db = Stored(<<>>, ops) /\ ever = Indexed(ops) /\ height = Max({0} \cup Indexed(ops))
  BY Zenon DEF StoreInit
<1>2. batch = Absent /\ base = 0 /\ prune = Absent /\ lowest = 0
  BY Zenon DEF StoreInit
<1>3. /\ MaxStoreHeight \in Nat /\ 0 \in Heights /\ 0 \in 0..0
      /\ \A h \in Heights : 0 <= h /\ h \in Nat
  BY StoreConstants DEF Heights
<1>4. AllTaken(<<>>, 0, 0, ops)
  <2>1. CASE ops = <<>>
    <3>1. Len(<<>>) = 0 /\ 0 \in Nat /\ DOMAIN <<>> = 1..0 /\ 1..0 = {}
      OBVIOUS
    <3> QED
      BY <2>1, <3>1, Zenon DEF AllTaken
  <2>2. CASE ops = OldWrites
    <3> SUFFICES ASSUME NEW i \in DOMAIN ops PROVE Takes(<<>>, 0, 0, ops[i])
      BY <2>2, OldStore, Zenon DEF AllTaken
    <3>1. \/ ops[i].kind \in {"block", "commit"} /\ IsHash(ops[i].id)
          \/ ops[i].kind = "index" /\ ops[i].id \in Heights /\ IsHash(ops[i].bytes)
          \/ ops[i].kind = "state" /\ ops[i].id = 0 /\ HasBase(ops[i].bytes, 0)
      BY <2>2, OldStore, Zenon
    <3> QED
      BY <1>3, <3>1, Zenon DEF Takes, BaseAtMost, IsHash
  <2> QED
    BY <1>1, <2>1, <2>2, Zenon
<1>5. DataInv(<<>>, 0, 0)
  <2>1. \A k : k \notin DOMAIN <<>>
    OBVIOUS
  <2> QED
    BY <2>1, Zenon DEF DataInv, Whole, Beside, From, StateFrom, Holds
<1>6. Taken(<<>>, 0, 0, db, ops)
  BY <1>1, <1>4, <1>5, CommitTakes, Zenon
<1>7. /\ DataInv(db, 0, 0) /\ ever \subseteq Heights
      /\ \A h \in ever : Holds(db, "index", h)
  BY <1>1, <1>6, Zenon DEF Taken
<1>8. height \in Heights
  <2>1. {0} \cup Indexed(ops) \subseteq Heights
    BY <1>1, <1>3, <1>7, Zenon
  <2> QED
    BY <1>1, <1>3, <2>1, MaxOf, Zenon DEF Heights
<1>9. 0 \in 0..height
  BY <1>3, <1>8
<1> QED
  BY <1>2, <1>3, <1>7, <1>8, <1>9, Zenon DEF SInv, Low

\* No step of the store breaks the invariant.
LEMMA StoreStep ==
  ASSUME SInv, [StoreNext]_storeVars
  PROVE  SInv'
<1>1. CASE \E e \in Blocks : SaveBlock(e)
  BY <1>1, SaveBlockStep, Zenon
<1>2. CASE \E h \in LastSaved, c \in Contents : SaveBlockResponses(h, c) \/ SaveValidators(h, c)
  BY <1>2, ContentStep, Zenon
<1>3. CASE \E s \in States, b \in 0..base, into \in {"batch", "db"} : UpdateState(s, b, into)
  BY <1>3, UpdateStateStep, Zenon
<1>4. CASE NewBatch
  BY <1>4, NewBatchStep, Zenon
<1>5. CASE CommitBatch
  BY <1>5, CommitBatchStep, Zenon
<1>6. CASE Crash
  BY <1>6, CrashStep, Zenon
<1>7. CASE \E h \in 1..height : PruneBlocks(h)
  BY <1>7, PruneBlocksStep, Zenon
<1>8. CASE \E h \in 0..height : PruneFlush(h)
  BY <1>8, PruneFlushStep, Zenon
<1>9. CASE PruneEnd
  BY <1>9, PruneEndStep, Zenon
<1>10. CASE UNCHANGED storeVars
  BY <1>10, Zenon DEF storeVars, SInv, Low, PruneInv
<1> QED
  BY <1>1, <1>2, <1>3, <1>4, <1>5, <1>6, <1>7, <1>8, <1>9, <1>10, Zenon DEF StoreNext

\* PruneBlocks, in however many batches and after however many crashes, removes no block
\* at or above the height it was asked to prune to, and when it has returned nothing is
\* left below the base of what belongs to a block: for every number of heights, of
\* heights per batch and of writes, and every encoding that tells the heights apart and
\* reads back the base it wrote.
THEOREM PruningIsExact == StoreSpec => []PruneIsExact
<1>1. StoreInit => SInv
  BY StoreStarts, Zenon
<1>2. SInv /\ [StoreNext]_storeVars => SInv'
  BY StoreStep, Zenon
<1>3. SInv => PruneIsExact
  <2> SUFFICES ASSUME SInv PROVE PruneIsExact
    BY Zenon
  <2>1. Whole(db) /\ Beside(db) /\ From(db, Low) /\ ever \subseteq Heights
    BY Zenon DEF SInv, DataInv
  <2>2. ASSUME NEW h \in ever, h >= lowest PROVE LoadHashFromIndex(h).err = ""
    <3>1. h \in Heights /\ h \in Nat
      BY <2>1, StoreNumbers, Zenon
    <3>2. lowest <= h
      BY <2>2, <3>1, StoreNumbers
    <3> QED
      BY <2>1, <3>1, <3>2, IndexReads, Zenon DEF SInv
  <2>3. ASSUME prune = Absent, NEW h \in ever, h < base,
               NEW kind \in {"index", "responses", "validators"}
        PROVE  Get(kind, h).err # ""
    <3>1. h \in Heights /\ h \in Nat
      BY <2>1, StoreNumbers, Zenon
    <3>2. ~(base <= h)
      BY <2>3, <3>1, StoreNumbers
    <3>3. ~Holds(db, "index", h)
      BY <2>1, <2>3, <3>1, <3>2, Zenon DEF From, Low
    <3>4. ~Holds(db, kind, h)
      BY <2>1, <3>1, <3>3, Zenon DEF Beside
    <3> QED
      BY <3>4, Reads, Zenon
  <2> QED
    BY <2>2, <2>3, Zenon DEF PruneIsExact
<1> QED
  BY <1>1, <1>2, <1>3, PTL DEF StoreSpec

-----------------------------------------------------------------------------
(* What is read is what was saved *)

\* An object of the ghost o.
Known(o, kind, id) == <<kind, id>> \in DOMAIN o

AllRecords(o) == \A r \in DOMAIN o : r = <<r[1], r[2]>> /\ IsRecord(r[1], r[2])

\* Every object saved is in the database.
ReadsAs(d, o, kind, id) ==
  Known(o, kind, id) =>
    Holds(d, kind, id) /\ Decode(kind, d[Key(kind, id)]) = Ok(o[<<kind, id>>])

Agree(d, o) == \A kind, id : IsRecord(kind, id) => ReadsAs(d, o, kind, id)

\* Every index is one that was saved.
IndexKnown(d, o) == \A h \in Heights : Holds(d, "index", h) => Known(o, "index", h)

\* A block is saved under its hash.
IsBlockAt(b, x) == b \in Saved /\ HashOf(b) = x

Hashed(o) == \A x : Known(o, "block", x) => IsBlockAt(o[<<"block", x>>], x)

\* The block of height h, whose hash is x, has all its parts.
Complete(o, h, x) ==
  Known(o, "block", x) /\ Known(o, "commit", x) /\ o[<<"block", x>>].Header.Height = h

Linked(o) == \A h \in Heights : Known(o, "index", h) => Complete(o, h, o[<<"index", h>>])

ObjInv(d, o) == AllRecords(o) /\ Agree(d, o) /\ IndexKnown(d, o) /\ Hashed(o) /\ Linked(o)

\* A write whose bytes are those of its object.
Faithful(op) ==
  /\ IsRecord(op.kind, op.id) /\ Decode(op.kind, op.bytes) = Ok(op.obj)
  /\ op.kind = "block" => IsBlockAt(op.obj, op.id)

\* The writes save the block of height h, with the hash x, and a commit.
Brings(ops, h, x) ==
  /\ \E j \in DOMAIN ops : ops[j].kind = "block" /\ ops[j].id = x /\ ops[j].obj.Header.Height = h
  /\ \E j \in DOMAIN ops : ops[j].kind = "commit" /\ ops[j].id = x

\* A sequence of such writes, each index with its block and commit.
AllFaithful(ops) ==
  /\ AreWrites(ops)
  /\ \A i \in DOMAIN ops : Faithful(ops[i])
  /\ \A i \in DOMAIN ops : ops[i].kind = "index" => Brings(ops, ops[i].id, ops[i].obj)

\* With SInv, the inductive invariant for ReadBack.
RInv ==
  /\ ObjInv(db, objs)
  /\ batch # Absent => \A i \in DOMAIN batch : Faithful(batch[i])

\* A result has one value.
LEMMA OkIs ==
  ASSUME NEW x, NEW y, Ok(x) = Ok(y)
  PROVE  x = y
<1>1. Ok(x).val = x /\ Ok(y).val = y
  BY DEF Ok
<1> QED
  BY <1>1, Zenon

\* A record of the database d and of the ghost o after some writes.
Written(d, o, ops, d2, o2, kind, id) ==
  \/ /\ Writes(ops, kind, id) # {} /\ Holds(d2, kind, id) /\ Known(o2, kind, id)
     /\ \E i \in DOMAIN ops : /\ ops[i].kind = kind /\ ops[i].id = id
                              /\ d2[Key(kind, id)] = ops[i].bytes
                              /\ o2[<<kind, id>>] = ops[i].obj
  \/ /\ Writes(ops, kind, id) = {}
     /\ Holds(d2, kind, id) <=> Holds(d, kind, id)
     /\ Known(o2, kind, id) <=> Known(o, kind, id)
     /\ Holds(d, kind, id) => d2[Key(kind, id)] = d[Key(kind, id)]
     /\ Known(o, kind, id) => o2[<<kind, id>>] = o[<<kind, id>>]

\* Both the bytes and the object of a record are those of the same write.
LEMMA WrittenAt ==
  ASSUME NEW d, NEW o, NEW ops, AreWrites(ops), NEW kind, NEW id, IsRecord(kind, id)
  PROVE  Written(d, o, ops, Stored(d, ops), Remembered(o, ops), kind, id)
<1>1. Puts(d, Stored(d, ops), ops, kind, id, Key(kind, id), ops[Final(ops, kind, id)].bytes)
  BY StoredAt, Zenon
<1>2. Puts(o, Remembered(o, ops), ops, kind, id, <<kind, id>>, ops[Final(ops, kind, id)].obj)
  BY RememberedAt, Zenon
<1>3. CASE Writes(ops, kind, id) = {}
  BY <1>1, <1>2, <1>3, Zenon DEF Puts, Written, Holds, Known
<1>4. CASE Writes(ops, kind, id) # {}
  <2>1. FinalOf(ops, kind, id, Final(ops, kind, id))
    BY <1>4, FinalWrite, Zenon
  <2> QED
    BY <1>1, <1>2, <1>4, <2>1, Zenon DEF Puts, Written, Holds, Known, FinalOf
<1> QED
  BY <1>3, <1>4, Zenon

\* Only records are remembered.
LEMMA RememberedKeys ==
  ASSUME NEW o, AllRecords(o), NEW ops, AreWrites(ops)
  PROVE  AllRecords(Remembered(o, ops))
<1> DEFINE keys == [i \in DOMAIN ops |-> <<ops[i].kind, ops[i].id>>]
<1>1. DOMAIN Remembered(o, ops) = DOMAIN o \cup Range(keys)
  BY Zenon DEF Remembered, Put
<1>2. ASSUME NEW r \in Range(keys) PROVE r = <<r[1], r[2]>> /\ IsRecord(r[1], r[2])
  <2>1. PICK i \in DOMAIN ops : r = <<ops[i].kind, ops[i].id>>
    BY <1>2, Zenon DEF Range
  <2>2. r[1] = ops[i].kind /\ r[2] = ops[i].id /\ r = <<r[1], r[2]>>
    BY <2>1, PairIs, Zenon
  <2> QED
    BY <2>2, Zenon DEF AreWrites
<1> QED
  BY <1>1, <1>2, Zenon DEF AllRecords

\* Blocks saved under the same hash have the same height.
LEMMA SameHeight ==
  ASSUME NEW b, NEW c, NEW x, IsBlockAt(b, x), IsBlockAt(c, x)
  PROVE  b.Header.Height = c.Header.Height
  BY Hashes, Zenon DEF IsBlockAt

\* Writes of blocks with their commits, and of other records, keep what is read.
LEMMA RememberKeeps ==
  ASSUME NEW d, NEW o, ObjInv(d, o), NEW ops, AllFaithful(ops)
  PROVE  ObjInv(Stored(d, ops), Remembered(o, ops))
<1> DEFINE d2 == Stored(d, ops)
           o2 == Remembered(o, ops)
<1>1. AreWrites(ops) /\ \A i \in DOMAIN ops : Faithful(ops[i])
  BY Zenon DEF AllFaithful
<1>2. \A kind, id : IsRecord(kind, id) => Written(d, o, ops, d2, o2, kind, id)
  BY <1>1, WrittenAt, Zenon
<1>3. AllRecords(o2)
  BY <1>1, RememberedKeys, Zenon DEF ObjInv
<1> HIDE DEF d2, o2
<1>4. \A kind, id : Known(o2, kind, id) => IsRecord(kind, id)
  <2> SUFFICES ASSUME NEW kind, NEW id, Known(o2, kind, id) PROVE IsRecord(kind, id)
    BY Zenon
  <2>1. <<kind, id>>[1] = kind /\ <<kind, id>>[2] = id
    OBVIOUS
  <2> QED
    BY <1>3, <2>1, Zenon DEF Known, AllRecords
<1>5. ASSUME NEW kind, NEW id, IsRecord(kind, id) PROVE ReadsAs(d2, o2, kind, id)
  <2>1. Written(d, o, ops, d2, o2, kind, id)
    BY <1>2, <1>5, Zenon
  <2>2. ReadsAs(d, o, kind, id)
    BY <1>5, Zenon DEF ObjInv, Agree
  <2>3. CASE Writes(ops, kind, id) # {}
    BY <1>1, <2>1, <2>3, Zenon DEF Written, Faithful, ReadsAs
  <2>4. CASE Writes(ops, kind, id) = {}
    BY <2>1, <2>2, <2>4, Zenon DEF Written, ReadsAs
  <2> QED
    BY <2>3, <2>4, Zenon
<1>6. ASSUME NEW h \in Heights, Holds(d2, "index", h) PROVE Known(o2, "index", h)
  <2>1. Written(d, o, ops, d2, o2, "index", h)
    BY <1>2, Kinds, Zenon
  <2> QED
    BY <1>6, <2>1, Zenon DEF Written, ObjInv, IndexKnown
<1>7. ASSUME NEW x, Known(o2, "block", x)
      PROVE  /\ IsBlockAt(o2[<<"block", x>>], x)
             /\ Known(o, "block", x) =>
                  o2[<<"block", x>>].Header.Height = o[<<"block", x>>].Header.Height
  <2>1. Written(d, o, ops, d2, o2, "block", x)
    BY <1>2, <1>4, <1>7, Zenon
  <2>2. Known(o, "block", x) => IsBlockAt(o[<<"block", x>>], x)
    BY Zenon DEF ObjInv, Hashed
  <2>3. CASE Writes(ops, "block", x) = {}
    BY <1>7, <2>1, <2>2, <2>3, Zenon DEF Written
  <2>4. CASE Writes(ops, "block", x) # {}
    <3>1. IsBlockAt(o2[<<"block", x>>], x)
      BY <1>1, <2>1, <2>4, Zenon DEF Written, Faithful
    <3> QED
      BY <2>2, <3>1, SameHeight, Zenon
  <2> QED
    BY <2>3, <2>4, Zenon
<1>8. ASSUME NEW h \in Heights, Known(o2, "index", h) PROVE Complete(o2, h, o2[<<"index", h>>])
  <2> DEFINE x == o2[<<"index", h>>]
  <2>1. Written(d, o, ops, d2, o2, "index", h)
    BY <1>2, Kinds, Zenon
  <2>2. CASE Writes(ops, "index", h) = {}
    <3>1. Known(o, "index", h) /\ x = o[<<"index", h>>]
      BY <1>8, <2>1, <2>2, Zenon DEF Written
    <3> HIDE DEF x
    <3>2. Complete(o, h, x)
      BY <3>1, Zenon DEF ObjInv, Linked
    <3>3. IsRecord("block", x) /\ IsRecord("commit", x)
      <4>1. /\ <<"block", x>>[1] = "block" /\ <<"block", x>>[2] = x
            /\ <<"commit", x>>[1] = "commit" /\ <<"commit", x>>[2] = x
        OBVIOUS
      <4> QED
        BY <3>2, <4>1, Zenon DEF Complete, Known, ObjInv, AllRecords
    <3>4. Written(d, o, ops, d2, o2, "block", x) /\ Written(d, o, ops, d2, o2, "commit", x)
      BY <1>2, <3>3, Zenon
    <3>5. Known(o2, "block", x) /\ Known(o2, "commit", x)
      BY <3>2, <3>4, Zenon DEF Written, Complete
    <3> QED
      BY <1>7, <3>2, <3>5, Zenon DEF Complete, x
  <2>3. CASE Writes(ops, "index", h) # {}
    <3>1. PICK i \in DOMAIN ops : ops[i].kind = "index" /\ ops[i].id = h /\ x = ops[i].obj
      BY <2>1, <2>3, Zenon DEF Written
    <3> HIDE DEF x
    <3>2. Brings(ops, h, x)
      BY <3>1, Zenon DEF AllFaithful
    <3>3. PICK j \in DOMAIN ops :
            ops[j].kind = "block" /\ ops[j].id = x /\ ops[j].obj.Header.Height = h
      BY <3>2, Zenon DEF Brings
    <3>4. PICK k \in DOMAIN ops : ops[k].kind = "commit" /\ ops[k].id = x
      BY <3>2, Zenon DEF Brings
    <3>5. Writes(ops, "block", x) # {} /\ Writes(ops, "commit", x) # {}
      BY <3>3, <3>4, Zenon DEF Writes
    <3>6. IsRecord("block", x) /\ IsRecord("commit", x) /\ IsBlockAt(ops[j].obj, x)
      BY <1>1, <3>3, <3>4, Zenon DEF Faithful
    <3>7. Written(d, o, ops, d2, o2, "block", x) /\ Written(d, o, ops, d2, o2, "commit", x)
      BY <1>2, <3>6, Zenon
    <3>8. Known(o2, "block", x) /\ Known(o2, "commit", x)
      BY <3>5, <3>7, Zenon DEF Written
    <3>9. IsBlockAt(o2[<<"block", x>>], x)
      BY <1>7, <3>8, Zenon
    <3>10. o2[<<"block", x>>].Header.Height = ops[j].obj.Header.Height
      BY <3>6, <3>9, SameHeight, Zenon
    <3> QED
      BY <3>3, <3>8, <3>10, Zenon DEF Complete, x
  <2> QED
    BY <2>2, <2>3, Zenon
<1> QED
  BY <1>3, <1>5, <1>6, <1>7, <1>8, Zenon DEF ObjInv, Agree, IndexKnown, Hashed, Linked, d2, o2

\* An object of o2, which is o after the delete of some records.
ForgottenIn(o, o2, records, kind, id) ==
  /\ Known(o2, kind, id) <=> Known(o, kind, id) /\ <<kind, id>> \notin records
  /\ Known(o2, kind, id) => o2[<<kind, id>>] = o[<<kind, id>>]

\* What a delete leaves of one object.
LEMMA ForgottenAt ==
  ASSUME NEW o, NEW records, NEW kind, NEW id
  PROVE  ForgottenIn(o, Forgotten(o, records), records, kind, id)
<1>1. /\ DOMAIN Forgotten(o, records) = DOMAIN o \ records
      /\ \A r \in DOMAIN o \ records : Forgotten(o, records)[r] = o[r]
  BY Zenon DEF Forgotten, Restrict
<1> QED
  BY <1>1, Zenon DEF ForgottenIn, Known

\* A delete of the blocks of the heights of P leaves the parts of the others.
LEMMA ForgetKeeps ==
  ASSUME NEW d, NEW o, ObjInv(d, o), Whole(d), NEW P, ArePresent(d, P)
  PROVE  ObjInv(Without(d, RecordsIn(d, P)), Forgotten(o, RecordsIn(d, P)))
<1> DEFINE R == RecordsIn(d, P)
           d2 == Without(d, R)
           o2 == Forgotten(o, R)
<1>1. AreRecords(R)
  BY RecordsInAre, Zenon
<1>2. \A kind, id : IsRecord(kind, id) => KeptIn(d, d2, R, kind, id)
  BY <1>1, WithoutAt, Zenon
<1>3. \A kind, id : ForgottenIn(o, o2, R, kind, id)
  BY ForgottenAt, Zenon
<1>4. AllRecords(o2)
  BY Zenon DEF ObjInv, AllRecords, Forgotten, Restrict
<1>5. \A h \in Heights : <<"index", h>> \in R <=> h \in P
  BY HeightRecords, Zenon
<1>6. ASSUME NEW x, NEW kind \in {"block", "commit"}, <<kind, x>> \in R
      PROVE  IsIndexed(d, P, x)
  <2>1. <<kind, x>> \in RecordsIn(d, P)
    BY <1>6, Zenon
  <2> HIDE DEF R
  <2> QED
    BY <2>1, HashRecords, Zenon
<1> HIDE DEF R, d2, o2
<1>7. ASSUME NEW kind, NEW id, IsRecord(kind, id) PROVE ReadsAs(d2, o2, kind, id)
  <2>1. KeptIn(d, d2, R, kind, id) /\ ReadsAs(d, o, kind, id)
    BY <1>2, <1>7, Zenon DEF ObjInv, Agree
  <2> QED
    BY <1>3, <2>1, Zenon DEF ReadsAs, KeptIn, ForgottenIn
<1>8. ASSUME NEW h \in Heights, Holds(d2, "index", h) PROVE Known(o2, "index", h)
  <2>1. KeptIn(d, d2, R, "index", h)
    BY <1>2, Kinds, Zenon
  <2> QED
    BY <1>3, <1>8, <2>1, Zenon DEF KeptIn, ForgottenIn, ObjInv, IndexKnown
<1>9. Hashed(o2)
  BY <1>3, Zenon DEF ForgottenIn, ObjInv, Hashed
<1>10. ASSUME NEW h \in Heights, Known(o2, "index", h) PROVE Complete(o2, h, o2[<<"index", h>>])
  <2> DEFINE x == o[<<"index", h>>]
  <2>1. Known(o, "index", h) /\ h \notin P /\ o2[<<"index", h>>] = x
    BY <1>3, <1>5, <1>10, Zenon DEF ForgottenIn
  <2>2. Complete(o, h, x)
    BY <2>1, Zenon DEF ObjInv, Linked
  <2> HIDE DEF x
  <2>3. ASSUME NEW g \in P, x = d[Key("index", g)] PROVE FALSE
    <3>1. g \in Heights /\ Holds(d, "index", g) /\ IsRecord("index", g)
      BY Kinds, Zenon DEF ArePresent
    <3>2. Known(o, "index", g) /\ ReadsAs(d, o, "index", g)
      BY <3>1, Zenon DEF ObjInv, IndexKnown, Agree
    <3>3. Decode("index", x) = Ok(x)
      BY DEF Decode
    <3>4. o[<<"index", g>>] = x
      BY <2>3, <3>2, <3>3, OkIs, Zenon DEF ReadsAs
    <3>5. Complete(o, g, x)
      BY <3>1, <3>2, <3>4, Zenon DEF ObjInv, Linked
    <3> QED
      BY <2>1, <2>2, <3>5, Zenon DEF Complete
  <2>4. <<"block", x>> \notin R /\ <<"commit", x>> \notin R
    BY <1>6, <2>3, Zenon DEF IsIndexed
  <2> QED
    BY <1>3, <2>1, <2>2, <2>4, Zenon DEF Complete, ForgottenIn
<1> QED
  BY <1>4, <1>7, <1>8, <1>9, <1>10, Zenon DEF ObjInv, Agree, IndexKnown, Linked, R, d2, o2

\* A commit of such writes keeps the invariant.
LEMMA CommitRemembers ==
  ASSUME RInv, NEW ops, AllFaithful(ops), Commit(ops), batch' \in {batch, Absent}
  PROVE  RInv'
<1>1. ObjInv(db', objs')
  BY RememberKeeps, Zenon DEF RInv, Commit
<1> QED
  BY <1>1, Zenon DEF RInv

\* One write of something other than a block.
LEMMA OneFaithful ==
  ASSUME NEW op, Faithful(op), op.kind # "index"
  PROVE  AllFaithful(<<op>>)
<1>1. Len(<<op>>) = 1 /\ 1 \in Nat /\ DOMAIN <<op>> = 1..1 /\ \A i \in 1..1 : <<op>>[i] = op
  OBVIOUS
<1> QED
  BY <1>1, Zenon DEF AllFaithful, AreWrites, Faithful

\* SaveBlock writes a block with its commit.
LEMMA BlockFaithful ==
  ASSUME NEW e \in Blocks
  PROVE  AllFaithful(BlockOps(e))
<1> DEFINE ops == BlockOps(e)
           x == HashOf(e.block)
<1>1. /\ Len(ops) = 3 /\ DOMAIN ops = 1..3 /\ ops[1].kind = "block" /\ ops[1].id = x
      /\ ops[1].bytes = EncodeBlock(e.block) /\ ops[1].obj = e.block
      /\ ops[2].kind = "commit" /\ ops[2].id = x
      /\ ops[2].bytes = EncodeCommit(e.commit) /\ ops[2].obj = e.commit
      /\ ops[3].kind = "index" /\ ops[3].id = e.block.Header.Height
      /\ ops[3].bytes = x /\ ops[3].obj = x
  BY DEF BlockOps, Set
<1>2. /\ e.block.Header.Height \in Heights /\ IsHash(x)
      /\ DecodeBlock(EncodeBlock(e.block)) = Ok(e.block)
      /\ DecodeCommit(EncodeCommit(e.commit)) = Ok(e.commit)
  BY StoreConstants, RoundTrip, Zenon
<1>3. IsBlockAt(e.block, x)
  BY Zenon DEF IsBlockAt, Saved
<1> HIDE DEF ops, x
<1>4. \A bytes : /\ Decode("block", bytes) = DecodeBlock(bytes)
                  /\ Decode("commit", bytes) = DecodeCommit(bytes)
                  /\ Decode("index", bytes) = Ok(bytes)
  BY DEF Decode
<1>5. "commit" # "block" /\ "index" # "block" /\ "block" # "index" /\ "commit" # "index"
  OBVIOUS
<1>6. Faithful(ops[1])
  BY <1>1, <1>2, <1>3, <1>4, Kinds, Zenon DEF Faithful
<1>7. Faithful(ops[2])
  BY <1>1, <1>2, <1>4, <1>5, Kinds, Zenon DEF Faithful
<1>8. Faithful(ops[3])
  BY <1>1, <1>2, <1>4, <1>5, Kinds, Zenon DEF Faithful
<1>9. /\ \A i \in 1..3 : i = 1 \/ i = 2 \/ i = 3
      /\ 1 \in 1..3 /\ 2 \in 1..3 /\ 3 \in Nat
  OBVIOUS
<1>10. Brings(ops, ops[3].id, ops[3].obj)
  BY <1>1, <1>9, Zenon DEF Brings
<1>11. \A i \in DOMAIN ops : Faithful(ops[i])
  BY <1>1, <1>6, <1>7, <1>8, <1>9, Zenon
<1>12. AreWrites(ops)
  BY <1>1, <1>9, <1>11, Zenon DEF AreWrites, Faithful
<1> QED
  BY <1>1, <1>5, <1>9, <1>10, <1>11, <1>12, Zenon DEF AllFaithful, ops

\* An old release did too.
LEMMA OldFaithful ==
  AllFaithful(OldWrites)
<1>1. \A i \in DOMAIN OldWrites :
        Decode(OldWrites[i].kind, OldWrites[i].bytes) = Ok(OldWrites[i].obj)
  BY RoundTrip, Zenon
<1>2. \A bytes : Decode("index", bytes) = Ok(bytes)
  BY DEF Decode
<1>3. ASSUME NEW i \in DOMAIN OldWrites
      PROVE  /\ Faithful(OldWrites[i])
             /\ OldWrites[i].kind = "index" =>
                  Brings(OldWrites, OldWrites[i].id, OldWrites[i].obj)
  <2> DEFINE w == OldWrites[i]
  <2>1. \/ w.kind = "block" /\ w.id = HashOf(w.obj) /\ IsHash(w.id)
        \/ w.kind = "commit" /\ IsHash(w.id)
        \/ w.kind = "index" /\ w.id \in Heights /\ Brings(OldWrites, w.id, w.bytes)
        \/ w.kind = "state" /\ w.id = 0
    BY OldStore, Zenon DEF Brings
  <2>2. w.kind = "block" => w.obj \in Saved
    BY Zenon DEF Saved
  <2>3. Decode(w.kind, w.bytes) = Ok(w.obj)
    BY <1>1, Zenon
  <2> HIDE DEF w
  <2>4. w.kind = "index" => w.bytes = w.obj
    BY <1>2, <2>3, OkIs, Zenon
  <2>5. IsRecord(w.kind, w.id)
    BY <2>1, Kinds, Zenon
  <2>6. w.kind = "block" => IsBlockAt(w.obj, w.id)
    BY <2>1, <2>2, Zenon DEF IsBlockAt
  <2>7. w.kind = "index" => Brings(OldWrites, w.id, w.obj)
    BY <2>1, <2>4, Zenon
  <2> QED
    BY <2>3, <2>5, <2>6, <2>7, Zenon DEF Faithful, w
<1>4. AreWrites(OldWrites)
  BY <1>3, OldStore, Zenon DEF AreWrites, Faithful
<1> QED
  BY <1>3, <1>4, Zenon DEF AllFaithful

\* A write into the batch keeps the invariant.
LEMMA BatchRemembers ==
  ASSUME SInv, RInv, NEW op, Faithful(op), Write(<<op>>, "batch")
  PROVE  RInv'
<1>1. batch # Absent /\ batch' = batch \o <<op>> /\ db' = db /\ objs' = objs
  BY WriteToBatch, Zenon
<1>2. Appended(batch, op, batch')
  BY <1>1, AppendOne, Zenon DEF SInv, WriteBatchInv
<1>3. \A i \in DOMAIN batch : Faithful(batch[i])
  BY <1>1, Zenon DEF RInv
<1>4. \A i \in DOMAIN batch' : Faithful(batch'[i])
  BY <1>2, <1>3, Zenon DEF Appended
<1> QED
  BY <1>1, <1>4, Zenon DEF RInv

\* SaveBlockResponses and SaveValidators keep it.
LEMMA ContentRemembers ==
  ASSUME SInv, RInv, NEW h \in LastSaved, NEW c \in Contents,
         SaveBlockResponses(h, c) \/ SaveValidators(h, c)
  PROVE  RInv'
<1>1. h \in Heights
  BY Zenon DEF LastSaved, SInv
<1>2. PICK kind \in {"responses", "validators"} :
        Write(<<Set(kind, h, EncodeContent(c), c)>>, "batch")
  BY Zenon DEF SaveBlockResponses, SaveValidators, ContentOps
<1> DEFINE op == Set(kind, h, EncodeContent(c), c)
<1>3. op.kind = kind /\ op.id = h /\ op.bytes = EncodeContent(c) /\ op.obj = c
  BY DEF Set
<1>4. Decode(kind, EncodeContent(c)) = DecodeContent(EncodeContent(c)) /\ kind # "block"
  BY <1>2 DEF Decode
<1>5. DecodeContent(EncodeContent(c)) = Ok(c)
  BY RoundTrip, Zenon
<1>6. IsRecord(kind, h)
  BY <1>1, <1>2, Kinds, Zenon
<1>7. Write(<<op>>, "batch")
  BY <1>2, Zenon
<1> HIDE DEF op
<1>8. Faithful(op)
  BY <1>3, <1>4, <1>5, <1>6, Zenon DEF Faithful
<1> QED
  BY <1>7, <1>8, BatchRemembers, Zenon

\* UpdateState keeps it, as its state is at most one block ahead of the store.
LEMMA UpdateStateRemembers ==
  ASSUME SInv, RInv, NEW s \in States, NEW b \in 0..base, NEW into \in {"batch", "db"},
         UpdateState(s, b, into)
  PROVE  RInv'
<1> DEFINE t == WithHeights(s, height, b)
           op == Set("state", 0, EncodeState(t), t)
<1>1. DecodeState(EncodeState(t)) = Ok(t)
  <2>1. b \in 0..height
    BY StoreNumbers
  <2> QED
    BY <2>1, RoundTrip, Zenon DEF UpdateState, SInv
<1>2. Write(<<op>>, into)
  BY Zenon DEF UpdateState, StateOps
<1> HIDE DEF t
<1>3. op.kind = "state" /\ op.id = 0 /\ op.bytes = EncodeState(t) /\ op.obj = t
  BY DEF Set
<1> HIDE DEF op
<1>4. /\ Decode("state", EncodeState(t)) = DecodeState(EncodeState(t))
      /\ "state" # "block" /\ "state" # "index"
  BY DEF Decode
<1>5. Faithful(op) /\ op.kind # "index"
  BY <1>1, <1>3, <1>4, Kinds, Zenon DEF Faithful
<1>6. CASE into = "batch"
  BY <1>2, <1>5, <1>6, BatchRemembers, Zenon
<1>7. CASE into = "db"
  BY <1>2, <1>5, <1>7, WriteToDB, OneFaithful, CommitRemembers, Zenon
<1> QED
  BY <1>6, <1>7, Zenon

\* CommitBatch keeps it: the batch holds no index.
LEMMA CommitBatchRemembers ==
  ASSUME SInv, RInv, CommitBatch
  PROVE  RInv'
<1>1. batch # Absent /\ Commit(batch) /\ batch' = Absent
  BY Zenon DEF CommitBatch
<1>2. WriteBatchInv(db, base, batch) /\ \A i \in DOMAIN batch : Faithful(batch[i])
  BY <1>1, Zenon DEF SInv, RInv
<1>3. Len(batch) \in Nat /\ DOMAIN batch = 1..Len(batch)
  <2>1. batch \in Seq(Range(batch))
    BY <1>2, Zenon DEF WriteBatchInv
  <2> QED
    BY <2>1
<1>4. \A op : Batched(db, base, op) => op.kind # "index"
  BY DEF Batched
<1>5. AllFaithful(batch)
  BY <1>2, <1>3, <1>4, Zenon DEF WriteBatchInv, AllFaithful, AreWrites, Faithful
<1> QED
  BY <1>1, <1>5, CommitRemembers, Zenon

\* Pruning deletes the same of the bytes and of the objects.
LEMMA PruneRemembers ==
  ASSUME SInv, RInv, prune # Absent, NEW h \in Int, h < prune.target,
         Delete(UNION {RecordsOf(g) : g \in Present(h)}), batch' = batch
  PROVE  RInv'
<1>1. PrunedBelow(h)
  BY PruneDeletes, Zenon
<1>2. Whole(db) /\ ObjInv(db, objs)
  BY Zenon DEF SInv, DataInv, RInv
<1>3. ObjInv(db', objs')
  BY <1>1, <1>2, ForgetKeeps, Zenon DEF PrunedBelow
<1> QED
  BY <1>3, Zenon DEF RInv

\* PruneFlush keeps the invariant.
LEMMA PruneFlushRemembers ==
  ASSUME SInv, RInv, NEW h, PruneFlush(h)
  PROVE  RInv'
<1>1. /\ prune # Absent /\ h \in prune.next..(prune.target - 1)
      /\ Delete(UNION {RecordsOf(g) : g \in Present(h)}) /\ batch' = batch
  BY Zenon DEF PruneFlush, Present
<1>2. prune \in [next : Nat, target : Nat]
  BY <1>1, Zenon DEF SInv, PruneInv
<1>3. h \in Int /\ h < prune.target
  BY <1>1, <1>2
<1> QED
  BY <1>1, <1>3, PruneRemembers, Zenon

\* PruneEnd keeps it.
LEMMA PruneEndRemembers ==
  ASSUME SInv, RInv, PruneEnd
  PROVE  RInv'
<1> DEFINE h == prune.target - 1
<1>1. /\ prune # Absent /\ Delete(UNION {RecordsOf(g) : g \in Present(h)}) /\ batch' = batch
  BY Zenon DEF PruneEnd
<1>2. prune \in [next : Nat, target : Nat]
  BY <1>1, Zenon DEF SInv, PruneInv
<1>3. h \in Int /\ h < prune.target
  BY <1>2
<1> HIDE DEF h
<1> QED
  BY <1>1, <1>3, PruneRemembers, Zenon

\* A new store, and that of an old release, read back what was written.
LEMMA RememberStarts ==
  ASSUME StoreInit
  PROVE  RInv
<1>1. PICK ops \in {<<>>, OldWrites} : db = Stored(<<>>, ops) /\ objs = Remembered(<<>>, ops)
  BY Zenon DEF StoreInit
<1>2. batch = Absent
  BY Zenon DEF StoreInit
<1>3. AllFaithful(ops)
  <2>1. CASE ops = <<>>
    <3>1. Len(<<>>) = 0 /\ 0 \in Nat /\ DOMAIN <<>> = 1..0 /\ 1..0 = {}
      OBVIOUS
    <3> QED
      BY <2>1, <3>1, Zenon DEF AllFaithful, AreWrites
  <2>2. CASE ops = OldWrites
    BY <2>2, OldFaithful, Zenon
  <2> QED
    BY <1>1, <2>1, <2>2, Zenon
<1>4. ObjInv(<<>>, <<>>)
  <2>1. \A k : k \notin DOMAIN <<>>
    OBVIOUS
  <2> QED
    BY <2>1, Zenon DEF ObjInv, AllRecords, Agree, ReadsAs, IndexKnown, Hashed, Linked, Known, Holds
<1> QED
  BY <1>1, <1>2, <1>3, <1>4, RememberKeeps, Zenon DEF RInv

\* No step of the store changes what is read other than by a write.
LEMMA RememberStep ==
  ASSUME SInv, RInv, [StoreNext]_storeVars
  PROVE  RInv'
<1>1. CASE \E e \in Blocks : SaveBlock(e)
  BY <1>1, WriteToDB, BlockFaithful, CommitRemembers, Zenon DEF SaveBlock
<1>2. CASE \E h \in LastSaved, c \in Contents : SaveBlockResponses(h, c) \/ SaveValidators(h, c)
  BY <1>2, ContentRemembers, Zenon
<1>3. CASE \E s \in States, b \in 0..base, into \in {"batch", "db"} : UpdateState(s, b, into)
  BY <1>3, UpdateStateRemembers, Zenon
<1>4. CASE NewBatch
  <2>1. DOMAIN <<>> = {}
    OBVIOUS
  <2> QED
    BY <1>4, <2>1, Zenon DEF NewBatch, RInv
<1>5. CASE CommitBatch
  BY <1>5, CommitBatchRemembers, Zenon
<1>6. CASE Crash
  BY <1>6, Zenon DEF Crash, RInv
<1>7. CASE \E h \in 1..height : PruneBlocks(h)
  BY <1>7, Zenon DEF PruneBlocks, RInv
<1>8. CASE \E h \in 0..height : PruneFlush(h)
  BY <1>8, PruneFlushRemembers, Zenon
<1>9. CASE PruneEnd
  BY <1>9, PruneEndRemembers, Zenon
<1>10. CASE UNCHANGED storeVars
  BY <1>10, Zenon DEF storeVars, RInv
<1> QED
  BY <1>1, <1>2, <1>3, <1>4, <1>5, <1>6, <1>7, <1>8, <1>9, <1>10, Zenon DEF StoreNext

\* Get returns the bytes.
LEMMA Gets ==
  ASSUME NEW kind, NEW id, Holds(db, kind, id)
  PROVE  /\ Get(kind, id) = Ok(db[Key(kind, id)])
         /\ Get(kind, id).err = "" /\ Get(kind, id).val = db[Key(kind, id)]
<1>1. \A v : Ok(v).err = "" /\ Ok(v).val = v
  BY DEF Ok
<1> QED
  BY <1>1, Zenon DEF Get, Holds

\* Each load decodes them into the object.
LEMMA Loads ==
  ASSUME SInv, RInv, NEW kind, NEW id, IsRecord(kind, id), Known(objs, kind, id)
  PROVE  /\ kind \notin {"block", "commit"} => Load(kind, id) = Ok(objs[<<kind, id>>])
         /\ kind = "block" => LoadBlockByHash(id) = Ok(objs[<<kind, id>>])
         /\ kind = "commit" => LoadCommitByHash(id) = Ok(objs[<<kind, id>>])
<1> DEFINE bytes == db[Key(kind, id)]
<1>1. Holds(db, kind, id) /\ Decode(kind, bytes) = Ok(objs[<<kind, id>>])
  BY Zenon DEF RInv, ObjInv, Agree, ReadsAs
<1>2. Get(kind, id) = Ok(bytes) /\ Get(kind, id).err = "" /\ Get(kind, id).val = bytes
  BY <1>1, Gets, Zenon
<1> HIDE DEF bytes
<1>3. kind \in {"block", "commit", "index", "responses", "validators", "state"}
  BY Zenon DEF IsRecord
<1>4. CASE kind = "index"
  <2>1. id \in Heights
    BY <1>4 DEF IsRecord
  <2>2. LoadHashFromIndex(id) = Ok(bytes)
    <3>1. LoadHashFromIndex(id).err = ""
      BY <1>1, <1>4, <2>1, IndexReads, Zenon DEF SInv, DataInv
    <3>2. Err("length").err # ""
      BY DEF Err
    <3> QED
      BY <1>2, <1>4, <3>1, <3>2, Zenon DEF LoadHashFromIndex
  <2>3. Load(kind, id) = LoadHashFromIndex(id) /\ Decode(kind, bytes) = Ok(bytes)
    BY <1>4 DEF Load, Decode
  <2> QED
    BY <1>1, <1>4, <2>2, <2>3, Zenon
<1>5. CASE kind = "responses"
  <2>1. Load(kind, id) = LoadContent(kind, id) /\ Decode(kind, bytes) = DecodeContent(bytes)
    BY <1>5 DEF Load, Decode, LoadBlockResponses
  <2> QED
    BY <1>1, <1>2, <1>5, <2>1, Zenon DEF LoadContent
<1>6. CASE kind = "validators"
  <2>1. Load(kind, id) = LoadContent(kind, id) /\ Decode(kind, bytes) = DecodeContent(bytes)
    BY <1>6 DEF Load, Decode, LoadValidators
  <2> QED
    BY <1>1, <1>2, <1>6, <2>1, Zenon DEF LoadContent
<1>7. CASE kind = "state"
  <2>1. Load(kind, id) = ReadState /\ Decode(kind, bytes) = DecodeState(bytes) /\ id = 0
    BY <1>7 DEF Load, Decode, IsRecord
  <2> QED
    BY <1>1, <1>2, <1>7, <2>1, Zenon DEF ReadState
<1>8. CASE kind = "block"
  <2>1. Decode(kind, bytes) = DecodeBlock(bytes)
    BY <1>8 DEF Decode
  <2> QED
    BY <1>1, <1>2, <1>8, <2>1, Zenon DEF LoadBlockByHash
<1>9. CASE kind = "commit"
  <2>1. Decode(kind, bytes) = DecodeCommit(bytes)
    BY <1>9 DEF Decode
  <2> QED
    BY <1>1, <1>2, <1>9, <2>1, Zenon DEF LoadCommitByHash
<1> QED
  BY <1>3, <1>4, <1>5, <1>6, <1>7, <1>8, <1>9, Zenon

\* The invariant implies ReadBack.
LEMMA SavedIsRead ==
  ASSUME SInv, RInv
  PROVE  ReadBack
<1>1. \A k \in DOMAIN objs : /\ k = <<k[1], k[2]>> /\ IsRecord(k[1], k[2])
                             /\ Known(objs, k[1], k[2])
  BY Zenon DEF RInv, ObjInv, AllRecords, Known
<1>2. ASSUME NEW k \in DOMAIN objs, k[1] \notin {"block", "commit"}
      PROVE  Load(k[1], k[2]) = Ok(objs[k])
  <2>1. k = <<k[1], k[2]>> /\ IsRecord(k[1], k[2]) /\ Known(objs, k[1], k[2])
    BY <1>1, Zenon
  <2>2. Load(k[1], k[2]) = Ok(objs[<<k[1], k[2]>>])
    BY <1>2, <2>1, Loads, Zenon
  <2> QED
    BY <2>1, <2>2, Zenon
<1>3. ASSUME NEW k \in DOMAIN objs, k[1] = "index"
      PROVE  \A block \in {LoadBlock(k[2])} :
               /\ block = Ok(objs[<<"block", objs[k]>>])
               /\ LoadCommit(k[2]) = Ok(objs[<<"commit", objs[k]>>])
               /\ block.val.Header.Height = k[2]
               /\ BlockIDOf(block.val) = objs[k]
  <2> DEFINE h == k[2]
             x == objs[k]
  <2>1. k = <<"index", h>> /\ IsRecord("index", h) /\ Known(objs, "index", h)
    BY <1>1, <1>3, Zenon
  <2>2. h \in Heights
    BY <2>1 DEF IsRecord
  <2>3. LoadHashFromIndex(h) = Ok(x)
    <3>1. Load(k[1], h) = Ok(x)
      <4>1. "index" \notin {"block", "commit"}
        OBVIOUS
      <4> QED
        BY <1>2, <1>3, <4>1, Zenon
    <3>2. Load("index", h) = LoadHashFromIndex(h)
      BY DEF Load
    <3> QED
      BY <1>3, <3>1, <3>2, Zenon
  <2>4. Complete(objs, h, x)
    BY <2>1, <2>2, Zenon DEF RInv, ObjInv, Linked
  <2> HIDE DEF h, x
  <2>5. IsRecord("block", x) /\ IsRecord("commit", x)
    <3>1. /\ <<"block", x>>[1] = "block" /\ <<"block", x>>[2] = x
          /\ <<"commit", x>>[1] = "commit" /\ <<"commit", x>>[2] = x
      OBVIOUS
    <3> QED
      BY <1>1, <2>4, <3>1, Zenon DEF Complete, Known
  <2>6. /\ LoadBlockByHash(x) = Ok(objs[<<"block", x>>])
        /\ LoadCommitByHash(x) = Ok(objs[<<"commit", x>>])
    BY <2>4, <2>5, Loads, Zenon DEF Complete
  <2>7. \A v : Ok(v).err = "" /\ Ok(v).val = v
    BY DEF Ok
  <2>8. LoadBlock(h) = Ok(objs[<<"block", x>>]) /\ LoadCommit(h) = Ok(objs[<<"commit", x>>])
    BY <2>3, <2>6, <2>7, Zenon DEF LoadBlock, LoadCommit
  <2>9. BlockIDOf(objs[<<"block", x>>]) = x
    BY <2>4, Hashes, Zenon DEF RInv, ObjInv, Hashed, Complete, IsBlockAt
  <2> QED
    BY <2>4, <2>7, <2>8, <2>9, Zenon DEF Complete, h, x
<1> QED
  BY <1>2, <1>3, Zenon DEF ReadBack

\* Every load returns what was saved last, and a block found at a height is of that height,
\* has its commit, and has the hash it was saved under: whatever was committed, lost with
\* a batch or pruned before, from the store of an old release too, for every encoding
\* that is undone by its decoding and every hash that tells the heights apart.
THEOREM StoreReadsBack == StoreSpec => []ReadBack
<1>1. StoreInit => SInv /\ RInv
  BY StoreStarts, RememberStarts, Zenon
<1>2. SInv /\ RInv /\ [StoreNext]_storeVars => (SInv /\ RInv)'
  BY StoreStep, RememberStep, Zenon
<1>3. SInv /\ RInv => ReadBack
  BY SavedIsRead, Zenon
<1> QED
  BY <1>1, <1>2, <1>3, PTL DEF StoreSpec

-----------------------------------------------------------------------------
(* The indexer service *)

Results == UNION {{TxResult(h, n) : n \in 1..NumTxs(h)} : h \in 1..Len(Chain)}

\* How many transactions of height h the bus has published, up to its last header.
Sent(h) == IF h = bus.height THEN bus.sent ELSE NumTxs(h)

\* The heights of which the service has a header, and transactions to take.
Awaited == Range(headers) \cup (IF service.pc = "txs" THEN {service.height} ELSE {})

\* The next transaction of height h that the service takes.
Start(h) == IF service.pc = "txs" /\ service.height = h THEN NumTxs(h) - service.left + 1 ELSE 1

\* Result r is published before transaction n of height h.
Before(r, h, n) == r.height < h \/ (r.height = h /\ r.index < n)

Typed ==
  /\ bus \in [height : 0..Len(Chain), sent : Nat] /\ bus.sent <= NumTxs(bus.height)
  /\ headers \in Seq(Nat)
  /\ txs \in Seq(Results)
  /\ service \in [pc : {"header", "txs", "block", "batch"}, height : Nat, left : Nat, batch : SUBSET Results]

\* The headers wait in order, after the one the service works on.
HeadersInv ==
  /\ \A i \in 1..Len(headers) : headers[i] \in 1..bus.height
  /\ \A i, j \in 1..Len(headers) : i < j => headers[i] < headers[j]
  /\ service.pc # "header" =>
       service.height \in 1..bus.height /\ \A i \in 1..Len(headers) : service.height < headers[i]

\* The service has the first transactions of its block, and only published ones.
BatchInv ==
  /\ service.pc = "txs" => service.left \in 1..NumTxs(service.height)
  /\ service.pc \in {"block", "batch"} => service.left = 0
  /\ service.pc # "header" =>
       LET taken == NumTxs(service.height) - service.left
       IN  /\ service.batch = {TxResult(service.height, n) : n \in 1..taken}
           /\ taken <= Sent(service.height)

\* Transactions to be published belong to a block that is awaited, unless the bus has
\* cancelled the subscription of the headers.
BusInv == bus.sent < NumTxs(bus.height) => bus.height \in Awaited \/ "header" \notin open

\* Transaction n of height h is published and not taken: it is one of an awaited block
\* or, if the headers are cancelled, of a block after all of those.
Untaken(h, n) ==
  /\ h <= bus.height /\ n <= Sent(h)
  /\ \/ h \in Awaited /\ n >= Start(h)
     \/ /\ "header" \notin open
        /\ \A g \in Awaited : g < h
        /\ service.pc # "header" => service.height < h

UntakenInv == \A i \in 1..Len(txs) : Untaken(txs[i].height, txs[i].index)

\* The buffer is in the order of publication.
OrderInv ==
  \A i, j \in 1..Len(txs) : i < j => Before(txs[i], txs[j].height, txs[j].index)

Buffer(h, n) == \E i \in 1..Len(txs) : txs[i] = TxResult(h, n)

\* The subscription was cancelled before transaction n of height h, and all that follow.
Missed(h, n) == "tx" \notin open /\ h \in lost /\ \A i \in 1..Len(txs) : Before(txs[i], h, n)

\* Each published transaction that the service has yet to take is in the buffer or missed.
CompleteInv == \A h \in Awaited : \A n \in Start(h)..Sent(h) : Buffer(h, n) \/ Missed(h, n)

\* Each published block that is not lost has gone through the service, or has its header
\* in the buffer, or is the one the service works on.
IndexedInv ==
  \A h \in (1..bus.height) \ lost :
    LET blockIn == Has(h) \/ ReservedKey(h)
    IN  \/ blockIn /\ \A n \in 1..NumTxs(h) : TxResult(h, n) \in txIndex.results
        \/ h \in Range(headers)
        \/ service.pc # "header" /\ service.height = h /\ (service.pc = "batch" => blockIn)

\* The inductive invariant.
ServiceInv ==
  /\ Typed /\ HeadersInv /\ BatchInv /\ BusInv
  /\ UntakenInv /\ OrderInv /\ CompleteInv /\ IndexedInv

-----------------------------------------------------------------------------
(* The operators. *)

LEMMA NumTxsNat ==
  ASSUME NEW h \in 0..Len(Chain)
  PROVE  NumTxs(h) \in Nat
  BY ChainAssumption DEF NumTxs

LEMMA SameResult ==
  ASSUME NEW h, NEW n
  PROVE  TxResult(h, n).height = h /\ TxResult(h, n).index = n
  BY Zenon DEF TxResult

LEMMA ResultFields ==
  ASSUME NEW r \in Results
  PROVE  /\ r.height \in 1..Len(Chain) /\ r.index \in 1..NumTxs(r.height)
         /\ r = TxResult(r.height, r.index)
<1>1. PICK h \in 1..Len(Chain) : r \in {TxResult(h, n) : n \in 1..NumTxs(h)}
  BY Zenon DEF Results
<1>2. PICK n \in 1..NumTxs(h) : r = TxResult(h, n)
  BY <1>1, Zenon
<1> QED
  BY <1>2, SameResult, Zenon

LEMMA TailFacts ==
  ASSUME NEW S, NEW q \in Seq(S), q # <<>>
  PROVE  /\ Len(q) \in Nat /\ Len(q) >= 1 /\ Head(q) = q[1] /\ q[1] \in S
         /\ Tail(q) \in Seq(S) /\ Len(Tail(q)) = Len(q) - 1
         /\ \A i \in 1..Len(Tail(q)) : i + 1 \in 1..Len(q) /\ Tail(q)[i] = q[i + 1]
  OBVIOUS

LEMMA AppendFacts ==
  ASSUME NEW S, NEW q \in Seq(S), NEW x \in S, NEW p, p = Append(q, x)
  PROVE  /\ Len(q) \in Nat
         /\ p \in Seq(S) /\ Len(p) = Len(q) + 1
         /\ \A i \in 1..Len(q) : p[i] = q[i] /\ i \in 1..Len(p)
         /\ p[Len(q) + 1] = x /\ Len(q) + 1 \in 1..Len(p)
         /\ \A i \in 1..Len(p) : i \in 1..Len(q) \/ i = Len(q) + 1
  OBVIOUS

LEMMA RangeIs ==
  ASSUME NEW q \in Seq(Nat), NEW x
  PROVE  x \in Range(q) <=> \E i \in 1..Len(q) : q[i] = x
<1>1. DOMAIN q = 1..Len(q)
  OBVIOUS
<1> QED
  BY <1>1, Zenon DEF Range

LEMMA AwaitedIs ==
  ASSUME Typed, NEW h
  PROVE  h \in Awaited <=> \/ \E i \in 1..Len(headers) : headers[i] = h
                           \/ service.pc = "txs" /\ service.height = h
<1>1. h \in Range(headers) <=> \E i \in 1..Len(headers) : headers[i] = h
  BY RangeIs, Zenon DEF Typed
<1> QED
  BY <1>1, Zenon DEF Awaited

LEMMA AwaitedIsNext ==
  ASSUME Typed', NEW h
  PROVE  h \in Awaited' <=> \/ \E i \in 1..Len(headers') : headers'[i] = h
                            \/ service'.pc = "txs" /\ service'.height = h
<1>1. h \in Range(headers') <=> \E i \in 1..Len(headers') : headers'[i] = h
  BY RangeIs, Zenon DEF Typed
<1> QED
  BY <1>1, Zenon DEF Awaited

\* The service works on the first awaited block.
LEMMA AwaitedOrder ==
  ASSUME Typed, HeadersInv, NEW h \in Awaited
  PROVE  /\ h \in 1..bus.height
         /\ service.pc # "header" => h >= service.height
<1>1. \/ \E i \in 1..Len(headers) : headers[i] = h
      \/ service.pc = "txs" /\ service.height = h
  BY AwaitedIs, Zenon
<1>2. CASE \E i \in 1..Len(headers) : headers[i] = h
  <2>1. /\ h \in 1..bus.height
        /\ service.pc # "header" => service.height < h
    BY <1>2, Zenon DEF HeadersInv
  <2>2. service.height \in Nat /\ bus.height \in Nat
    BY DEF Typed
  <2> QED
    BY <2>1, <2>2
<1>3. CASE service.pc = "txs" /\ service.height = h
  BY <1>3 DEF HeadersInv, Typed
<1> QED
  BY <1>1, <1>2, <1>3, Zenon

\* The facts about numbers that the steps need.
LEMMA Numbers ==
  ASSUME Typed
  PROVE  /\ Len(Chain) \in Nat /\ bus.height \in 0..Len(Chain) /\ bus.sent \in Nat
         /\ NumTxs(bus.height) \in Nat /\ bus.sent <= NumTxs(bus.height)
         /\ \A h \in 1..bus.height : h \in 0..Len(Chain) /\ NumTxs(h) \in Nat /\ Sent(h) \in Nat
                                     /\ Sent(h) <= NumTxs(h)
         /\ service.height \in Nat /\ service.left \in Nat
<1>1. Len(Chain) \in Nat /\ bus.height \in 0..Len(Chain) /\ bus.sent \in Nat
  BY ChainAssumption, Zenon DEF Typed
<1>2. \A h \in 1..bus.height : h \in 0..Len(Chain)
  BY <1>1
<1>3. NumTxs(bus.height) \in Nat /\ \A h \in 1..bus.height : NumTxs(h) \in Nat
  BY <1>1, <1>2, NumTxsNat, Zenon
<1> QED
  BY <1>1, <1>2, <1>3 DEF Typed, Sent

\* A result of the buffer.
LEMMA Buffered ==
  ASSUME Typed, UntakenInv, NEW i \in 1..Len(txs)
  PROVE  /\ txs[i] \in Results /\ txs[i] = TxResult(txs[i].height, txs[i].index)
         /\ txs[i].height \in 1..bus.height /\ txs[i].index \in 1..NumTxs(txs[i].height)
         /\ txs[i].index <= Sent(txs[i].height)
<1>1. txs[i] \in Results
  BY DEF Typed
<1>2. /\ txs[i].height \in 1..Len(Chain) /\ txs[i].index \in 1..NumTxs(txs[i].height)
      /\ txs[i] = TxResult(txs[i].height, txs[i].index)
  BY <1>1, ResultFields, Zenon
<1>3. txs[i].height <= bus.height /\ txs[i].index <= Sent(txs[i].height)
  BY Zenon DEF UntakenInv, Untaken
<1> QED
  BY <1>1, <1>2, <1>3, Numbers

LEMMA ResultIn ==
  ASSUME NEW h \in 1..Len(Chain), NEW n \in 1..NumTxs(h)
  PROVE  TxResult(h, n) \in Results
<1>1. TxResult(h, n) \in {TxResult(h, k) : k \in 1..NumTxs(h)}
  BY Zenon
<1> QED
  BY <1>1, Zenon DEF Results

-----------------------------------------------------------------------------
(* What the service takes from the buffer is what it waits for. *)

LEMMA HeadIsNext ==
  ASSUME ServiceInv, service.pc = "txs", txs # <<>>
  PROVE  /\ Head(txs) = txs[1] /\ 1 \in 1..Len(txs)
         /\ txs[1].height = service.height /\ txs[1].index = Start(service.height)
<1> DEFINE h == service.height
           n == Start(service.height)
<1>0. Typed /\ HeadersInv /\ BatchInv /\ UntakenInv /\ OrderInv /\ CompleteInv
  BY Zenon DEF ServiceInv
<1>1. Head(txs) = txs[1] /\ Len(txs) \in Nat /\ 1 \in 1..Len(txs)
  BY <1>0, TailFacts DEF Typed
<1>2. h \in Awaited /\ h \in 1..bus.height /\ NumTxs(h) \in Nat /\ n \in 1..NumTxs(h)
  BY <1>0, AwaitedIs, Numbers DEF HeadersInv, BatchInv, Start
<1>3. /\ txs[1].height \in 1..bus.height /\ txs[1].index \in 1..NumTxs(txs[1].height)
      /\ txs[1].index <= Sent(txs[1].height)
  BY <1>0, <1>1, Buffered, Zenon
<1>4. /\ txs[1].height >= h
      /\ txs[1].height = h => txs[1].index >= n
  <2>1. CASE txs[1].height \in Awaited /\ txs[1].index >= Start(txs[1].height)
    BY <1>0, <2>1, AwaitedOrder, Zenon
  <2>2. CASE \A g \in Awaited : g < txs[1].height
    <3>1. h < txs[1].height
      BY <1>2, <2>2, Zenon
    <3> QED
      BY <3>1, <1>2, <1>3
  <2> QED
    BY <1>0, <1>1, <2>1, <2>2, Zenon DEF UntakenInv, Untaken
<1>5. CASE n <= Sent(h)
  <2>1. n \in Start(h)..Sent(h)
    BY <1>0, <1>2, <1>5, Numbers
  <2>2. CASE Buffer(h, n)
    <3>1. PICK i \in 1..Len(txs) : txs[i] = TxResult(h, n)
      BY <2>2, Zenon DEF Buffer
    <3>2. txs[i].height = h /\ txs[i].index = n
      BY <3>1, SameResult
    <3>3. i # 1 => Before(txs[1], h, n)
      BY <1>0, <1>1, <3>2 DEF OrderInv
    <3> QED
      BY <1>1, <1>2, <1>3, <1>4, <3>2, <3>3 DEF Before
  <2>3. CASE Missed(h, n)
    BY <1>1, <1>2, <1>3, <1>4, <2>3 DEF Before, Missed
  <2> QED
    BY <1>0, <1>2, <2>1, <2>2, <2>3, Zenon DEF CompleteInv
<1>6. CASE n > Sent(h)
  <2>1. h = bus.height
    BY <1>2, <1>6 DEF Sent
  <2>2. txs[1].height = h
    BY <1>0, <1>2, <1>3, <1>4, <2>1, Numbers
  <2> QED
    BY <1>0, <1>2, <1>3, <1>4, <1>6, <2>2, Numbers
<1> QED
  BY <1>0, <1>1, <1>2, <1>5, <1>6, Numbers

-----------------------------------------------------------------------------
(* The steps. *)

LEMMA InitInv == IndexInit => ServiceInv
<1> SUFFICES ASSUME IndexInit PROVE ServiceInv
  BY Zenon
<1>1. /\ bus.height = 0 /\ bus.sent = 0 /\ headers = <<>> /\ txs = <<>>
      /\ service.pc = "header" /\ service \in [pc : {"header"}, height : {0}, left : {0}, batch : {{}}]
      /\ bus \in [height : {0}, sent : {0}]
  BY Zenon DEF IndexInit, AtHeader
<1>2. Len(headers) = 0 /\ Len(txs) = 0
  BY <1>1, Zenon
<1>3. NumTxs(0) = 0
  BY Zenon DEF NumTxs
<1>4. Typed
  BY <1>1, <1>3, ChainAssumption DEF Typed
<1>5. HeadersInv /\ UntakenInv /\ OrderInv /\ IndexedInv
  BY <1>1, <1>2 DEF HeadersInv, UntakenInv, OrderInv, IndexedInv
<1>6. BatchInv /\ BusInv
  BY <1>1, <1>3 DEF BatchInv, BusInv
<1>7. CompleteInv
  BY <1>1, <1>2, <1>4, AwaitedIs DEF CompleteInv
<1> QED
  BY <1>4, <1>5, <1>6, <1>7, Zenon DEF ServiceInv

LEMMA StutterInv ==
  ASSUME ServiceInv, UNCHANGED indexVars
  PROVE  ServiceInv'
<1>0. Typed /\ HeadersInv /\ BatchInv /\ BusInv /\ UntakenInv /\ OrderInv /\ CompleteInv /\ IndexedInv
  BY Zenon DEF ServiceInv
<1>1. UNCHANGED <<bus, headers, txs, open, service, txIndex, blockIndex, lost>>
  BY Zenon DEF indexVars
<1>2. /\ Awaited' = Awaited
      /\ \A h : Sent(h)' = Sent(h) /\ Start(h)' = Start(h) /\ Has(h)' = Has(h)
  BY <1>1, Zenon DEF Awaited, Sent, Start, Has
<1>3. Typed' /\ HeadersInv' /\ BusInv' /\ OrderInv' /\ IndexedInv'
  BY <1>0, <1>1, <1>2, Zenon DEF Typed, HeadersInv, BusInv, OrderInv, IndexedInv
<1>4. BatchInv'
  BY <1>0, <1>1, Zenon DEF BatchInv, Sent
<1>5. \A h, n : Untaken(h, n)' = Untaken(h, n) /\ Buffer(h, n)' = Buffer(h, n) /\ Missed(h, n)' = Missed(h, n)
  BY <1>1, <1>2, Zenon DEF Untaken, Buffer, Missed
<1> QED
  BY <1>0, <1>1, <1>2, <1>3, <1>4, <1>5, Zenon DEF ServiceInv, UntakenInv, CompleteInv

LEMMA PublishHeaderInv ==
  ASSUME ServiceInv, PublishHeader
  PROVE  ServiceInv'
<1>0. Typed /\ HeadersInv /\ BatchInv /\ BusInv /\ UntakenInv /\ OrderInv /\ CompleteInv /\ IndexedInv
  BY Zenon DEF ServiceInv
<1> DEFINE new == bus.height + 1
           delivered == Delivers("header", headers, HeaderCap)
<1>1. /\ bus.sent = NumTxs(bus.height) /\ bus.height < Len(Chain)
      /\ bus' = [height |-> new, sent |-> 0]
      /\ UNCHANGED <<txs, service, txIndex, blockIndex>>
  BY Zenon DEF PublishHeader
<1>2. /\ delivered => /\ "header" \in open /\ headers' = Append(headers, new)
                      /\ UNCHANGED <<open, lost>>
      /\ ~delivered => /\ headers' = headers /\ open' = open \ {"header"}
                       /\ lost' = lost \cup {new}
  BY Zenon DEF PublishHeader, Publish, Delivers
<1>3. /\ Len(Chain) \in Nat /\ bus.height \in 0..Len(Chain) /\ new \in 1..Len(Chain) /\ new \in Nat
      /\ bus'.height = new /\ bus'.sent = 0 /\ NumTxs(new) \in Nat
      /\ \A h \in 0..bus.height : h < new /\ h # new /\ h <= new
      /\ \A h \in 1..new : h \in 1..bus.height \/ h = new
      /\ \A h \in 1..bus.height : h \in 1..new
      /\ bus.height \in Nat /\ new = bus.height + 1
  <2>1. Len(Chain) \in Nat /\ bus.height \in 0..Len(Chain)
    BY <1>0, Numbers
  <2>2. /\ new \in 1..Len(Chain) /\ new \in Nat /\ bus.height \in Nat
        /\ \A h \in 0..bus.height : h < new /\ h # new /\ h <= new
        /\ \A h \in 1..new : h \in 1..bus.height \/ h = new
        /\ \A h \in 1..bus.height : h \in 1..new
    BY <1>1, <2>1
  <2>3. new \in 0..Len(Chain)
    BY <2>1, <2>2
  <2>4. NumTxs(new) \in Nat
    BY <2>3, NumTxsNat, Zenon
  <2>5. bus'.height = new /\ bus'.sent = 0
    BY <1>1, Zenon
  <2> QED
    BY <2>1, <2>2, <2>4, <2>5, Zenon
<1> HIDE DEF new, delivered
<1>4. \A h \in 1..bus.height : Sent(h)' = Sent(h)
  BY <1>1, <1>3 DEF Sent
<1>5. \A h : Start(h)' = Start(h)
  BY <1>1, Zenon DEF Start
<1>6. delivered => /\ Len(headers) \in Nat /\ headers' \in Seq(Nat) /\ Len(headers') = Len(headers) + 1
                   /\ \A i \in 1..Len(headers) : headers'[i] = headers[i] /\ i \in 1..Len(headers')
                   /\ headers'[Len(headers) + 1] = new /\ Len(headers) + 1 \in 1..Len(headers')
                   /\ \A i \in 1..Len(headers') : i \in 1..Len(headers) \/ i = Len(headers) + 1
  <2>1. headers \in Seq(Nat)
    BY <1>0, Zenon DEF Typed
  <2>2. ASSUME NEW p, p = Append(headers, new)
        PROVE  /\ Len(headers) \in Nat /\ p \in Seq(Nat) /\ Len(p) = Len(headers) + 1
               /\ \A i \in 1..Len(headers) : p[i] = headers[i] /\ i \in 1..Len(p)
               /\ p[Len(headers) + 1] = new /\ Len(headers) + 1 \in 1..Len(p)
               /\ \A i \in 1..Len(p) : i \in 1..Len(headers) \/ i = Len(headers) + 1
    <3>1. new \in Nat
      BY <1>3, Zenon
    <3> QED
      BY <2>1, <2>2, <3>1, AppendFacts
  <2> QED
    BY <1>2, <2>2, Zenon
<1>7. Typed'
  <2>1. headers' \in Seq(Nat)
    BY <1>0, <1>2, <1>6, Zenon DEF Typed
  <2> QED
    BY <1>0, <1>1, <1>3, <2>1 DEF Typed
<1>8. \A h : (\E i \in 1..Len(headers') : headers'[i] = h) <=>
             (\E i \in 1..Len(headers) : headers[i] = h) \/ (delivered /\ h = new)
  BY <1>2, <1>6, Zenon
<1>9. \A h : h \in Awaited' <=> h \in Awaited \/ (delivered /\ h = new)
  BY <1>0, <1>1, <1>7, <1>8, AwaitedIs, AwaitedIsNext, Zenon
<1>10. HeadersInv'
  <2>1. CASE ~delivered
    BY <1>0, <1>1, <1>2, <1>3, <2>1, Zenon DEF HeadersInv
  <2>2. CASE delivered
    <3>1. \A i \in 1..Len(headers') : headers'[i] \in 1..new
      <4>1. new \in 1..new
        BY <1>3
      <4> QED
        BY <1>0, <1>3, <1>6, <2>2, <4>1, Zenon DEF HeadersInv
    <3>2. \A i, j \in 1..Len(headers') : i < j => headers'[i] < headers'[j]
      <4>1. SUFFICES ASSUME NEW i \in 1..Len(headers'), NEW j \in 1..Len(headers'), i < j
                     PROVE  headers'[i] < headers'[j]
        BY Zenon
      <4>2. i \in 1..Len(headers) /\ headers'[i] = headers[i] /\ headers[i] \in 1..bus.height
        BY <1>0, <1>6, <2>2, <4>1 DEF HeadersInv
      <4>3. CASE j = Len(headers) + 1
        BY <1>3, <1>6, <2>2, <4>2, <4>3
      <4>4. CASE j \in 1..Len(headers)
        BY <1>0, <1>6, <2>2, <4>1, <4>2, <4>4, Zenon DEF HeadersInv
      <4> QED
        BY <1>6, <2>2, <4>3, <4>4, Zenon
    <3>3. service.pc # "header" => service.height \in 1..new
                                   /\ \A i \in 1..Len(headers') : service.height < headers'[i]
      <4>1. \A h \in 1..bus.height : h < new
        BY <1>3
      <4> QED
        BY <1>0, <1>3, <1>6, <2>2, <4>1, Zenon DEF HeadersInv
    <3> QED
      BY <1>1, <1>3, <3>1, <3>2, <3>3, Zenon DEF HeadersInv
  <2> QED
    BY <2>1, <2>2, Zenon
<1>11. BatchInv'
  <2>1. ASSUME NEW h \in 1..bus.height, service.height = h
        PROVE  Sent(service.height)' = Sent(service.height)
    BY <1>1, <1>4, <2>1, Zenon DEF Sent
  <2> QED
    BY <1>0, <1>1, <2>1, Zenon DEF BatchInv, HeadersInv
<1>12. BusInv'
  BY <1>2, <1>3, <1>9, Zenon DEF BusInv
<1>13. UntakenInv'
  <2>1. ASSUME NEW h \in 1..bus.height, NEW n, Untaken(h, n)
        PROVE  Untaken(h, n)'
    <3>1. h <= bus'.height /\ n <= Sent(h)'
      BY <1>3, <1>4, <2>1 DEF Untaken
    <3> QED
      BY <1>1, <1>2, <1>5, <1>9, <2>1, <3>1, Zenon DEF Untaken
  <2>2. \A i \in 1..Len(txs) : txs[i].height \in 1..bus.height
    BY <1>0, Buffered, Zenon
  <2> QED
    BY <1>0, <1>1, <2>1, <2>2, Zenon DEF UntakenInv
<1>14. OrderInv'
  BY <1>0, <1>1, Zenon DEF OrderInv
<1>15. CompleteInv'
  <2>1. ASSUME NEW h \in Awaited, NEW n \in Start(h)'..Sent(h)'
        PROVE  Buffer(h, n)' \/ Missed(h, n)'
    <3>1. h \in 1..bus.height
      BY <1>0, AwaitedOrder, Zenon
    <3>2. n \in Start(h)..Sent(h)
      BY <1>4, <1>5, <3>1, <2>1, Zenon
    <3> QED
      BY <1>0, <1>1, <1>2, <3>2, Zenon DEF CompleteInv, Buffer, Missed
  <2>2. ASSUME NEW h, h = new, NEW n \in Start(h)'..Sent(h)' PROVE FALSE
    <3>1. Sent(h)' = 0
      BY <1>3, <2>2, Zenon DEF Sent
    <3>2. Start(h) = 1
      BY <1>0, <1>3, <2>2 DEF Start, HeadersInv
    <3> QED
      BY <1>5, <2>2, <3>1, <3>2
  <2> QED
    BY <1>1, <1>9, <2>1, <2>2, Zenon DEF CompleteInv
<1>16. IndexedInv'
  <2>1. \A h : Has(h)' = Has(h)
    BY <1>1, Zenon DEF Has
  <2>2. \A h : h \in Range(headers') <=> h \in Range(headers) \/ (delivered /\ h = new)
    BY <1>0, <1>7, <1>8, RangeIs, Zenon DEF Typed
  <2>3. \A h \in (1..bus'.height) \ lost' : h \in (1..bus.height) \ lost \/ (h = new /\ delivered)
    BY <1>2, <1>3, Zenon
  <2> QED
    BY <1>0, <1>1, <2>1, <2>2, <2>3, Zenon DEF IndexedInv
<1> QED
  BY <1>7, <1>10, <1>11, <1>12, <1>13, <1>14, <1>15, <1>16, Zenon DEF ServiceInv

LEMMA PublishTxInv ==
  ASSUME ServiceInv, PublishTx
  PROVE  ServiceInv'
<1>0. Typed /\ HeadersInv /\ BatchInv /\ BusInv /\ UntakenInv /\ OrderInv /\ CompleteInv /\ IndexedInv
  BY Zenon DEF ServiceInv
<1> DEFINE top == bus.height
           next == bus.sent + 1
           r == TxResult(bus.height, bus.sent + 1)
           delivered == Delivers("tx", txs, TxCap)
<1>1. /\ bus.sent < NumTxs(top) /\ bus' = [bus EXCEPT !.sent = next]
      /\ UNCHANGED <<headers, service, txIndex, blockIndex>>
  BY Zenon DEF PublishTx
<1>2. /\ delivered => "tx" \in open /\ txs' = Append(txs, r) /\ UNCHANGED <<open, lost>>
      /\ ~delivered => /\ txs' = txs /\ open' = open \ {"tx"}
                       /\ lost' = lost \cup {top}
  BY Zenon DEF PublishTx, Publish, Delivers
<1>3. /\ bus'.height = top /\ bus'.sent = next /\ bus.height = top /\ bus.sent = next - 1
      /\ top \in 1..Len(Chain) /\ top \in 1..top /\ NumTxs(top) \in Nat /\ next \in 1..NumTxs(top)
      /\ Len(Chain) \in Nat
  <2>1. /\ bus'.height = top /\ bus'.sent = next
    BY <1>0, <1>1, Zenon DEF Typed
  <2>2. top # 0
    BY <1>0, <1>1, Numbers DEF NumTxs
  <2> QED
    BY <1>0, <1>1, <2>1, <2>2, Numbers
<1>4. r \in Results /\ r.height = top /\ r.index = next /\ r = TxResult(top, next)
  BY <1>3, ResultIn, SameResult, Zenon
<1> HIDE DEF top, next, r, delivered
<1>5. Awaited' = Awaited /\ \A h : Start(h)' = Start(h) /\ Has(h)' = Has(h)
  BY <1>1, Zenon DEF Awaited, Start, Has
<1>6. \A h : IF h = top THEN Sent(h) = next - 1 /\ Sent(h)' = next ELSE Sent(h)' = Sent(h)
  BY <1>3, Zenon DEF Sent
<1>7. delivered => /\ Len(txs) \in Nat /\ txs' \in Seq(Results) /\ Len(txs') = Len(txs) + 1
                   /\ \A i \in 1..Len(txs) : txs'[i] = txs[i] /\ i \in 1..Len(txs')
                   /\ txs'[Len(txs) + 1] = r /\ Len(txs) + 1 \in 1..Len(txs')
                   /\ \A i \in 1..Len(txs') : i \in 1..Len(txs) \/ i = Len(txs) + 1
  <2>1. txs \in Seq(Results)
    BY <1>0, Zenon DEF Typed
  <2>2. ASSUME NEW p, p = Append(txs, r)
        PROVE  /\ Len(txs) \in Nat /\ p \in Seq(Results) /\ Len(p) = Len(txs) + 1
               /\ \A i \in 1..Len(txs) : p[i] = txs[i] /\ i \in 1..Len(p)
               /\ p[Len(txs) + 1] = r /\ Len(txs) + 1 \in 1..Len(p)
               /\ \A i \in 1..Len(p) : i \in 1..Len(txs) \/ i = Len(txs) + 1
    <3>1. r \in Results
      BY <1>4, Zenon
    <3> QED
      BY <2>1, <2>2, <3>1, AppendFacts
  <2> QED
    BY <1>2, <2>2, Zenon
<1>8. Typed'
  <2>1. txs' \in Seq(Results)
    BY <1>0, <1>2, <1>7, Zenon DEF Typed
  <2>2. bus' \in [height : 0..Len(Chain), sent : Nat]
    BY <1>0, <1>1, <1>3 DEF Typed
  <2> QED
    BY <1>0, <1>1, <1>3, <2>1, <2>2 DEF Typed
<1>9. HeadersInv'
  BY <1>0, <1>1, <1>3, Zenon DEF HeadersInv
<1>10. BatchInv'
  <2>1. ASSUME NEW h \in 1..top, NEW k \in Int, k <= Sent(h)
        PROVE  k <= Sent(h)'
    BY <1>3, <1>6, <2>1
  <2>2. service.pc # "header" => service.height \in 1..top /\ NumTxs(service.height) - service.left \in Int
    BY <1>0, <1>3, Numbers DEF HeadersInv
  <2> QED
    BY <1>0, <1>1, <2>1, <2>2, Zenon DEF BatchInv, Sent
<1>11. BusInv'
  <2>1. bus.height \in Awaited \/ "header" \notin open
    BY <1>0, <1>1, <1>3, Zenon DEF BusInv
  <2>2. "header" \notin open => "header" \notin open'
    BY <1>2, Zenon
  <2> QED
    BY <1>3, <1>5, <2>1, <2>2, Zenon DEF BusInv
<1>12. UntakenInv'
  <2>1. ASSUME NEW h \in 1..top, NEW n \in Nat, Untaken(h, n)
        PROVE  Untaken(h, n)'
    <3>1. h <= bus'.height /\ n <= Sent(h)'
      BY <1>3, <1>6, <2>1 DEF Untaken
    <3> QED
      BY <1>1, <1>2, <1>5, <2>1, <3>1, Zenon DEF Untaken
  <2>2. \A i \in 1..Len(txs) : txs[i].height \in 1..top /\ txs[i].index \in Nat
    <3>1. ASSUME NEW i \in 1..Len(txs) PROVE txs[i].height \in 1..top /\ txs[i].index \in Nat
      BY <1>0, <1>3, Buffered, SMTT(30)
    <3> QED
      BY <3>1, Zenon
  <2>3. ASSUME NEW h, NEW n, h = top, n = next
        PROVE  Untaken(h, n)'
    <3>1. service.pc = "txs" /\ service.height = h => NumTxs(h) - service.left <= next - 1
      BY <1>0, <1>6, <2>3, Zenon DEF BatchInv
    <3>2. next >= Start(h)
      BY <1>0, <1>3, <2>3, <3>1, Numbers DEF Start
    <3>3. h <= bus'.height /\ n <= Sent(h)'
      BY <1>3, <1>6, <2>3
    <3>4. CASE h \in Awaited
      BY <1>5, <2>3, <3>2, <3>3, <3>4, Zenon DEF Untaken
    <3>5. CASE h \notin Awaited
      <4>1. "header" \notin open'
        BY <1>0, <1>1, <1>2, <1>3, <2>3, <3>5, Zenon DEF BusInv
      <4>2. \A g \in Awaited : g < h
        BY <1>0, <1>3, <2>3, <3>5, AwaitedOrder
      <4>3. service.pc # "header" => service.height < h
        <5>1. service.pc # "header" /\ service.height = h => service.left # 0
          BY <1>0, <1>3, <1>6, <2>3, Numbers DEF BatchInv
        <5>2. service.pc # "header" /\ service.height = h => service.pc = "txs"
          BY <1>0, <5>1, Zenon DEF BatchInv, Typed
        <5>3. service.pc # "header" => service.height # h
          BY <1>0, <3>5, <5>2, AwaitedIs, Zenon
        <5> QED
          BY <1>0, <1>3, <2>3, <5>3 DEF HeadersInv
      <4> QED
        BY <1>1, <1>5, <3>3, <4>1, <4>2, <4>3, Zenon DEF Untaken
    <3> QED
      BY <3>4, <3>5, Zenon
  <2>4. CASE ~delivered
    BY <1>0, <1>2, <2>1, <2>2, <2>4, Zenon DEF UntakenInv
  <2>5. CASE delivered
    BY <1>0, <1>4, <1>7, <2>1, <2>2, <2>3, <2>5, Zenon DEF UntakenInv
  <2> QED
    BY <2>4, <2>5, Zenon
<1>13. \A i \in 1..Len(txs) : Before(txs[i], top, next)
  <2>1. SUFFICES ASSUME NEW i \in 1..Len(txs) PROVE Before(txs[i], top, next)
    BY Zenon
  <2>2. /\ txs[i].height \in 1..top /\ txs[i].index \in 1..NumTxs(txs[i].height)
        /\ txs[i].index <= Sent(txs[i].height)
    BY <1>0, <1>3, <2>1, Buffered, Zenon
  <2> QED
    BY <1>3, <1>6, <2>2 DEF Before
<1>14. OrderInv'
  <2>1. CASE ~delivered
    BY <1>0, <1>2, <2>1, Zenon DEF OrderInv
  <2>2. CASE delivered
    <3>1. SUFFICES ASSUME NEW i \in 1..Len(txs'), NEW j \in 1..Len(txs'), i < j
                   PROVE  Before(txs'[i], txs'[j].height, txs'[j].index)
      BY Zenon DEF OrderInv
    <3>2. i \in 1..Len(txs)
      BY <1>7, <2>2, <3>1
    <3>3. CASE j \in 1..Len(txs)
      BY <1>0, <1>7, <2>2, <3>1, <3>2, <3>3, Zenon DEF OrderInv
    <3>4. CASE j = Len(txs) + 1
      BY <1>4, <1>7, <1>13, <2>2, <3>2, <3>4, Zenon
    <3> QED
      BY <1>7, <2>2, <3>3, <3>4, Zenon
  <2> QED
    BY <2>1, <2>2, Zenon
<1>15. CompleteInv'
  <2>1. SUFFICES ASSUME NEW h \in Awaited, NEW n \in Start(h)'..Sent(h)'
                 PROVE  Buffer(h, n)' \/ Missed(h, n)'
    BY <1>5, Zenon DEF CompleteInv
  <2>2. CASE h = top /\ n = next
    <3>1. CASE delivered
      BY <1>4, <1>7, <2>2, <3>1, Zenon DEF Buffer
    <3>2. CASE ~delivered
      BY <1>2, <1>13, <2>2, <3>2, Zenon DEF Missed
    <3> QED
      BY <3>1, <3>2, Zenon
  <2>3. CASE ~(h = top /\ n = next)
    <3>1. h \in 1..top /\ Sent(h) \in Nat /\ Start(h) \in Int
      BY <1>0, <1>3, AwaitedOrder, Numbers DEF Start
    <3>2. n \in Start(h)..Sent(h)
      BY <1>3, <1>5, <1>6, <2>1, <2>3, <3>1
    <3>3. Buffer(h, n) \/ Missed(h, n)
      BY <1>0, <3>2, Zenon DEF CompleteInv
    <3>4. CASE delivered
      BY <1>2, <1>7, <3>3, <3>4, Zenon DEF Buffer, Missed
    <3>5. CASE ~delivered
      BY <1>2, <3>3, <3>5, Zenon DEF Buffer, Missed
    <3> QED
      BY <3>4, <3>5, Zenon
  <2> QED
    BY <2>2, <2>3, Zenon
<1>16. IndexedInv'
  <2>1. \A h \in (1..bus'.height) \ lost' : h \in (1..bus.height) \ lost
    BY <1>2, <1>3, Zenon
  <2> QED
    BY <1>0, <1>1, <1>5, <2>1, Zenon DEF IndexedInv
<1> QED
  BY <1>8, <1>9, <1>10, <1>11, <1>12, <1>14, <1>15, <1>16, Zenon DEF ServiceInv

LEMMA TakeHeaderInv ==
  ASSUME ServiceInv, TakeHeader
  PROVE  ServiceInv'
<1>0. Typed /\ HeadersInv /\ BatchInv /\ BusInv /\ UntakenInv /\ OrderInv /\ CompleteInv /\ IndexedInv
  BY Zenon DEF ServiceInv
<1> DEFINE g == Head(headers)
           empty == NumTxs(g) = 0
<1>1. /\ service.pc = "header" /\ headers # <<>> /\ headers' = Tail(headers)
      /\ service' = [pc |-> IF empty THEN "block" ELSE "txs", height |-> g, left |-> NumTxs(g), batch |-> {}]
      /\ UNCHANGED <<bus, txs, open, txIndex, blockIndex, lost>>
  BY Zenon DEF TakeHeader, Collect
<1>2. /\ Len(headers) \in Nat /\ Len(headers) >= 1 /\ g = headers[1] /\ 1 \in 1..Len(headers)
      /\ headers' \in Seq(Nat) /\ Len(headers') = Len(headers) - 1
      /\ \A i \in 1..Len(headers') : i + 1 \in 1..Len(headers) /\ headers'[i] = headers[i + 1]
      /\ \A i \in 1..Len(headers) : i # 1 => i - 1 \in 1..Len(headers') /\ headers'[i - 1] = headers[i]
  <2>1. headers \in Seq(Nat)
    BY <1>0, Zenon DEF Typed
  <2> QED
    BY <1>1, <2>1
<1>3. g \in 1..bus.height /\ g \in Nat /\ NumTxs(g) \in Nat /\ Sent(g) \in Nat
  BY <1>0, <1>2, Numbers DEF HeadersInv
<1>4. service'.pc = (IF empty THEN "block" ELSE "txs") /\ service'.height = g
      /\ service'.left = NumTxs(g) /\ service'.batch = {}
  BY <1>1, Zenon
<1> HIDE DEF g
<1>5. \A h : h \in Range(headers) <=> h \in Range(headers') \/ h = g
  <2>1. ASSUME NEW h
        PROVE  (\E i \in 1..Len(headers) : headers[i] = h) <=>
               (\E i \in 1..Len(headers') : headers'[i] = h) \/ h = g
    BY <1>2, Zenon
  <2> QED
    BY <1>0, <1>2, <2>1, RangeIs, Zenon DEF Typed
<1>6. \A i \in 1..Len(headers') : g < headers'[i]
  <2>1. \A i \in 1..Len(headers') : 1 < i + 1
    BY <1>2
  <2> QED
    BY <1>0, <1>2, <2>1, Zenon DEF HeadersInv
<1>7. \A h : h \in Awaited' <=> h \in Awaited /\ ~(empty /\ h = g)
  <2>1. Awaited = Range(headers)
    BY <1>1, Zenon DEF Awaited
  <2>2. g \notin Range(headers')
    <3>1. \A i \in 1..Len(headers') : g # headers'[i]
      BY <1>0, <1>2, <1>3, <1>6 DEF Typed
    <3> QED
      BY <1>2, <3>1, RangeIs, Zenon
  <2>3. \A h : h \in Awaited' <=> h \in Range(headers') \/ (~empty /\ h = g)
    BY <1>4, Zenon DEF Awaited
  <2> QED
    BY <1>5, <2>1, <2>2, <2>3, Zenon
<1>8. g \in Awaited /\ \A h : Sent(h)' = Sent(h) /\ Has(h)' = Has(h) /\ Start(h)' = Start(h)
  <2>1. g \in Awaited
    BY <1>5, Zenon DEF Awaited
  <2>2. \A h : Start(h)' = 1 /\ Start(h) = 1
    BY <1>1, <1>3, <1>4 DEF Start
  <2> QED
    BY <1>1, <2>1, <2>2, Zenon DEF Sent, Has
<1>9. Typed'
  <2>1. service' \in [pc : {"header", "txs", "block", "batch"}, height : Nat, left : Nat, batch : SUBSET Results]
    BY <1>1, <1>3, Zenon
  <2> QED
    BY <1>0, <1>1, <1>2, <2>1, Zenon DEF Typed
<1>10. HeadersInv'
  <2>1. ASSUME NEW i \in 1..Len(headers'), NEW j \in 1..Len(headers'), i < j
        PROVE  headers'[i] < headers'[j]
    <3>1. i + 1 < j + 1
      BY <1>2, <2>1
    <3> QED
      BY <1>0, <1>2, <3>1, Zenon DEF HeadersInv
  <2>2. \A i \in 1..Len(headers') : headers'[i] \in 1..bus'.height
    BY <1>0, <1>1, <1>2, Zenon DEF HeadersInv
  <2> QED
    BY <1>1, <1>3, <1>4, <1>6, <2>1, <2>2, Zenon DEF HeadersInv
<1>11. BatchInv'
  <2>1. {TxResult(g, n) : n \in 1..0} = {}
    OBVIOUS
  <2>2. NumTxs(g) - NumTxs(g) = 0 /\ 0 <= Sent(g)
    BY <1>3
  <2>3. Sent(service.height)' = Sent(g)
    BY <1>1, <1>4, Zenon DEF Sent
  <2> QED
    BY <1>3, <1>4, <2>1, <2>2, <2>3 DEF BatchInv
<1>12. BusInv'
  <2>1. bus.sent < NumTxs(bus.height) => ~(empty /\ bus.height = g)
    BY <1>0, Numbers
  <2> QED
    BY <1>0, <1>1, <1>7, <2>1, Zenon DEF BusInv
<1>13. UntakenInv'
  <2>1. ASSUME NEW h, NEW n \in 1..NumTxs(h), Untaken(h, n)
        PROVE  Untaken(h, n)'
    <3>1. ~(empty /\ h = g)
      BY <2>1
    <3> QED
      BY <1>1, <1>4, <1>7, <1>8, <2>1, <3>1, Zenon DEF Untaken
  <2>2. \A i \in 1..Len(txs) : txs[i].index \in 1..NumTxs(txs[i].height)
    BY <1>0, Buffered, Zenon
  <2> QED
    BY <1>0, <1>1, <2>1, <2>2, Zenon DEF UntakenInv
<1>14. OrderInv'
  BY <1>0, <1>1, Zenon DEF OrderInv
<1>15. CompleteInv'
  <2>1. ASSUME NEW h, NEW n, Buffer(h, n) \/ Missed(h, n)
        PROVE  Buffer(h, n)' \/ Missed(h, n)'
    BY <1>1, <2>1, Zenon DEF Buffer, Missed
  <2> QED
    BY <1>0, <1>7, <1>8, <2>1, Zenon DEF CompleteInv
<1>16. IndexedInv'
  <2>1. service'.pc # "header" /\ service'.pc # "batch"
    BY <1>4, Zenon
  <2> QED
    BY <1>0, <1>1, <1>4, <1>5, <1>8, <2>1, Zenon DEF IndexedInv
<1> QED
  BY <1>9, <1>10, <1>11, <1>12, <1>13, <1>14, <1>15, <1>16, Zenon DEF ServiceInv

LEMMA TakeTxInv ==
  ASSUME ServiceInv, TakeTx
  PROVE  ServiceInv'
<1>0. Typed /\ HeadersInv /\ BatchInv /\ BusInv /\ UntakenInv /\ OrderInv /\ CompleteInv /\ IndexedInv
  BY Zenon DEF ServiceInv
<1> DEFINE g == service.height
           k == Start(service.height)
           all == NumTxs(service.height)
           done == service.left = 1
<1>1. /\ service.pc = "txs" /\ txs # <<>> /\ txs' = Tail(txs)
      /\ UNCHANGED <<bus, headers, open, txIndex, blockIndex, lost>>
  BY Zenon DEF TakeTx
<1>2. /\ Head(txs) = txs[1] /\ 1 \in 1..Len(txs) /\ txs[1].height = g /\ txs[1].index = k
  BY <1>1, HeadIsNext, Zenon
<1>3. /\ txs[1] = TxResult(g, k) /\ txs[1] \in Results /\ k <= Sent(g)
  BY <1>0, <1>2, Buffered, Zenon
<1>4. /\ g \in 1..bus.height /\ g \in Nat /\ all \in Nat /\ Sent(g) \in Nat /\ Sent(g) <= all
      /\ service.left \in 1..all /\ k = all - service.left + 1 /\ k \in 1..all
      /\ service.batch = {TxResult(g, n) : n \in 1..(all - service.left)}
      /\ g \in Awaited /\ service.batch \in SUBSET Results
  BY <1>0, <1>1, Numbers, AwaitedIs, SMTT(30) DEF HeadersInv, BatchInv, Start, Typed
<1>5. Add(service.batch, txs[1]) = {TxResult(g, n) : n \in 1..k}
  <2> HIDE DEF g, k, all
  <2>1. \A n \in 1..(all - service.left) : n # k /\ TxResult(g, n).index = n /\ n \in 1..k
    BY <1>4, SameResult
  <2>2. \A n \in 1..k : n \in 1..(all - service.left) \/ n = k
    BY <1>4
  <2>3. k \in 1..k
    BY <1>4
  <2>4. Add(service.batch, txs[1]) = service.batch \cup {TxResult(g, k)}
    <3>1. \A b \in service.batch : b.index # txs[1].index
      <4>1. ASSUME NEW b \in service.batch PROVE b.index # k
        <5>1. PICK n \in 1..(all - service.left) : b = TxResult(g, n)
          BY <1>4, Zenon
        <5> QED
          BY <2>1, <5>1, Zenon
      <4> QED
        BY <1>2, <4>1, Zenon
    <3> QED
      BY <1>3, <3>1, Zenon DEF Add
  <2>5. ASSUME NEW x
        PROVE  x \in service.batch \cup {TxResult(g, k)} <=> \E n \in 1..k : x = TxResult(g, n)
    BY <1>4, <2>1, <2>2, <2>3, Zenon
  <2> QED
    BY <2>4, <2>5, Zenon
<1>6. /\ service'.pc = (IF done THEN "block" ELSE "txs") /\ service'.height = g
      /\ service'.left = service.left - 1 /\ service'.batch = {TxResult(g, n) : n \in 1..k}
      /\ service' \in [pc : {"header", "txs", "block", "batch"}, height : Nat, left : Nat, batch : SUBSET Results]
  <2> DEFINE taken == Add(service.batch, txs[1])
             s == [service EXCEPT !.left = @ - 1, !.batch = Add(@, Head(txs))]
  <2>1. taken \in SUBSET Results
    BY <1>3, <1>4, Zenon DEF Add
  <2>2. s = [service EXCEPT !.left = @ - 1, !.batch = taken]
    BY <1>2, Zenon
  <2>3. taken = {TxResult(g, n) : n \in 1..k}
    BY <1>5, Zenon
  <2>4. service' = Collect(s)
    BY Zenon DEF TakeTx
  <2> HIDE DEF taken, k
  <2>5. /\ s.pc = "txs" /\ s.height = g /\ s.left = service.left - 1 /\ s.batch = taken
        /\ s.left = 0 <=> done
        /\ s \in [pc : {"header", "txs", "block", "batch"}, height : Nat, left : Nat, batch : SUBSET Results]
    <3>1. service \in [pc : {"header", "txs", "block", "batch"}, height : Nat, left : Nat, batch : SUBSET Results]
      BY <1>0, Zenon DEF Typed
    <3>2. service.left - 1 \in Nat /\ (service.left - 1 = 0 <=> done)
      BY <1>4
    <3>3. service.pc = "txs"
      BY <1>1, Zenon
    <3>4. s \in [pc : {"header", "txs", "block", "batch"}, height : Nat, left : Nat, batch : SUBSET Results]
      BY <2>1, <2>2, <3>1, <3>2, Zenon
    <3> QED
      BY <2>2, <3>1, <3>2, <3>3, <3>4, Zenon
  <2> HIDE DEF s
  <2> QED
    BY <2>3, <2>4, <2>5, Zenon DEF Collect
<1>7. /\ Len(txs) \in Nat /\ txs' \in Seq(Results) /\ Len(txs') = Len(txs) - 1
      /\ \A i \in 1..Len(txs') : i + 1 \in 1..Len(txs) /\ 1 < i + 1 /\ txs'[i] = txs[i + 1]
      /\ \A i \in 1..Len(txs) : i # 1 => i - 1 \in 1..Len(txs') /\ txs'[i - 1] = txs[i]
  <2>1. txs \in Seq(Results)
    BY <1>0, Zenon DEF Typed
  <2> QED
    BY <1>1, <2>1
<1> HIDE DEF g, k, all
<1>8. \A h : h \in Awaited' <=> h \in Awaited /\ ~(done /\ h = g)
  <2>1. g \notin Range(headers)
    <3>1. \A i \in 1..Len(headers) : g # headers[i]
      <4>1. ASSUME NEW i \in 1..Len(headers) PROVE g < headers[i] /\ headers[i] \in 1..bus.height
        BY <1>0, <1>1, Zenon DEF HeadersInv, g
      <4>2. g \in Nat /\ bus.height \in Nat
        BY <1>0, <1>4 DEF Typed
      <4> QED
        BY <4>1, <4>2
    <3> QED
      BY <1>0, <3>1, RangeIs, Zenon DEF Typed
  <2>2. \A h : h \in Awaited <=> h \in Range(headers) \/ h = g
    BY <1>1, Zenon DEF Awaited, g
  <2>3. \A h : h \in Awaited' <=> h \in Range(headers) \/ (~done /\ h = g)
    BY <1>1, <1>6, Zenon DEF Awaited
  <2> QED
    BY <2>1, <2>2, <2>3, Zenon
<1>9. /\ \A h : h # g => Start(h)' = Start(h)
      /\ ~done => \A h : h = g => Start(h)' = k + 1
      /\ \A h : h = g => Start(h) = k
      /\ \A h : Sent(h)' = Sent(h) /\ Has(h)' = Has(h)
      /\ all = NumTxs(g) /\ g = service.height
  <2>1. all = NumTxs(g) /\ g = service.height /\ \A h : h = g => Start(h) = k
    BY Zenon DEF all, g, k
  <2>2. \A h : h # g => Start(h)' = Start(h)
    BY <1>6, <2>1, Zenon DEF Start
  <2>3. ~done => \A h : h = g => Start(h)' = k + 1
    BY <1>4, <1>6, <2>1 DEF Start
  <2> QED
    BY <1>1, <2>1, <2>2, <2>3, Zenon DEF Sent, Has
<1>10. Typed'
  BY <1>0, <1>1, <1>6, <1>7, Zenon DEF Typed
<1>11. HeadersInv'
  <2>1. service.pc # "header"
    BY <1>1, Zenon
  <2> QED
    BY <1>0, <1>1, <1>6, <1>9, <2>1, Zenon DEF HeadersInv
<1>12. BatchInv'
  <2>1. service'.pc = "txs" => service'.left \in 1..all
    BY <1>4, <1>6
  <2>2. service'.pc \in {"block", "batch"} => service'.left = 0
    BY <1>4, <1>6
  <2>3. all - service'.left = k
    BY <1>4, <1>6
  <2>4. Sent(service.height)' = Sent(g)
    BY <1>1, <1>6, Zenon DEF Sent
  <2>5. /\ NumTxs(service'.height) = all /\ service'.height = g
        /\ service'.batch = {TxResult(g, n) : n \in 1..k}
        /\ Sent(service.height)' = Sent(g) /\ k <= Sent(g)
    BY <1>3, <1>6, <1>9, <2>4, Zenon
  <2> QED
    BY <2>1, <2>2, <2>3, <2>5, Zenon DEF BatchInv
<1>13. BusInv'
  <2>1. bus.sent < NumTxs(bus.height) => ~(done /\ bus.height = g)
    BY <1>0, <1>3, <1>4, <1>9, Numbers DEF Sent
  <2> QED
    BY <1>0, <1>1, <1>8, <2>1, Zenon DEF BusInv
<1>14. UntakenInv'
  <2>1. ASSUME NEW h \in 1..bus.height, NEW n \in 1..NumTxs(h), Untaken(h, n), h = g => n > k
        PROVE  Untaken(h, n)'
    <3>1. ~(done /\ h = g)
      BY <1>4, <1>9, <2>1
    <3>2. h \in Awaited /\ n >= Start(h) => n >= Start(h)'
      BY <1>4, <1>9, <2>1, <3>1
    <3>3. service'.pc # "header" /\ service.pc # "header"
      BY <1>1, <1>6, Zenon
    <3> QED
      BY <1>1, <1>6, <1>8, <1>9, <2>1, <3>1, <3>2, <3>3, Zenon DEF Untaken
  <2>2. ASSUME NEW i \in 1..Len(txs')
        PROVE  /\ txs'[i].height \in 1..bus.height /\ txs'[i].index \in 1..NumTxs(txs'[i].height)
               /\ Untaken(txs[i + 1].height, txs[i + 1].index) /\ txs'[i] = txs[i + 1]
               /\ Before(txs[1], txs'[i].height, txs'[i].index)
    BY <1>0, <1>2, <1>7, Buffered, Zenon DEF UntakenInv, OrderInv
  <2>3. ASSUME NEW i \in 1..Len(txs'), NEW h, NEW n, h = txs'[i].height, n = txs'[i].index
        PROVE  Untaken(h, n)'
    <3>1. h \in 1..bus.height /\ n \in 1..NumTxs(h) /\ Untaken(h, n) /\ Before(txs[1], h, n)
      BY <2>2, <2>3, Zenon
    <3>2. h = g => n > k
      BY <1>2, <1>4, <3>1 DEF Before
    <3> QED
      BY <2>1, <3>1, <3>2, Zenon
  <2> QED
    BY <2>3, Zenon DEF UntakenInv
<1>15. OrderInv'
  <2>1. SUFFICES ASSUME NEW i \in 1..Len(txs'), NEW j \in 1..Len(txs'), i < j
                 PROVE  Before(txs'[i], txs'[j].height, txs'[j].index)
    BY Zenon DEF OrderInv
  <2>2. i + 1 < j + 1
    BY <1>7, <2>1
  <2> QED
    BY <1>0, <1>7, <2>2, Zenon DEF OrderInv
<1>16. CompleteInv'
  <2>1. SUFFICES ASSUME NEW h \in Awaited, ~(done /\ h = g), NEW n \in Start(h)'..Sent(h)'
                 PROVE  Buffer(h, n)' \/ Missed(h, n)'
    BY <1>8, Zenon DEF CompleteInv
  <2>2. n \in Start(h)..Sent(h) /\ ~(h = g /\ n = k)
    <3>1. h \in 1..bus.height /\ Sent(h) \in Nat /\ Start(h) \in Int
      BY <1>0, AwaitedOrder, Numbers DEF Start
    <3> QED
      BY <1>4, <1>9, <2>1, <3>1
  <2>3. Buffer(h, n) \/ Missed(h, n)
    BY <1>0, <2>2, Zenon DEF CompleteInv
  <2>4. CASE Buffer(h, n)
    <3>1. PICK i \in 1..Len(txs) : txs[i] = TxResult(h, n)
      BY <2>4, Zenon DEF Buffer
    <3>2. i # 1
      BY <1>2, <2>2, <3>1, SameResult
    <3> QED
      BY <1>7, <3>1, <3>2, Zenon DEF Buffer
  <2>5. CASE Missed(h, n)
    BY <1>1, <1>7, <2>5, Zenon DEF Missed
  <2> QED
    BY <2>3, <2>4, <2>5, Zenon
<1>17. IndexedInv'
  <2>1. service'.pc # "header" /\ service'.pc # "batch"
    BY <1>6, Zenon
  <2> QED
    BY <1>0, <1>1, <1>6, <1>9, <2>1, Zenon DEF IndexedInv
<1> QED
  BY <1>10, <1>11, <1>12, <1>13, <1>14, <1>15, <1>16, <1>17, Zenon DEF ServiceInv

\* The commits leave the buffers alone.
LEMMA CommitKeeps ==
  ASSUME ServiceInv, UNCHANGED <<bus, headers, txs, open>>, lost \subseteq lost',
         service.pc \in {"block", "batch"},
         service' = AtHeader \/ service' = [service EXCEPT !.pc = "batch"]
  PROVE  Typed' /\ HeadersInv' /\ BatchInv' /\ BusInv' /\ UntakenInv' /\ OrderInv' /\ CompleteInv'
<1>0. Typed /\ HeadersInv /\ BatchInv /\ BusInv /\ UntakenInv /\ OrderInv /\ CompleteInv
  BY Zenon DEF ServiceInv
<1>1. \/ /\ service'.pc = "batch" /\ service'.height = service.height
         /\ service'.left = service.left /\ service'.batch = service.batch
      \/ service'.pc = "header"
  BY <1>0 DEF AtHeader, Typed
<1>2. /\ service.pc # "header" /\ service.pc # "txs" /\ service'.pc # "txs" /\ service'.pc # "block"
  BY <1>1, Zenon
<1>3. /\ Awaited' = Awaited
      /\ \A h : Sent(h)' = Sent(h) /\ Start(h)' = Start(h)
  BY <1>2, Zenon DEF Awaited, Sent, Start
<1>4. Typed'
  <2>1. service' \in [pc : {"header", "txs", "block", "batch"}, height : Nat, left : Nat, batch : SUBSET Results]
    <3>1. service \in [pc : {"header", "txs", "block", "batch"}, height : Nat, left : Nat, batch : SUBSET Results]
      BY <1>0, Zenon DEF Typed
    <3>2. CASE service' = AtHeader
      BY <3>2, Zenon DEF AtHeader
    <3>3. CASE service' = [service EXCEPT !.pc = "batch"]
      BY <3>1, <3>3, Zenon
    <3> QED
      BY <3>2, <3>3, Zenon
  <2> QED
    BY <1>0, <2>1, Zenon DEF Typed
<1>5. HeadersInv' /\ BusInv' /\ OrderInv'
  BY <1>0, <1>1, <1>2, <1>3, Zenon DEF HeadersInv, BusInv, OrderInv
<1>6. BatchInv'
  <2>1. service'.pc = "batch" => Sent(service.height)' = Sent(service.height)
    BY <1>1, <1>2, Zenon DEF Sent
  <2>2. service.left = 0
    BY <1>0, Zenon DEF BatchInv
  <2>3. CASE service'.pc = "batch"
    BY <1>0, <1>1, <1>2, <2>1, <2>2, <2>3 DEF BatchInv
  <2>4. CASE service'.pc = "header"
    BY <2>4, Zenon DEF BatchInv
  <2> QED
    BY <1>1, <2>3, <2>4, Zenon
<1>7. \A h, n : Untaken(h, n) => Untaken(h, n)'
  BY <1>1, <1>2, <1>3, Zenon DEF Untaken
<1>8. \A h, n : Buffer(h, n) \/ Missed(h, n) => Buffer(h, n)' \/ Missed(h, n)'
  BY Zenon DEF Buffer, Missed
<1> QED
  BY <1>0, <1>3, <1>4, <1>5, <1>6, <1>7, <1>8, Zenon DEF UntakenInv, CompleteInv

LEMMA IndexBlockInv ==
  ASSUME ServiceInv, IndexBlock
  PROVE  ServiceInv'
<1>1. /\ service.pc = "block" /\ service' = [service EXCEPT !.pc = "batch"]
      /\ UNCHANGED <<bus, headers, txs, open, txIndex>>
  BY Zenon DEF IndexBlock
<1>2. lost \subseteq lost' /\ blockIndex \subseteq blockIndex'
  BY Zenon DEF IndexBlock, Commits
<1>3. service.height \in lost' \/ ReservedKey(service.height) \/ Has(service.height)'
  <2>1. CASE BlockRows(service.height) \subseteq blockIndex'
    <3>1. [key |-> heightKey(service.height), height |-> service.height] \in BlockRows(service.height)
      BY Zenon DEF BlockRows
    <3>2. service'.height = service.height
      BY <1>1, Zenon DEF ServiceInv, Typed
    <3> QED
      BY <2>1, <3>1, <3>2, Zenon DEF Has
  <2> QED
    BY <2>1, Zenon DEF IndexBlock, Commits
<1>4. Typed' /\ HeadersInv' /\ BatchInv' /\ BusInv' /\ UntakenInv' /\ OrderInv' /\ CompleteInv'
  BY <1>1, <1>2, CommitKeeps, Zenon
<1>5. service'.pc = "batch" /\ service'.pc # "header" /\ service'.height = service.height
  BY <1>1, Zenon DEF ServiceInv, Typed
<1>6. IndexedInv'
  <2>1. \A h : Has(h) => Has(h)'
    BY <1>2, Zenon DEF Has
  <2>2. \A h : h = service.height /\ h \notin lost' => Has(h)' \/ ReservedKey(h)
    BY <1>3, <1>5, Zenon DEF Has
  <2> QED
    BY <1>1, <1>2, <1>5, <2>1, <2>2, Zenon DEF ServiceInv, IndexedInv
<1> QED
  BY <1>4, <1>6, Zenon DEF ServiceInv

LEMMA AddBatchInv ==
  ASSUME ServiceInv, AddBatch
  PROVE  ServiceInv'
<1>0. Typed /\ BatchInv /\ IndexedInv /\ HeadersInv
  BY Zenon DEF ServiceInv
<1>1. /\ service.pc = "batch" /\ service' = AtHeader
      /\ UNCHANGED <<bus, headers, txs, open, blockIndex>>
  BY Zenon DEF AddBatch
<1>2. /\ lost \subseteq lost' /\ txIndex.results \subseteq txIndex'.results
      /\ service.height \in lost' \/ service.batch \subseteq txIndex'.results
  BY SMTT(30) DEF AddBatch, Commits
<1>3. Typed' /\ HeadersInv' /\ BatchInv' /\ BusInv' /\ UntakenInv' /\ OrderInv' /\ CompleteInv'
  BY <1>1, <1>2, CommitKeeps, Zenon
<1>4. \A n \in 1..NumTxs(service.height) : TxResult(service.height, n) \in service.batch
  <2>1. service.left = 0 /\ service.pc # "header" /\ service.height \in 1..bus.height
    BY <1>0, <1>1, Zenon DEF BatchInv, HeadersInv
  <2>2. NumTxs(service.height) - service.left = NumTxs(service.height)
    BY <1>0, <2>1, Numbers
  <2> QED
    BY <1>0, <2>1, <2>2, Zenon DEF BatchInv
<1>5. IndexedInv'
  <2>1. \A h : Has(h)' = Has(h)
    BY <1>1, Zenon DEF Has
  <2> QED
    BY <1>0, <1>1, <1>2, <1>4, <2>1, Zenon DEF IndexedInv
<1> QED
  BY <1>3, <1>5, Zenon DEF ServiceInv

LEMMA IndexCrashInv ==
  ASSUME ServiceInv, IndexCrash
  PROVE  ServiceInv'
<1>0. Typed /\ IndexedInv
  BY Zenon DEF ServiceInv
<1>1. PICK g \in {bus.height, bus.height + 1} \cap 0..Len(Chain) :
        /\ bus' = [height |-> g, sent |-> NumTxs(g)]
        /\ lost' = lost \cup Pending \cup ((bus.height + 1)..g)
  BY Zenon DEF IndexCrash
<1>2. headers' = <<>> /\ txs' = <<>> /\ service' = AtHeader /\ UNCHANGED <<txIndex, blockIndex>>
  BY Zenon DEF IndexCrash
<1>3. Len(headers') = 0 /\ Len(txs') = 0 /\ service'.pc = "header"
  BY <1>2, Zenon DEF AtHeader
<1>4. g \in 0..Len(Chain) /\ NumTxs(g) \in Nat /\ bus'.height = g /\ bus'.sent = NumTxs(g)
  BY <1>1, NumTxsNat, Zenon
<1>5. Typed'
  BY <1>1, <1>2, <1>4, SMTT(30) DEF Typed, AtHeader
<1>6. HeadersInv' /\ UntakenInv' /\ OrderInv'
  BY <1>3 DEF HeadersInv, UntakenInv, OrderInv
<1>7. BatchInv' /\ BusInv'
  BY <1>3, <1>4, SMTT(30) DEF BatchInv, BusInv
<1>8. CompleteInv'
  BY <1>3, <1>5, AwaitedIsNext, SMTT(30) DEF CompleteInv
<1>9. IndexedInv'
  <2>1. \A h \in 1..g : h \in 1..bus.height \/ h \in (bus.height + 1)..g
    BY <1>0, <1>1, Numbers
  <2>2. \A h \in (1..g) \ lost' : /\ h \in (1..bus.height) \ lost /\ h \notin Range(headers)
                                  /\ ~(service.pc # "header" /\ service.height = h)
    BY <1>1, <2>1, Zenon DEF Pending
  <2>3. \A h : Has(h)' = Has(h)
    BY <1>2, Zenon DEF Has
  <2> QED
    BY <1>0, <1>2, <1>4, <2>2, <2>3, Zenon DEF IndexedInv
<1> QED
  BY <1>5, <1>6, <1>7, <1>8, <1>9, Zenon DEF ServiceInv

-----------------------------------------------------------------------------
(* The theorem. *)

\* The blocks whose header waits, and the one the service works on, have their
\* transactions ahead.
LEMMA InvImplies == ServiceInv => EveryBlockIsIndexed
<1> SUFFICES ASSUME ServiceInv, NEW h \in (1..bus.height) \ lost
             PROVE  LET blockIn == Has(h) \/ ReservedKey(h)
                        batchIn == \A n \in 1..NumTxs(h) : TxResult(h, n) \in txIndex.results
                        taken == NumTxs(h) - service.left
                    IN  \/ blockIn /\ batchIn
                        \/ h \in Range(headers) /\ Coming(h) = 1..NumTxs(h)
                        \/ /\ service.pc # "header" /\ service.height = h
                           /\ service.batch = {TxResult(h, n) : n \in 1..taken}
                           /\ Coming(h) = (taken + 1)..NumTxs(h)
                           /\ service.pc = "batch" => blockIn
  BY Zenon DEF EveryBlockIsIndexed
<1>0. Typed /\ HeadersInv /\ BatchInv /\ UntakenInv /\ OrderInv /\ CompleteInv /\ IndexedInv
  BY Zenon DEF ServiceInv
<1>1. /\ NumTxs(h) \in Nat /\ Sent(h) \in Nat /\ Sent(h) <= NumTxs(h) /\ h \in 1..Len(Chain)
      /\ service.left \in Nat /\ h \in 1..bus.height /\ h \notin lost
      /\ Sent(h) # NumTxs(h) => h = bus.height
  BY <1>0, Numbers DEF Sent
<1>2. ASSUME NEW n \in 1..NumTxs(h)
      PROVE  /\ TxResult(h, n) \in Range(txs) <=> Buffer(h, n)
             /\ Buffer(h, n) => Untaken(h, n)
  <2>1. DOMAIN txs = 1..Len(txs)
    BY <1>0 DEF Typed
  <2>2. TxResult(h, n) \in Range(txs) <=> Buffer(h, n)
    BY <2>1, Zenon DEF Range, Buffer
  <2>3. TxResult(h, n).height = h /\ TxResult(h, n).index = n
    BY SameResult, Zenon
  <2> QED
    BY <1>0, <2>2, <2>3, Zenon DEF Buffer, UntakenInv
<1>3. ASSUME NEW k \in 1..(NumTxs(h) + 1), k <= Sent(h) + 1,
             \A n \in 1..NumTxs(h) : Buffer(h, n) <=> n \in k..Sent(h)
      PROVE  Coming(h) = k..NumTxs(h)
  <2>1. {n \in 1..NumTxs(h) : TxResult(h, n) \in Range(txs)} = k..Sent(h)
    <3>1. \A n \in k..Sent(h) : n \in 1..NumTxs(h)
      BY <1>1, <1>3
    <3> QED
      BY <1>2, <1>3, <3>1, Zenon
  <2>2. (IF h = bus.height THEN (bus.sent + 1)..NumTxs(h) ELSE {}) = (Sent(h) + 1)..NumTxs(h)
    BY <1>1 DEF Sent
  <2>3. (k..Sent(h)) \cup ((Sent(h) + 1)..NumTxs(h)) = k..NumTxs(h)
    BY <1>1, <1>3
  <2> QED
    BY <2>1, <2>2, <2>3, Zenon DEF Coming
<1>4. ASSUME h \in Awaited
      PROVE  \A n \in 1..NumTxs(h) : Buffer(h, n) <=> n \in Start(h)..Sent(h)
  <2>1. \A n \in Start(h)..Sent(h) : Buffer(h, n)
    BY <1>0, <1>1, <1>4, Zenon DEF CompleteInv, Missed
  <2>2. ASSUME NEW n \in 1..NumTxs(h), Untaken(h, n) PROVE n \in Start(h)..Sent(h)
    <3>1. ~\A g \in Awaited : g < h
      BY <1>1, <1>4
    <3>2. n >= Start(h) /\ n <= Sent(h)
      BY <2>2, <3>1, Zenon DEF Untaken
    <3> QED
      BY <1>0, <1>1, <3>2 DEF Start
  <2> QED
    BY <1>2, <2>1, <2>2, Zenon
<1>5. CASE h \in Range(headers)
  <2>1. h \in Awaited
    BY <1>5, Zenon DEF Awaited
  <2>2. Start(h) = 1
    <3>1. service.pc # "header" => service.height # h
      BY <1>0, <1>5, RangeIs DEF HeadersInv, Typed
    <3> QED
      BY <3>1, Zenon DEF Start
  <2>3. Coming(h) = 1..NumTxs(h)
    BY <1>1, <1>3, <1>4, <2>1, <2>2
  <2> QED
    BY <1>5, <2>3, Zenon
<1>6. CASE service.pc # "header" /\ service.height = h /\ (service.pc = "batch" => Has(h) \/ ReservedKey(h))
  <2> DEFINE taken == NumTxs(h) - service.left
  <2>1. /\ service.batch = {TxResult(h, n) : n \in 1..taken} /\ taken <= Sent(h)
    BY <1>0, <1>6, Zenon DEF BatchInv
  <2>2. taken + 1 \in 1..(NumTxs(h) + 1)
    BY <1>0, <1>1, <1>6 DEF BatchInv, Typed
  <2>3. \A n \in 1..NumTxs(h) : Buffer(h, n) <=> n \in (taken + 1)..Sent(h)
    <3>1. CASE service.pc = "txs"
      BY <1>0, <1>4, <1>6, <3>1, AwaitedIs, Zenon DEF Start
    <3>2. CASE service.pc \in {"block", "batch"}
      <4>1. service.left = 0
        BY <1>0, <3>2, Zenon DEF BatchInv
      <4>2. h \notin Awaited
        <5>1. \A i \in 1..Len(headers) : headers[i] # h
          BY <1>0, <1>1, <1>6 DEF HeadersInv, Typed
        <5>2. service.pc # "txs"
          BY <3>2, Zenon
        <5> QED
          BY <1>0, <5>1, <5>2, AwaitedIs, Zenon
      <4>3. ASSUME NEW n \in 1..NumTxs(h) PROVE ~Untaken(h, n)
        <5>1. ~(service.height < h)
          BY <1>1, <1>6
        <5> QED
          BY <1>6, <4>2, <5>1, Zenon DEF Untaken
      <4>4. \A n \in 1..NumTxs(h) : n \notin (taken + 1)..Sent(h)
        BY <1>1, <4>1
      <4> QED
        BY <1>2, <4>3, <4>4, Zenon
    <3> QED
      BY <1>0, <1>6, <3>1, <3>2, Zenon DEF Typed
  <2>4. taken + 1 <= Sent(h) + 1
    BY <1>1, <2>1
  <2>5. Coming(h) = (taken + 1)..NumTxs(h)
    <3> HIDE DEF taken
    <3> QED
      BY <1>3, <2>2, <2>3, <2>4, Zenon
  <2> QED
    BY <1>6, <2>1, <2>5, Zenon
<1> QED
  BY <1>0, <1>5, <1>6, Zenon DEF IndexedInv

\* The indexer service skips no published block and mixes no two (OnStart of
\* state/txindex/indexer_service.go), for every chain, every size of the buffers of the
\* two subscriptions and any number of crashes and failed commits.
THEOREM BlocksAreIndexed == IndexSpec => []EveryBlockIsIndexed
<1>1. ServiceInv /\ [IndexNext]_indexVars => ServiceInv'
  BY PublishHeaderInv, PublishTxInv, TakeHeaderInv, TakeTxInv, IndexBlockInv, AddBatchInv,
     IndexCrashInv, StutterInv, Zenon DEF IndexNext
<1> QED
  BY <1>1, InitInv, InvImplies, PTL DEF IndexSpec
=============================================================================
