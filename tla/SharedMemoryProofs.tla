-------------------------- MODULE SharedMemoryProofs --------------------------
(***************************************************************************)
(* The invariants of SharedMemory, for any pools, buffers, readers and     *)
(* sizes.  The inductive invariant has a part for the pools and their      *)
(* buffers, one for what the client was careless about, one for what       *)
(* refers to buffers, and one for the memory that was read into.           *)
(***************************************************************************)
EXTENDS SharedMemory, TLAPS, FiniteSetTheorems

PoolTypes == pool \in [Pools -> Pool] /\ buf \in [Buffers -> Buffer]

PoolInv ==
  /\ PoolTypes
  /\ \A b \in Buffers : buf[b].alive => buf[b].pool \in Pools
  /\ BuffersCovered /\ PoolsCounted

(* A file is found shorter than its pool only after the client was         *)
(* careless; SIGBUS is impossible for a sealed file, until the pool        *)
(* outgrows it.                                                            *)
Warned(q, slips) ==
  /\ q.impossible => q.sealed
  /\ q.file < q.size => "short file" \in slips
  /\ q.impossible /\ q.file < q.size => "outgrown" \in slips

Blame == {"left shader", "left surface", "short file", "outgrown"}
WarnInv == careless \subseteq Blame /\ \A p \in Pools : Warned(pool[p], careless)

(* What is pending of a reader is alive; what shaders and surfaces hold is *)
(* alive, or was left with them.                                           *)
RefTypes ==
  /\ wlbuf \subseteq WlBuffers
  /\ pend \in [Readers -> Buffers \cup {Nil}]
  /\ attached \in [Surfaces -> WlBuffers \cup {Nil}]
  /\ shader \in [Shaders -> [buf : Buffers \cup {Nil}, proxy : BOOLEAN]]

RefInv ==
  /\ RefTypes
  /\ \A r \in Readers : pend[r] # Nil => buf[pend[r]].alive
  /\ \A s \in Shaders :
       shader[s].buf # Nil => buf[shader[s].buf].alive \/ "left shader" \in careless
  /\ \A s \in Surfaces :
       attached[s] # Nil => attached[s] \in wlbuf \/ "left surface" \in careless

(* No chunk has two holders; and a client that is in no error has no pool  *)
(* that reads as zeros.                                                    *)
DataTypes ==
  /\ data \in [Holders -> Chunks \cup {Nil}] /\ content \in [Chunks -> Contents]
  /\ handed \subseteq Chunks /\ session \in BOOLEAN
  /\ drag \in [reader : Readers \cup {Nil}, buf : Buffers \cup {Nil}, map : 0..MaxMoves,
               chunk : Chunks \cup {Nil}]
  /\ client \in {"running", "failed", "dying"}

OneHolder == \A g, h \in Holders : data[g] # Nil /\ data[g] = data[h] => g = h

DataInv ==
  /\ DataTypes /\ OneHolder
  /\ drag # Idle => drag.reader \in Readers /\ drag.buf \in Buffers /\ drag.chunk \in Chunks
  /\ Fine /\ client = "running" => \A p \in Pools : ~pool[p].fallback
  /\ ZerosReported

MisuseInv == misuse \in {"none", "freed", "shader", "sigbus", "race"} /\ MisuseHasCause

(* The handler that the process has is one of those installed.             *)
HandlerInv ==
  /\ installed \subseteq Handlers
  /\ IF installed = {} THEN top = Nil ELSE top \in installed

IInv == PoolInv /\ WarnInv /\ RefInv /\ DataInv /\ HandlerInv /\ MisuseInv

----------------------------------------------------------------------------
(* Pools and buffers                                                       *)

(* Whatever a message carries as a size is none, or -1, or one of 32 bits. *)
LEMMA ArraysRange == Arrays \subseteq {Nil, -1} \cup Sizes
<1> SUFFICES ASSUME NEW a \in Arrays
             PROVE  a \in {Nil, -1} \cup Sizes
  OBVIOUS
<1>0. PICK bytes \in {2, 4, 8}, n \in -1..MaxPages : a \in FromArray(bytes, n)
  BY DEF Arrays
<1>1. n \in {-1} \cup Sizes
  BY SharedMemoryAssumption DEF Sizes
<1>2. n % Word \in Sizes
  BY SharedMemoryAssumption DEF Sizes
<1>3. CASE bytes = 8
  BY <1>0, <1>1, <1>3 DEF FromArray
<1>4. CASE bytes = 4
  BY <1>0, <1>2, <1>4 DEF FromArray
<1>5. CASE bytes = 2
  BY <1>0, <1>5 DEF FromArray
<1> QED BY <1>3, <1>4, <1>5

LEMMA BuffersFinite ==
  ASSUME NEW p
  PROVE  IsFiniteSet(BuffersOf(p)) /\ Cardinality(BuffersOf(p)) \in Nat
<1>1. BuffersOf(p) \in SUBSET Buffers
  BY DEF BuffersOf
<1>2. IsFiniteSet(BuffersOf(p))
  BY <1>1, FS_Subset, SharedMemoryAssumption
<1> QED BY <1>2, FS_CardinalityType

(* A pool that keeps its references, and neither shrinks nor loses its     *)
(* mapping, keeps its promises.                                            *)
Keeps(old, new) ==
  /\ new.resource = old.resource /\ new.refs = old.refs
  /\ old.map # 0 <=> new.map # 0
  /\ old.size <= new.size

LEMMA PoolsKept ==
  ASSUME PoolInv, pool' \in [Pools -> Pool], buf' = buf,
         \A p \in Pools : Keeps(pool[p], pool'[p])
  PROVE  PoolInv'
<1>1. BuffersCovered'
  <2> SUFFICES ASSUME NEW b \in Buffers, buf'[b].alive
               PROVE  /\ pool'[buf'[b].pool].map # 0
                      /\ buf'[b].size > 0
                      /\ buf'[b].offset + buf'[b].size <= pool'[buf'[b].pool].size
    BY DEF BuffersCovered, PoolOf
  <2> DEFINE p == buf[b].pool
  <2>1. p \in Pools /\ buf[b] \in Buffer /\ buf[b].alive
    BY DEF PoolInv, PoolTypes
  <2>2. /\ pool[p].map # 0 /\ buf[b].size > 0
        /\ buf[b].offset + buf[b].size <= pool[p].size
    BY <2>1 DEF PoolInv, BuffersCovered, PoolOf
  <2>3. pool[p].size \in Int /\ pool'[p].size \in Int
    BY <2>1, SharedMemoryAssumption DEF PoolInv, PoolTypes, Pool, Sizes
  <2>4. pool[p].size <= pool'[p].size /\ pool'[p].map # 0
    BY <2>1, <2>2 DEF Keeps
  <2>5. buf[b].offset + buf[b].size \in Int
    BY <2>1, SharedMemoryAssumption DEF Buffer, Sizes
  <2> QED BY <2>2, <2>3, <2>4, <2>5
<1>2. PoolsCounted'
  <2> SUFFICES ASSUME NEW p \in Pools
               PROVE  /\ pool'[p].refs = Cardinality(BuffersOf(p)')
                                         + (IF pool'[p].resource THEN 1 ELSE 0)
                      /\ pool'[p].map # 0 <=> pool'[p].refs # 0
    BY DEF PoolsCounted
  <2>1. BuffersOf(p)' = BuffersOf(p)
    BY DEF BuffersOf
  <2> QED BY <2>1 DEF PoolInv, PoolsCounted, Keeps
<1> QED BY <1>1, <1>2 DEF PoolInv, PoolTypes

(* An action on one pool q and buffers in it has to see to those alone.    *)
LEMMA OnePoolChanges ==
  ASSUME PoolInv, NEW q \in Pools, NEW c \in Pool, pool' = [pool EXCEPT ![q] = c],
         buf' \in [Buffers -> Buffer],
         \A b \in Buffers : \/ buf'[b] = buf[b]
                            \/ /\ buf[b].alive => buf[b].pool = q
                               /\ buf'[b].alive => buf'[b].pool = q,
         \A b \in Buffers : buf'[b].alive /\ buf'[b].pool = q =>
           c.map # 0 /\ buf'[b].size > 0 /\ buf'[b].offset + buf'[b].size <= c.size,
         c.refs = Cardinality(BuffersOf(q)') + (IF c.resource THEN 1 ELSE 0),
         c.map # 0 <=> c.refs # 0
  PROVE  PoolInv'
<1>1. pool' \in [Pools -> Pool] /\ pool'[q] = c /\ \A p \in Pools \ {q} : pool'[p] = pool[p]
  BY DEF PoolInv, PoolTypes
<1>2. \A b \in Buffers : buf'[b].alive => buf'[b].pool \in Pools
  BY DEF PoolInv
<1>3. ASSUME NEW b \in Buffers, buf'[b].alive
      PROVE  /\ pool'[buf'[b].pool].map # 0 /\ buf'[b].size > 0
             /\ buf'[b].offset + buf'[b].size <= pool'[buf'[b].pool].size
  <2>1. CASE buf'[b].pool = q
    BY <1>1, <1>3, <2>1
  <2>2. CASE buf'[b].pool # q
    <3>1. buf'[b] = buf[b] /\ buf[b].pool \in Pools \ {q}
      BY <1>2, <1>3, <2>2
    <3>2. /\ pool[buf[b].pool].map # 0 /\ buf[b].size > 0
          /\ buf[b].offset + buf[b].size <= pool[buf[b].pool].size
      BY <1>3, <3>1 DEF PoolInv, BuffersCovered, PoolOf
    <3> QED BY <1>1, <3>1, <3>2
  <2> QED BY <2>1, <2>2
<1>4. ASSUME NEW p \in Pools \ {q}
      PROVE  BuffersOf(p)' = BuffersOf(p)
  BY <1>4 DEF BuffersOf
<1>5. PoolsCounted'
  <2> SUFFICES ASSUME NEW p \in Pools
               PROVE  /\ pool'[p].refs = Cardinality(BuffersOf(p)')
                                         + (IF pool'[p].resource THEN 1 ELSE 0)
                      /\ pool'[p].map # 0 <=> pool'[p].refs # 0
    BY DEF PoolsCounted
  <2>1. CASE p = q
    BY <1>1, <2>1
  <2>2. CASE p # q
    BY <1>1, <1>4, <2>2 DEF PoolInv, PoolsCounted
  <2> QED BY <2>1, <2>2
<1> QED BY <1>1, <1>2, <1>3, <1>5 DEF PoolInv, PoolTypes, BuffersCovered, PoolOf

(* A pool that is not there has no buffers.                                *)
LEMMA NoPoolIsEmpty ==
  ASSUME PoolInv, NEW p \in Pools, pool[p].refs = 0
  PROVE  BuffersOf(p) = {} /\ ~pool[p].resource
<1>1. 0 = Cardinality(BuffersOf(p)) + (IF pool[p].resource THEN 1 ELSE 0)
  BY DEF PoolInv, PoolsCounted
<1>2. Cardinality(BuffersOf(p)) = 0 /\ ~pool[p].resource
  BY <1>1, BuffersFinite
<1> QED BY <1>2, BuffersFinite, FS_EmptySet

LEMMA CreatePoolKeeps ==
  ASSUME PoolInv, NEW p \in Pools, NEW size \in Arrays, NEW file \in 0..MaxPages,
         NEW sealed \in BOOLEAN, NEW ok \in BOOLEAN, CreatePool(p, size, file, sealed, ok)
  PROVE  PoolInv'
<1>0. buf' = buf /\ pool[p] = NoPool
  BY DEF CreatePool
<1>1. CASE pool' = pool
  <2>1. pool' \in [Pools -> Pool] /\ \A x \in Pools : pool[x].size <= pool'[x].size
    BY <1>1, SharedMemoryAssumption DEF PoolInv, PoolTypes, Pool, Sizes
  <2> QED BY <1>0, <1>1, <2>1, PoolsKept DEF Keeps
<1>2. CASE pool' # pool
  <2> DEFINE c == [resource |-> TRUE, refs |-> 1, size |-> size, newSize |-> size, map |-> 1,
                   impossible |-> sealed /\ file >= size, fallback |-> FALSE,
                   file |-> file, sealed |-> sealed]
  <2>1. size # Nil /\ ~(size <= 0) /\ pool' = [pool EXCEPT ![p] = c]
    BY <1>2 DEF CreatePool
  <2>2. size \in Sizes
    BY <2>1, ArraysRange
  <2>3. c \in Pool
    BY <2>2, SharedMemoryAssumption DEF Pool
  <2>4. BuffersOf(p) = {}
    BY <1>0, NoPoolIsEmpty DEF NoPool
  <2>5. BuffersOf(p)' = {} /\ \A b \in Buffers : ~(buf'[b].alive /\ buf'[b].pool = p)
    BY <1>0, <2>4 DEF BuffersOf
  <2>6. c.refs = 1 /\ c.resource /\ c.map = 1
    OBVIOUS
  <2>7. c.refs = Cardinality(BuffersOf(p)') + (IF c.resource THEN 1 ELSE 0)
    BY <2>5, <2>6, FS_EmptySet
  <2> HIDE DEF c
  <2> QED BY <1>0, <2>1, <2>3, <2>5, <2>6, <2>7, OnePoolChanges DEF PoolInv, PoolTypes
<1> QED BY <1>1, <1>2

(* finish_resize makes a pool larger if it does anything.                  *)
LEMMA ResizedWorks ==
  ASSUME NEW q \in Pool, NEW size \in Sizes, NEW ok \in BOOLEAN, q.size <= size,
         q.map # 0, q.map < MaxMoves
  PROVE  /\ Resized(q, size, ok) \in Pool /\ Keeps(q, Resized(q, size, ok))
         /\ Resized(q, size, ok).size \in {q.size, size}
         /\ \A f \in {"file", "impossible", "sealed", "fallback"} :
              Resized(q, size, ok)[f] = q[f]
<1> DEFINE n == [q EXCEPT !.newSize = size]
           s == [n EXCEPT !.size = size]
           m == q.map + 1
<1>0. q.size \in Int /\ size \in Int
  BY SharedMemoryAssumption DEF Pool, Sizes
<1>1. n \in Pool
  BY DEF Pool
<1>2. s \in Pool
  BY <1>1 DEF Pool
<1>3. m \in 0..MaxMoves /\ m # 0
  BY SharedMemoryAssumption DEF Pool
<1>4. Resized(q, size, ok) = IF q.size = size \/ ~ok THEN n ELSE [s EXCEPT !.map = m]
  BY Zenon DEF Resized
<1>5. CASE q.size = size \/ ~ok
  BY <1>0, <1>1, <1>4, <1>5 DEF Keeps, Pool
<1>6. CASE ~(q.size = size \/ ~ok)
  <2>1. Resized(q, size, ok) = [s EXCEPT !.map = m]
    BY <1>4, <1>6
  <2> HIDE DEF m
  <2> QED BY <1>0, <1>2, <1>3, <2>1 DEF Keeps, Pool
<1> QED BY <1>5, <1>6

LEMMA ResizeKeeps ==
  ASSUME PoolInv, NEW p \in Pools, NEW size \in -1..MaxPages, NEW ok \in BOOLEAN,
         Resize(p, size, ok)
  PROVE  /\ PoolInv'
         /\ pool' # pool => /\ size \in Sizes /\ pool[p].size <= size
                            /\ pool[p].map # 0 /\ pool[p].map < MaxMoves
                            /\ pool' = [pool EXCEPT ![p] = Resized(pool[p], size, ok)]
<1>0. buf' = buf /\ pool[p].resource /\ pool[p].map < MaxMoves
  BY DEF Resize
<1>1. /\ pool \in [Pools -> Pool] /\ \A x \in Pools : pool[x].size \in Int
      /\ pool[p].size \in Nat
  BY SharedMemoryAssumption DEF PoolInv, PoolTypes, Pool, Sizes
<1>2. pool[p].map # 0
  <2>1. pool[p].refs = Cardinality(BuffersOf(p)) + 1
    BY <1>0 DEF PoolInv, PoolsCounted
  <2>2. pool[p].refs # 0
    BY <2>1, BuffersFinite
  <2> QED BY <2>2 DEF PoolInv, PoolsCounted
<1>3. CASE pool' = pool
  BY <1>0, <1>1, <1>3, PoolsKept DEF Keeps
<1>4. CASE pool' # pool
  <2> DEFINE c == Resized(pool[p], size, ok)
  <2>1. pool' = [pool EXCEPT ![p] = c] /\ size >= pool[p].size
    BY <1>4, Zenon DEF Resize, Resizable
  <2>2. size \in Sizes /\ pool[p].size <= size
    BY <1>1, <2>1, SharedMemoryAssumption DEF Sizes
  <2>3. c \in Pool /\ Keeps(pool[p], c)
    BY <1>0, <1>1, <1>2, <2>2, ResizedWorks
  <2> HIDE DEF c
  <2>4. pool' \in [Pools -> Pool] /\ \A x \in Pools : Keeps(pool[x], pool'[x])
    BY <1>1, <2>1, <2>3 DEF Keeps
  <2>5. PoolInv'
    BY <1>0, <2>4, PoolsKept
  <2> QED BY <1>0, <1>2, <2>1, <2>2, <2>5 DEF c
<1> QED BY <1>3, <1>4

(* unref counts down, and unmaps with the last reference.                  *)
LEMMA UnrefWorks ==
  ASSUME NEW q \in Pool, q.refs # 0
  PROVE  /\ Unref(q) \in Pool /\ Unref(q).refs = q.refs - 1 /\ Unref(q).refs \in Nat
         /\ q.refs # 1 => /\ Unref(q).resource = q.resource /\ Unref(q).map = q.map
                          /\ Unref(q).size = q.size
         /\ q.refs = 1 => Unref(q) = NoPool
         /\ Unref(q) = NoPool \/
              \A f \in {"size", "file", "impossible", "sealed", "fallback"} : Unref(q)[f] = q[f]
<1>1. q.refs \in Nat \ {0}
  BY DEF Pool
<1>2. CASE q.refs = 1
  <2>1. Unref(q) = NoPool
    BY <1>2 DEF Unref
  <2>2. NoPool \in Pool
    BY SharedMemoryAssumption DEF NoPool, Pool, Sizes
  <2>3. NoPool.refs = 0
    BY DEF NoPool
  <2> QED BY <1>2, <2>1, <2>2, <2>3
<1>3. CASE q.refs # 1
  <2> DEFINE n == q.refs - 1
  <2>1. Unref(q) = [q EXCEPT !.refs = n]
    BY <1>3 DEF Unref
  <2>2. n \in Nat
    BY <1>1
  <2> HIDE DEF n
  <2>3. [q EXCEPT !.refs = n] \in Pool
    BY <2>2 DEF Pool
  <2> QED BY <1>3, <2>1, <2>2, <2>3 DEF Pool, n
<1> QED BY <1>2, <1>3

LEMMA DestroyPoolKeeps ==
  ASSUME PoolInv, NEW p \in Pools, DestroyPool(p)
  PROVE  PoolInv' /\ \E q \in Pool : /\ pool' = [pool EXCEPT ![p] = Unref(q)] /\ q.refs # 0
                                     /\ q = [pool[p] EXCEPT !.resource = FALSE]
<1> DEFINE q == [pool[p] EXCEPT !.resource = FALSE]
<1>0. buf' = buf /\ pool[p].resource /\ pool' = [pool EXCEPT ![p] = Unref(q)]
  BY DEF DestroyPool
<1>1. pool[p] \in Pool /\ buf \in [Buffers -> Buffer]
  BY DEF PoolInv, PoolTypes
<1>2. /\ q \in Pool /\ q.refs = pool[p].refs /\ ~q.resource
      /\ q.map = pool[p].map /\ q.size = pool[p].size
  BY <1>1 DEF Pool
<1>3. /\ q.refs = Cardinality(BuffersOf(p)) + 1 /\ q.map # 0
      /\ Cardinality(BuffersOf(p)) \in Nat /\ q.refs # 0
  <2>1. q.refs = Cardinality(BuffersOf(p)) + 1
    BY <1>0, <1>2 DEF PoolInv, PoolsCounted
  <2>2. q.refs # 0
    BY <2>1, BuffersFinite
  <2> QED BY <1>2, <2>1, <2>2, BuffersFinite DEF PoolInv, PoolsCounted
<1> HIDE DEF q
<1>4. BuffersOf(p)' = BuffersOf(p)
  BY <1>0 DEF BuffersOf
<1>5. /\ Unref(q) \in Pool
      /\ Unref(q).refs = Cardinality(BuffersOf(p)) + (IF Unref(q).resource THEN 1 ELSE 0)
      /\ Unref(q).map # 0 <=> Unref(q).refs # 0
      /\ BuffersOf(p) # {} => Unref(q).map = q.map /\ Unref(q).size = q.size
  <2>1. CASE q.refs = 1
    <3>1. Unref(q) = NoPool /\ NoPool \in Pool /\ Cardinality(BuffersOf(p)) = 0
      BY <1>2, <1>3, <2>1, UnrefWorks
    <3>2. BuffersOf(p) = {}
      BY <3>1, BuffersFinite, FS_EmptySet
    <3> QED BY <3>1, <3>2 DEF NoPool
  <2>2. CASE q.refs # 1
    <3>1. /\ Unref(q) \in Pool /\ Unref(q).refs = q.refs - 1
          /\ Unref(q).resource = q.resource /\ Unref(q).map = q.map /\ Unref(q).size = q.size
      BY <1>2, <1>3, <2>2, UnrefWorks
    <3> QED BY <1>2, <1>3, <2>2, <3>1
  <2> QED BY <2>1, <2>2
<1>6. ASSUME NEW b \in Buffers, buf[b].alive, buf[b].pool = p
      PROVE  /\ Unref(q).map # 0 /\ buf[b].size > 0
             /\ buf[b].offset + buf[b].size <= Unref(q).size
  <2>1. BuffersOf(p) # {}
    BY <1>6 DEF BuffersOf
  <2>2. buf[b].size > 0 /\ buf[b].offset + buf[b].size <= pool[p].size
    BY <1>6 DEF PoolInv, BuffersCovered, PoolOf
  <2> QED BY <1>2, <1>3, <1>5, <2>1, <2>2
<1>7. PoolInv'
  <2> DEFINE c == Unref(q)
  <2>1. /\ c \in Pool /\ pool' = [pool EXCEPT ![p] = c]
        /\ c.map # 0 <=> c.refs # 0
        /\ c.refs = Cardinality(BuffersOf(p)') + (IF c.resource THEN 1 ELSE 0)
    BY <1>0, <1>4, <1>5 DEF q
  <2>2. \A b \in Buffers : buf'[b].alive /\ buf'[b].pool = p =>
          c.map # 0 /\ buf'[b].size > 0 /\ buf'[b].offset + buf'[b].size <= c.size
    BY <1>0, <1>6
  <2>3. /\ buf' \in [Buffers -> Buffer]
        /\ \A b \in Buffers : \/ buf'[b] = buf[b]
                               \/ /\ buf[b].alive => buf[b].pool = p
                                  /\ buf'[b].alive => buf'[b].pool = p
    <3>1. buf' = buf
      BY <1>0
    <3> QED BY <1>1, <3>1
  <2> HIDE DEF c
  <2> QED BY <2>1, <2>2, <2>3, OnePoolChanges
<1> QED BY <1>0, <1>2, <1>3, <1>7 DEF q

LEMMA TruncateFileKeeps ==
  ASSUME PoolInv, NEW p \in Pools, NEW n \in 0..MaxPages, TruncateFile(p, n)
  PROVE  PoolInv'
<1>1. pool' = [pool EXCEPT ![p].file = n] /\ buf' = buf
  BY DEF TruncateFile
<1>2. pool' \in [Pools -> Pool]
  BY <1>1 DEF PoolInv, PoolTypes, Pool
<1>3. \A x \in Pools : pool[x].size \in Int
  BY SharedMemoryAssumption DEF PoolInv, PoolTypes, Pool, Sizes
<1>4. \A x \in Pools : Keeps(pool[x], pool'[x])
  BY <1>1, <1>3 DEF Keeps, PoolInv, PoolTypes, Pool
<1> QED BY <1>1, <1>2, <1>4, PoolsKept

LEMMA CreateBufferKeeps ==
  ASSUME PoolInv, NEW b \in Buffers, NEW p \in Pools, NEW offset \in Arrays,
         NEW size \in Arrays, NEW ok \in BOOLEAN, CreateBuffer(b, p, offset, size, ok)
  PROVE  /\ PoolInv' /\ buf'[b].alive \in BOOLEAN
         /\ \A x \in Buffers : buf[x].alive => buf'[x].alive
         /\ pool' = pool \/ pool' = [pool EXCEPT ![p].refs = pool[p].refs + 1]
<1>1. CASE pool' = pool /\ buf' = buf
  <2>1. pool' \in [Pools -> Pool] /\ \A x \in Pools : pool[x].size <= pool'[x].size
    BY <1>1, SharedMemoryAssumption DEF PoolInv, PoolTypes, Pool, Sizes
  <2>2. PoolInv'
    BY <1>1, <2>1, PoolsKept DEF Keeps
  <2> QED BY <1>1, <2>2 DEF PoolInv, PoolTypes, Buffer
<1>2. CASE ~(pool' = pool /\ buf' = buf)
  <2> DEFINE new == [alive |-> TRUE, pool |-> p, offset |-> offset, size |-> size]
             n == pool[p].refs + 1
             c == [pool[p] EXCEPT !.refs = n]
  <2>1. /\ offset # Nil /\ size # Nil /\ Inside(pool[p], offset, size)
        /\ buf' = [buf EXCEPT ![b] = new] /\ buf[b] = NoBuffer
        /\ pool' = [pool EXCEPT ![p].refs = n] /\ pool[p].resource
    BY <1>2 DEF CreateBuffer
  <2>2. pool[p] \in Pool /\ buf \in [Buffers -> Buffer] /\ pool \in [Pools -> Pool]
    BY DEF PoolInv, PoolTypes
  <2>3. /\ offset \in Sizes /\ size \in Sizes /\ size > 0
        /\ offset + size <= pool[p].size
    <3>1. ~(offset < 0) /\ ~(size <= 0) /\ ~(offset > pool[p].size - size)
      BY <2>1 DEF Inside
    <3>2. offset \in Int /\ size \in Int
      BY <2>1, ArraysRange, SharedMemoryAssumption DEF Sizes
    <3>3. offset \in Sizes /\ size \in Sizes
      <4>1. offset # -1 /\ size # -1
        BY <3>1
      <4> QED BY <2>1, <4>1, ArraysRange
    <3>4. pool[p].size \in Int
      BY <2>2, SharedMemoryAssumption DEF Pool, Sizes
    <3> QED BY <3>1, <3>2, <3>3, <3>4
  <2>4. /\ pool[p].refs = Cardinality(BuffersOf(p)) + 1 /\ pool[p].map # 0
        /\ pool[p].refs \in Nat
    <3>1. pool[p].refs = Cardinality(BuffersOf(p)) + 1
      BY <2>1 DEF PoolInv, PoolsCounted
    <3>2. pool[p].refs # 0 /\ pool[p].refs \in Nat
      BY <3>1, BuffersFinite
    <3> QED BY <3>1, <3>2 DEF PoolInv, PoolsCounted
  <2>5. n \in Nat /\ n # 0
    BY <2>4
  <2>6. /\ c \in Pool /\ c.refs = n /\ c.resource = pool[p].resource
        /\ c.map = pool[p].map /\ c.size = pool[p].size
    <3> HIDE DEF n
    <3> QED BY <2>2, <2>5 DEF Pool
  <2>7. pool' = [pool EXCEPT ![p] = c]
    BY <2>1, <2>2 DEF Pool
  <2>8. new \in Buffer /\ new.alive /\ new.pool = p /\ new.offset = offset /\ new.size = size
    BY <2>3 DEF Buffer
  <2> HIDE DEF new, c
  <2>9. buf' \in [Buffers -> Buffer] /\ buf'[b] = new /\ ~buf[b].alive
        /\ \A x \in Buffers \ {b} : buf'[x] = buf[x]
    BY <2>1, <2>2, <2>8 DEF NoBuffer
  <2>10. BuffersOf(p)' = BuffersOf(p) \cup {b} /\ b \notin BuffersOf(p)
    BY <2>8, <2>9 DEF BuffersOf
  <2>11. Cardinality(BuffersOf(p)') = Cardinality(BuffersOf(p)) + 1
    BY <2>10, BuffersFinite, FS_AddElement
  <2>12. c.refs = Cardinality(BuffersOf(p)') + (IF c.resource THEN 1 ELSE 0)
    BY <2>1, <2>4, <2>6, <2>11, BuffersFinite DEF n
  <2>13. ASSUME NEW x \in Buffers, buf'[x].alive, buf'[x].pool = p
         PROVE  c.map # 0 /\ buf'[x].size > 0 /\ buf'[x].offset + buf'[x].size <= c.size
    <3>1. CASE x = b
      BY <2>3, <2>4, <2>6, <2>8, <2>9, <3>1
    <3>2. CASE x # b
      BY <2>4, <2>6, <2>9, <2>13, <3>2 DEF PoolInv, BuffersCovered, PoolOf
    <3> QED BY <3>1, <3>2
  <2>14. PoolInv'
    <3>1. \A x \in Buffers : \/ buf'[x] = buf[x]
                             \/ /\ buf[x].alive => buf[x].pool = p
                                /\ buf'[x].alive => buf'[x].pool = p
      BY <2>8, <2>9
    <3>2. c.map # 0 <=> c.refs # 0
      BY <2>4, <2>5, <2>6
    <3>3. buf' \in [Buffers -> Buffer] /\ c \in Pool
      BY <2>6, <2>9
    <3> QED BY <2>7, <2>12, <2>13, <3>1, <3>2, <3>3, OnePoolChanges
  <2> QED BY <2>1, <2>8, <2>9, <2>14 DEF Buffer
<1> QED BY <1>1, <1>2

LEMMA DestroyBufferKeeps ==
  ASSUME PoolInv, NEW b \in Buffers, DestroyBuffer(b)
  PROVE  /\ PoolInv' /\ \A x \in Buffers \ {b} : buf'[x] = buf[x]
         /\ buf[b].pool \in Pools /\ pool[buf[b].pool].refs # 0
<1>0. PICK p \in Pools : p = buf[b].pool
  BY DEF DestroyBuffer, PoolInv
<1> DEFINE gone == [NoBuffer EXCEPT !.pool = p]
           q == pool[p]
           c == Unref(q)
<1>1. /\ buf[b].alive /\ buf' = [buf EXCEPT ![b] = gone]
      /\ pool' = [pool EXCEPT ![p] = c]
  BY <1>0 DEF DestroyBuffer
<1>2. /\ pool \in [Pools -> Pool] /\ buf \in [Buffers -> Buffer] /\ p \in Pools
      /\ q \in Pool /\ b \in BuffersOf(p)
  BY <1>0, <1>1 DEF PoolInv, PoolTypes, BuffersOf
<1>3. gone \in Buffer /\ ~gone.alive
  <2>1. NoBuffer \in Buffer /\ p \in Pools \cup {Nil} /\ ~NoBuffer.alive
    BY <1>2, SharedMemoryAssumption DEF NoBuffer, Buffer, Sizes
  <2> QED BY <2>1 DEF Buffer
<1> HIDE DEF gone
<1>4. /\ buf' \in [Buffers -> Buffer] /\ ~buf'[b].alive
      /\ \A x \in Buffers \ {b} : buf'[x] = buf[x]
  BY <1>1, <1>2, <1>3
<1>5. BuffersOf(p)' = BuffersOf(p) \ {b}
  BY <1>4 DEF BuffersOf
<1>6. /\ Cardinality(BuffersOf(p)') = Cardinality(BuffersOf(p)) - 1
      /\ Cardinality(BuffersOf(p)) \in Nat /\ Cardinality(BuffersOf(p)') \in Nat
      /\ IsFiniteSet(BuffersOf(p)')
  BY <1>2, <1>5, BuffersFinite, FS_RemoveElement, FS_CardinalityType
<1>7. /\ q.refs = Cardinality(BuffersOf(p)) + (IF q.resource THEN 1 ELSE 0)
      /\ q.map # 0 <=> q.refs # 0
  BY <1>2 DEF PoolInv, PoolsCounted
<1>8. q.refs # 0 /\ q.map # 0
  BY <1>6, <1>7
<1> HIDE DEF q
<1>9. /\ c \in Pool
      /\ c.refs = Cardinality(BuffersOf(p)') + (IF c.resource THEN 1 ELSE 0)
      /\ c.map # 0 <=> c.refs # 0
      /\ BuffersOf(p)' # {} => c.map = q.map /\ c.size = q.size
  <2>1. CASE q.refs = 1
    <3>1. c = NoPool /\ c \in Pool
      BY <1>2, <1>8, <2>1, UnrefWorks
    <3>2. Cardinality(BuffersOf(p)') = 0
      BY <1>6, <1>7, <2>1
    <3>3. BuffersOf(p)' = {}
      BY <1>6, <3>2, FS_EmptySet
    <3> QED BY <3>1, <3>2, <3>3 DEF NoPool
  <2>2. CASE q.refs # 1
    <3>1. /\ c \in Pool /\ c.refs = q.refs - 1
          /\ c.resource = q.resource /\ c.map = q.map /\ c.size = q.size
      BY <1>2, <1>8, <2>2, UnrefWorks
    <3> HIDE DEF c
    <3> QED BY <1>6, <1>7, <1>8, <2>2, <3>1
  <2> QED BY <2>1, <2>2
<1>10. ASSUME NEW x \in Buffers, buf'[x].alive, buf'[x].pool = p
       PROVE  c.map # 0 /\ buf'[x].size > 0 /\ buf'[x].offset + buf'[x].size <= c.size
  <2>1. x # b /\ buf'[x] = buf[x]
    BY <1>4, <1>10
  <2>2. x \in BuffersOf(p)'
    BY <1>10 DEF BuffersOf
  <2>3. buf[x].size > 0 /\ buf[x].offset + buf[x].size <= q.size
    BY <1>10, <2>1 DEF PoolInv, BuffersCovered, PoolOf, q
  <2> HIDE DEF c
  <2> QED BY <1>8, <1>9, <2>1, <2>2, <2>3
<1>11. PoolInv'
  <2>1. \A x \in Buffers : \/ buf'[x] = buf[x]
                           \/ /\ buf[x].alive => buf[x].pool = p
                              /\ buf'[x].alive => buf'[x].pool = p
    BY <1>0, <1>4
  <2>2. pool' = [pool EXCEPT ![p] = c] /\ buf' \in [Buffers -> Buffer]
    BY <1>1, <1>4
  <2>3. /\ c \in Pool
        /\ c.refs = Cardinality(BuffersOf(p)') + (IF c.resource THEN 1 ELSE 0)
        /\ c.map # 0 <=> c.refs # 0
    BY <1>9
  <2>4. \A x \in Buffers : buf'[x].alive /\ buf'[x].pool = p =>
          c.map # 0 /\ buf'[x].size > 0 /\ buf'[x].offset + buf'[x].size <= c.size
    BY <1>10
  <2> HIDE DEF c
  <2> QED BY <2>1, <2>2, <2>3, <2>4, OnePoolChanges
<1> QED BY <1>0, <1>2, <1>4, <1>8, <1>11 DEF q

(* Reading a buffer may leave zeros in the place of its pool, and an error *)
LEMMA ReadPool ==
  ASSUME PoolInv, NEW r \in Readers, NEW b \in Buffers, buf[b].alive, NEW chunk, NEW text,
         ReadInto(r, b, chunk, text), buf' = buf
  PROVE  /\ PoolInv'
         /\ \A p \in Pools : \A f \in {"size", "file", "impossible", "sealed"} :
              pool'[p][f] = pool[p][f]
         /\ \A p \in Pools : pool'[p].fallback =>
              pool[p].fallback \/ (misuse' = misuse /\ client' = "failed")
<1>1. pool \in [Pools -> Pool] /\ buf[b].pool \in Pools /\ pool[buf[b].pool] \in Pool
  BY DEF PoolInv, PoolTypes
<1>2. \A p \in Pools : pool[p].size \in Int
  BY <1>1, SharedMemoryAssumption DEF Pool, Sizes
<1>3. CASE pool' = pool
  <2>1. \A x \in Pools : Keeps(pool[x], pool'[x])
    BY <1>2, <1>3 DEF Keeps
  <2>2. PoolInv'
    BY <1>1, <1>3, <2>1, PoolsKept
  <2> QED BY <1>3, <2>2
<1>4. CASE pool' # pool
  <2> DEFINE p == buf[b].pool
             z == pool[p].fallback \/ Beyond(b)
             c == [pool[p] EXCEPT !.fallback = z]
  <2>1. pool' = [pool EXCEPT ![p].fallback = z] /\ misuse' = misuse /\ Reported(b)
    BY <1>4, Zenon DEF ReadInto
  <2>2. pool' = [pool EXCEPT ![p] = c]
    BY <1>1, <2>1
  <2>3. z \in BOOLEAN /\ (z => pool[p].fallback \/ client' = "failed")
    BY <1>1, <2>1 DEF Reported, Fail, Pool, Beyond
  <2> HIDE DEF z
  <2>4. /\ c \in Pool /\ Keeps(pool[p], c) /\ c.fallback = z
        /\ c.size = pool[p].size /\ c.file = pool[p].file
        /\ c.impossible = pool[p].impossible /\ c.sealed = pool[p].sealed
    <3>1. pool[p] \in Pool /\ pool[p].size \in Int
      BY <1>1, <1>2
    <3> HIDE DEF p
    <3> QED BY <3>1, <2>3 DEF Pool, Keeps
  <2> HIDE DEF c
  <2>5. pool' \in [Pools -> Pool] /\ \A x \in Pools : Keeps(pool[x], pool'[x])
    BY <1>1, <1>2, <2>2, <2>4 DEF Keeps
  <2>6. PoolInv'
    BY <2>5, PoolsKept
  <2> QED BY <1>1, <2>1, <2>2, <2>3, <2>4, <2>6
<1> QED BY <1>3, <1>4

(* A read of the event loop into a chunk that is free, or what completes   *)
(* that of the input thread.                                               *)
Reads(r, b, chunk, text) ==
  /\ buf[b].alive /\ pend[r] = b /\ ReadInto(r, b, chunk, text)
  /\ UNCHANGED <<buf, wlbuf, attached, session, careless>>
  /\ Fine
  /\ \/ chunk \in Allocated(r) /\ drag' = drag
     \/ chunk = drag.chunk /\ data[r] = chunk /\ drag' = Idle

LEMMA ReadsAlive ==
  ASSUME IInv, NEW text \in Written,
         (\E r \in Readers : Commit(r, text)) \/ (DragCopy(text) /\ Undisturbed)
  PROVE  \E r \in Readers, b \in Buffers, chunk \in Chunks : Reads(r, b, chunk, text)
<1>1. ASSUME NEW r \in Readers, Commit(r, text)
      PROVE  Reads(r, pend[r], Refill(r), text) /\ pend[r] \in Buffers /\ Refill(r) \in Chunks
  BY <1>1 DEF Commit, CanRefill, Refill, Allocated, Asking, Reads, IInv, RefInv, RefTypes
<1>2. ASSUME DragCopy(text), Undisturbed
      PROVE  /\ drag.reader \in Readers /\ drag.buf \in Buffers /\ drag.chunk \in Chunks
             /\ Reads(drag.reader, drag.buf, drag.chunk, text)
  <2>1. /\ drag.reader \in Readers /\ drag.buf \in Buffers /\ drag.chunk \in Chunks
        /\ ReadInto(drag.reader, drag.buf, drag.chunk, text) /\ drag' = Idle /\ Fine
        /\ UNCHANGED <<buf, wlbuf, attached, session, careless>>
    BY <1>2 DEF DragCopy, IInv, DataInv
  <2> QED BY <1>2, <2>1 DEF Undisturbed, Reads
<1> QED BY <1>1, <1>2

----------------------------------------------------------------------------
(* Every step preserves the invariant                                      *)

(* The steps, by what they do to pools.                                    *)
PoolStep ==
  \/ \E p \in Pools, size \in Arrays, file \in 0..MaxPages, sealed, ok \in BOOLEAN :
       CreatePool(p, size, file, sealed, ok)
  \/ \E p \in Pools, size \in -1..MaxPages, ok \in BOOLEAN : Resize(p, size, ok)
  \/ \E p \in Pools : DestroyPool(p)
  \/ \E p \in Pools, n \in 0..MaxPages : TruncateFile(p, n)
  \/ \E b \in Buffers, p \in Pools, offset, size \in Arrays, ok \in BOOLEAN :
       CreateBuffer(b, p, offset, size, ok)
  \/ \E b \in Buffers : DestroyBuffer(b)
ReadStep ==
  \E r \in Readers, b \in Buffers, chunk \in Chunks, text \in Written : Reads(r, b, chunk, text)
OtherStep ==
  \/ \E w \in WlBuffers : DestroyWlBuffer(w)
  \/ \E r \in Readers : DragBegin(r)
  \/ \E text \in Written : DragCopy(text) /\ ~Undisturbed
  \/ \E s \in Surfaces, text \in Written, supported, impossible, short \in BOOLEAN :
       CommitSurface(s, text, supported, impossible, short)
  \/ \E r \in Readers, b \in Buffers : Attach(r, b)
  \/ \E s \in Surfaces, w \in WlBuffers \cup {Nil} : AttachSurface(s, w)
  \/ \E s \in Shaders, b \in Buffers : CreateShader(s, b)
  \/ \E s \in Shaders : DestroyShader(s)
  \/ \E h \in Holders : DestroyHolder(h)
  \/ Teardown \/ EstablishSession \/ DisconnectSession
  \/ \E c \in Chunks : Sent(c)

LEMMA StepKinds ==
  ASSUME IInv, Next
  PROVE  PoolStep \/ ReadStep \/ OtherStep
<1>1. ASSUME NEW text \in Written,
             (\E r \in Readers : Commit(r, text)) \/ (DragCopy(text) /\ Undisturbed)
      PROVE  ReadStep
  BY <1>1, ReadsAlive DEF ReadStep
<1> QED BY <1>1 DEF Next, PoolStep, OtherStep

LEMMA OthersLeavePools ==
  ASSUME OtherStep
  PROVE  pool' = pool /\ buf' = buf
<1>1. ASSUME NEW s \in Surfaces, NEW text \in Written, NEW supported \in BOOLEAN,
             NEW impossible \in BOOLEAN, NEW short \in BOOLEAN,
             CommitSurface(s, text, supported, impossible, short)
      PROVE  pool' = pool /\ buf' = buf
  BY <1>1 DEF CommitSurface
<1> QED
  BY <1>1 DEF OtherStep, DestroyWlBuffer, DragBegin, DragCopy, Attach, AttachSurface, CreateShader,
     DestroyShader, DestroyHolder, Teardown, EstablishSession, DisconnectSession, Sent

LEMMA PoolInvStep ==
  ASSUME IInv, Next
  PROVE  PoolInv'
<1> USE DEF IInv
<1>1. CASE PoolStep
  BY <1>1, CreatePoolKeeps, ResizeKeeps, DestroyPoolKeeps, TruncateFileKeeps, CreateBufferKeeps,
     DestroyBufferKeeps DEF PoolStep
<1>2. CASE ReadStep
  BY <1>2, ReadPool DEF ReadStep, Reads
<1>3. CASE OtherStep
  <2>1. pool' = pool /\ buf' = buf
    BY <1>3, OthersLeavePools
  <2> QED BY <2>1 DEF PoolInv, PoolTypes, BuffersCovered, PoolsCounted, BuffersOf, PoolOf
<1> QED BY <1>1, <1>2, <1>3, StepKinds

(* The client's carelessness is not forgotten, and what has been found     *)
(* about a pool stays found.                                               *)
LEMMA WarningsKept ==
  ASSUME WarnInv, careless \subseteq careless', careless' \subseteq Blame,
         \A p \in Pools : \/ \A f \in {"size", "file", "impossible", "sealed"} :
                               pool'[p][f] = pool[p][f]
                          \/ Warned(pool'[p], careless')
  PROVE  WarnInv'
<1>1. ASSUME NEW p \in Pools
      PROVE  Warned(pool'[p], careless')
  <2>1. CASE Warned(pool'[p], careless')
    BY <2>1 DEF Warned
  <2>2. CASE \A f \in {"size", "file", "impossible", "sealed"} : pool'[p][f] = pool[p][f]
    <3>1. /\ pool'[p].size = pool[p].size /\ pool'[p].file = pool[p].file
          /\ pool'[p].impossible = pool[p].impossible /\ pool'[p].sealed = pool[p].sealed
      BY <2>2
    <3> QED BY <3>1 DEF WarnInv, Warned
  <2> QED BY <2>1, <2>2, <1>1
<1> QED BY <1>1 DEF WarnInv

LEMMA WarnInvStep ==
  ASSUME IInv, Next
  PROVE  WarnInv'
<1> USE DEF IInv
<1>0. /\ pool \in [Pools -> Pool] /\ \A p \in Pools : Warned(pool[p], careless)
      /\ careless \subseteq Blame
  BY DEF PoolInv, PoolTypes, WarnInv
<1>1. Warned(NoPool, careless')
  BY SharedMemoryAssumption DEF Warned, NoPool
<1>2. ASSUME NEW p \in Pools, NEW size \in Arrays, NEW file \in 0..MaxPages,
             NEW sealed \in BOOLEAN, NEW ok \in BOOLEAN, CreatePool(p, size, file, sealed, ok)
      PROVE  WarnInv'
  <2>1. /\ careless \subseteq careless' /\ careless' \subseteq Blame
        /\ size # Nil /\ file < size => "short file" \in careless'
    BY <1>0, <1>2 DEF CreatePool, Blame
  <2>2. CASE pool' = pool
    BY <2>1, <2>2, WarningsKept
  <2>3. CASE pool' # pool
    <3> DEFINE c == [resource |-> TRUE, refs |-> 1, size |-> size, newSize |-> size, map |-> 1,
                     impossible |-> sealed /\ file >= size, fallback |-> FALSE,
                     file |-> file, sealed |-> sealed]
    <3>1. size # Nil /\ pool' = [pool EXCEPT ![p] = c]
      BY <1>2, <2>3 DEF CreatePool
    <3>2. size \in Int /\ file \in Int
      BY <3>1, ArraysRange, SharedMemoryAssumption DEF Sizes
    <3>3. Warned(c, careless')
      <4>1. /\ c.size = size /\ c.file = file /\ c.sealed = sealed
            /\ c.impossible => sealed /\ file >= size
        OBVIOUS
      <4> HIDE DEF c
      <4>2. ~(c.impossible /\ c.file < c.size)
        BY <3>2, <4>1
      <4>3. c.file < c.size => "short file" \in careless'
        BY <2>1, <3>1, <4>1
      <4> QED BY <4>1, <4>2, <4>3 DEF Warned
    <3> HIDE DEF c
    <3>4. pool'[p] = c /\ \A x \in Pools \ {p} : pool'[x] = pool[x]
      BY <1>0, <3>1
    <3>5. Warned(pool'[p], careless')
      BY <3>3, <3>4 DEF Warned
    <3> QED BY <2>1, <3>4, <3>5, WarningsKept
  <2> QED BY <2>2, <2>3
<1>3. ASSUME NEW p \in Pools, NEW size \in -1..MaxPages, NEW ok \in BOOLEAN, Resize(p, size, ok)
      PROVE  WarnInv'
  <2>1. careless \subseteq careless' /\ careless' \subseteq Blame
    BY <1>0, <1>3 DEF Resize, Blame
  <2>2. CASE pool' = pool
    BY <2>1, <2>2, WarningsKept
  <2>3. CASE pool' # pool
    <3> DEFINE q == pool[p]
               c == Resized(q, size, ok)
    <3>1. /\ size \in Sizes /\ q.size <= size /\ q.map # 0 /\ q.map < MaxMoves
          /\ pool' = [pool EXCEPT ![p] = c] /\ q \in Pool /\ Warned(q, careless)
      BY <1>0, <1>3, <2>3, ResizeKeeps
    <3>2. /\ q.file < size => "short file" \in careless'
          /\ q.impossible /\ q.file < size => "outgrown" \in careless'
      BY <1>3, <2>3 DEF Resize
    <3> HIDE DEF q
    <3>3. /\ c.size \in {q.size, size} /\ c.file = q.file
          /\ c.impossible = q.impossible /\ c.sealed = q.sealed
      BY <3>1, ResizedWorks
    <3> HIDE DEF c
    <3>4. Warned(c, careless')
      BY <2>1, <3>1, <3>2, <3>3 DEF Warned
    <3>5. pool'[p] = c /\ \A x \in Pools \ {p} : pool'[x] = pool[x]
      BY <1>0, <3>1
    <3>6. Warned(pool'[p], careless')
      BY <3>4, <3>5 DEF Warned
    <3> QED BY <2>1, <3>5, <3>6, WarningsKept
  <2> QED BY <2>2, <2>3
<1>4. ASSUME NEW p \in Pools, NEW q \in Pool, q.refs # 0, pool' = [pool EXCEPT ![p] = Unref(q)],
             Warned(q, careless), careless \subseteq careless', careless' \subseteq Blame
      PROVE  WarnInv'
  <2> DEFINE c == Unref(q)
  <2>1. \/ c = NoPool
        \/ /\ c.size = q.size /\ c.file = q.file
           /\ c.impossible = q.impossible /\ c.sealed = q.sealed
    BY <1>4, UnrefWorks
  <2> HIDE DEF c
  <2>2. Warned(c, careless')
    BY <1>1, <1>4, <2>1 DEF Warned
  <2>3. pool'[p] = c /\ \A x \in Pools \ {p} : pool'[x] = pool[x]
    BY <1>0, <1>4 DEF c
  <2>4. Warned(pool'[p], careless')
    BY <2>2, <2>3 DEF Warned
  <2> QED BY <1>4, <2>3, <2>4, WarningsKept
<1>5. ASSUME NEW p \in Pools, DestroyPool(p)
      PROVE  WarnInv'
  <2>1. PICK q \in Pool : /\ pool' = [pool EXCEPT ![p] = Unref(q)] /\ q.refs # 0
                          /\ q = [pool[p] EXCEPT !.resource = FALSE]
    BY <1>5, DestroyPoolKeeps
  <2>2. Warned(q, careless)
    BY <1>0, <2>1 DEF Warned, Pool
  <2> QED BY <1>0, <1>4, <1>5, <2>1, <2>2 DEF DestroyPool
<1>6. ASSUME NEW p \in Pools, NEW n \in 0..MaxPages, TruncateFile(p, n)
      PROVE  WarnInv'
  <2>1. /\ careless \subseteq careless' /\ careless' \subseteq Blame
        /\ n < pool[p].size => "short file" \in careless'
    BY <1>0, <1>6 DEF TruncateFile, Blame
  <2>2. /\ pool' = [pool EXCEPT ![p].file = n]
        /\ pool[p].sealed => n >= pool[p].file
    BY <1>6 DEF TruncateFile
  <2>3. /\ pool'[p].file = n /\ pool'[p].size = pool[p].size
        /\ pool'[p].impossible = pool[p].impossible /\ pool'[p].sealed = pool[p].sealed
        /\ \A x \in Pools \ {p} : pool'[x] = pool[x]
    BY <1>0, <2>2 DEF Pool
  <2>4. n \in Int /\ pool[p].file \in Int /\ pool[p].size \in Int
    BY <1>0, SharedMemoryAssumption DEF Pool, Sizes
  <2>5. Warned(pool'[p], careless')
    <3>1. CASE pool[p].impossible
      <4>1. pool[p].sealed /\ n >= pool[p].file
        BY <1>0, <2>2, <3>1 DEF Warned
      <4>2. n < pool[p].size => "outgrown" \in careless'
        <5>1. pool[p].file < pool[p].size => "outgrown" \in careless
          BY <1>0, <3>1 DEF Warned
        <5>2. n < pool[p].size => pool[p].file < pool[p].size
          BY <2>4, <4>1
        <5> QED BY <2>1, <5>1, <5>2
      <4> QED BY <2>1, <2>3, <4>1, <4>2 DEF Warned
    <3>2. CASE ~pool[p].impossible
      BY <2>1, <2>3, <3>2 DEF Warned
    <3> QED BY <3>1, <3>2
  <2> QED BY <2>1, <2>3, <2>5, WarningsKept
<1>7. ASSUME NEW b \in Buffers, NEW p \in Pools, NEW offset \in Arrays, NEW size \in Arrays,
             NEW ok \in BOOLEAN, CreateBuffer(b, p, offset, size, ok)
      PROVE  WarnInv'
  <2>1. pool' = pool \/ pool' = [pool EXCEPT ![p].refs = pool[p].refs + 1]
    BY <1>7, CreateBufferKeeps
  <2>2. \A x \in Pools : /\ pool'[x].size = pool[x].size /\ pool'[x].file = pool[x].file
                         /\ pool'[x].impossible = pool[x].impossible
                         /\ pool'[x].sealed = pool[x].sealed
    BY <1>0, <2>1 DEF Pool
  <2>3. careless' = careless
    BY <1>7 DEF CreateBuffer
  <2> QED BY <1>0, <2>2, <2>3, WarningsKept
<1>8. ASSUME NEW b \in Buffers, DestroyBuffer(b)
      PROVE  WarnInv'
  <2>1. /\ careless \subseteq careless' /\ careless' \subseteq Blame
        /\ pool' = [pool EXCEPT ![buf[b].pool] = Unref(pool[buf[b].pool])]
    BY <1>0, <1>8 DEF DestroyBuffer, Blame
  <2>2. PICK p \in Pools : p = buf[b].pool /\ pool[p].refs # 0
    BY <1>8, DestroyBufferKeeps
  <2> QED BY <1>0, <1>4, <2>1, <2>2
<1>9. CASE ReadStep
  <2>1. careless' = careless
    BY <1>9 DEF ReadStep, Reads, ReadInto
  <2> QED BY <1>9, <2>1, <1>0, ReadPool, WarningsKept DEF ReadStep, Reads
<1>10. CASE OtherStep
  <2>1. pool' = pool
    BY <1>10, OthersLeavePools
  <2>2. careless \subseteq careless' /\ careless' \subseteq Blame
    <3>1. ASSUME NEW s \in Surfaces, NEW text \in Written, NEW supported \in BOOLEAN,
                 NEW impossible \in BOOLEAN, NEW short \in BOOLEAN,
                 CommitSurface(s, text, supported, impossible, short)
          PROVE  careless \subseteq careless' /\ careless' \subseteq Blame
      BY <1>0, <3>1 DEF CommitSurface, Blame
    <3> QED
      BY <1>0, <1>10, <3>1 DEF OtherStep, DestroyWlBuffer, DragBegin, DragCopy, Attach,
         AttachSurface, CreateShader, DestroyShader, DestroyHolder, Teardown, EstablishSession,
         DisconnectSession, Sent, Blame
  <2> QED BY <2>1, <2>2, WarningsKept
<1> QED BY <1>2, <1>3, <1>5, <1>6, <1>7, <1>8, <1>9, <1>10, StepKinds DEF PoolStep

(* References that stay where they were still hold, if buffers live on.    *)
LEMMA RefsKept ==
  ASSUME RefInv, RefTypes', careless \subseteq careless', wlbuf' = wlbuf,
         \A b \in Buffers : buf[b].alive => buf'[b].alive,
         \A r \in Readers : pend'[r] \in {Nil, pend[r]},
         \A s \in Shaders : shader'[s].buf \in {Nil, shader[s].buf},
         \A s \in Surfaces : attached'[s] \in {Nil, attached[s]}
  PROVE  RefInv'
<1>1. ASSUME NEW r \in Readers, pend'[r] # Nil
      PROVE  buf'[pend'[r]].alive
  <2>1. pend'[r] = pend[r] /\ pend[r] \in Buffers
    BY <1>1 DEF RefInv, RefTypes
  <2>2. buf[pend[r]].alive
    BY <1>1, <2>1 DEF RefInv
  <2> QED BY <2>1, <2>2
<1>2. \A s \in Shaders : shader'[s].buf # Nil =>
        buf'[shader'[s].buf].alive \/ "left shader" \in careless'
  BY DEF RefInv, RefTypes
<1>3. \A s \in Surfaces : attached'[s] # Nil =>
        attached'[s] \in wlbuf' \/ "left surface" \in careless'
  BY DEF RefInv
<1> QED BY <1>1, <1>2, <1>3 DEF RefInv

LEMMA SyncShadersKeeps ==
  ASSUME RefTypes, SyncShaders
  PROVE  /\ shader' \in [Shaders -> [buf : Buffers \cup {Nil}, proxy : BOOLEAN]]
         /\ \A s \in Shaders : shader'[s].buf = shader[s].buf
<1>1. ASSUME NEW s \in Shaders
      PROVE  /\ shader'[s] \in [buf : Buffers \cup {Nil}, proxy : BOOLEAN]
             /\ shader'[s].buf = shader[s].buf
  <2> DEFINE z == shader[s].buf # Nil
  <2>1. shader'[s] = [shader[s] EXCEPT !.proxy = z]
    BY DEF SyncShaders
  <2>2. z \in BOOLEAN
    OBVIOUS
  <2> HIDE DEF z
  <2> QED BY <2>1, <2>2 DEF RefTypes
<1>2. shader' = [s \in Shaders |-> shader'[s]]
  BY DEF SyncShaders
<1> QED BY <1>1, <1>2

LEMMA RefInvStep ==
  ASSUME IInv, Next
  PROVE  RefInv'
<1> USE DEF IInv
<1>0. RefTypes /\ RefInv /\ buf \in [Buffers -> Buffer]
  BY DEF RefInv, PoolInv, PoolTypes
<1>1. CASE PoolStep /\ ~\E b \in Buffers : DestroyBuffer(b)
  <2>1. /\ UNCHANGED <<wlbuf, pend, attached, shader>> /\ careless \subseteq careless'
    <3>1. ASSUME NEW p \in Pools, NEW size \in -1..MaxPages, NEW ok \in BOOLEAN,
                 Resize(p, size, ok)
          PROVE  UNCHANGED <<wlbuf, pend, attached, shader>> /\ careless \subseteq careless'
      BY <3>1 DEF Resize
    <3>2. ASSUME NEW p \in Pools, NEW size \in Arrays, NEW file \in 0..MaxPages,
                 NEW sealed \in BOOLEAN, NEW ok \in BOOLEAN,
                 CreatePool(p, size, file, sealed, ok)
          PROVE  UNCHANGED <<wlbuf, pend, attached, shader>> /\ careless \subseteq careless'
      BY <3>2 DEF CreatePool
    <3>3. ASSUME NEW p \in Pools, DestroyPool(p)
          PROVE  UNCHANGED <<wlbuf, pend, attached, shader>> /\ careless \subseteq careless'
      BY <3>3 DEF DestroyPool
    <3>4. ASSUME NEW p \in Pools, NEW n \in 0..MaxPages, TruncateFile(p, n)
          PROVE  UNCHANGED <<wlbuf, pend, attached, shader>> /\ careless \subseteq careless'
      BY <3>4 DEF TruncateFile
    <3>5. ASSUME NEW b \in Buffers, NEW p \in Pools, NEW offset \in Arrays,
                 NEW size \in Arrays, NEW ok \in BOOLEAN, CreateBuffer(b, p, offset, size, ok)
          PROVE  UNCHANGED <<wlbuf, pend, attached, shader>> /\ careless \subseteq careless'
      BY <3>5 DEF CreateBuffer
    <3> QED BY <1>1, <3>1, <3>2, <3>3, <3>4, <3>5 DEF PoolStep
  <2>2. \A b \in Buffers : buf[b].alive => buf'[b].alive
    BY <1>1, CreateBufferKeeps
       DEF PoolStep, CreatePool, Resize, DestroyPool, TruncateFile
  <2> QED BY <1>0, <2>1, <2>2, RefsKept DEF RefTypes
<1>2. ASSUME NEW b \in Buffers, DestroyBuffer(b)
      PROVE  RefInv'
  <2>1. /\ pend' = [r \in Readers |-> IF pend[r] = b THEN Nil ELSE pend[r]]
        /\ UNCHANGED <<wlbuf, attached, shader>> /\ careless \subseteq careless'
        /\ (\E s \in Shaders : shader[s].buf = b) => "left shader" \in careless'
    BY <1>2 DEF DestroyBuffer
  <2>2. \A x \in Buffers \ {b} : buf'[x] = buf[x]
    BY <1>2, DestroyBufferKeeps
  <2>3. RefTypes'
    BY <1>0, <2>1 DEF RefTypes
  <2>4. \A r \in Readers : pend'[r] # Nil => buf'[pend'[r]].alive
    BY <1>0, <2>1, <2>2 DEF RefInv, RefTypes
  <2>5. \A s \in Shaders : shader'[s].buf # Nil =>
          buf'[shader'[s].buf].alive \/ "left shader" \in careless'
    BY <1>0, <2>1, <2>2 DEF RefInv, RefTypes
  <2>6. \A s \in Surfaces : attached'[s] # Nil =>
          attached'[s] \in wlbuf' \/ "left surface" \in careless'
    BY <1>0, <2>1 DEF RefInv
  <2> QED BY <2>3, <2>4, <2>5, <2>6 DEF RefInv
<1>3. ASSUME NEW r \in Readers, NEW b \in Buffers, NEW chunk \in Chunks, NEW text \in Written,
             Reads(r, b, chunk, text)
      PROVE  RefInv'
  <2>1. /\ UNCHANGED <<buf, wlbuf, attached, careless>>
        /\ pend' = pend \/ pend' = [pend EXCEPT ![r] = Nil]
        /\ shader' = shader \/ SyncShaders
    BY <1>3 DEF Reads, ReadInto
  <2>2. RefTypes' /\ \A s \in Shaders : shader'[s].buf = shader[s].buf
    BY <1>0, <2>1, SyncShadersKeeps DEF RefTypes
  <2>3. \A x \in Readers : pend'[x] \in {Nil, pend[x]}
    BY <1>0, <2>1 DEF RefTypes
  <2> QED BY <1>0, <2>1, <2>2, <2>3, RefsKept
<1>4. CASE OtherStep
  <2>0. buf' = buf
    BY <1>4, OthersLeavePools
  <2>1. ASSUME UNCHANGED <<wlbuf, pend, attached, shader, careless>>
        PROVE  RefInv'
    BY <1>0, <2>0, <2>1 DEF RefInv, RefTypes
  <2>2. ASSUME NEW w \in WlBuffers, DestroyWlBuffer(w)
        PROVE  RefInv'
    <3>1. /\ wlbuf' = wlbuf \ {w} /\ UNCHANGED <<pend, attached, shader>>
          /\ careless \subseteq careless'
          /\ (\E s \in Surfaces : attached[s] = w) => "left surface" \in careless'
      BY <2>2 DEF DestroyWlBuffer
    <3> QED BY <1>0, <2>0, <3>1 DEF RefInv, RefTypes
  <2>3. ASSUME NEW s \in Surfaces, NEW text \in Written, NEW supported \in BOOLEAN,
               NEW impossible \in BOOLEAN, NEW short \in BOOLEAN,
               CommitSurface(s, text, supported, impossible, short)
        PROVE  RefInv'
    <3>1. /\ UNCHANGED <<wlbuf, pend, shader>> /\ careless \subseteq careless'
          /\ attached' = attached \/ attached' = [attached EXCEPT ![s] = Nil]
      BY <2>3 DEF CommitSurface
    <3>2. RefTypes' /\ \A x \in Surfaces : attached'[x] \in {Nil, attached[x]}
      BY <1>0, <3>1 DEF RefTypes
    <3> QED BY <1>0, <2>0, <3>1, <3>2, RefsKept
  <2>4. ASSUME NEW r \in Readers, NEW b \in Buffers, Attach(r, b)
        PROVE  RefInv'
    BY <1>0, <2>0, <2>4 DEF Attach, RefInv, RefTypes
  <2>5. ASSUME NEW s \in Surfaces, NEW w \in WlBuffers \cup {Nil}, AttachSurface(s, w)
        PROVE  RefInv'
    BY <1>0, <2>0, <2>5 DEF AttachSurface, RefInv, RefTypes
  <2>6. ASSUME NEW s \in Shaders, NEW b \in Buffers, CreateShader(s, b)
        PROVE  RefInv'
    <3>1. /\ UNCHANGED <<wlbuf, pend, attached, careless>> /\ buf[b].alive
          /\ shader' = [shader EXCEPT ![s].buf = b]
      BY <2>6 DEF CreateShader
    <3>2. RefTypes'
      BY <1>0, <3>1 DEF RefTypes
    <3>3. \A x \in Shaders : shader'[x].buf = IF x = s THEN b ELSE shader[x].buf
      BY <1>0, <3>1 DEF RefTypes
    <3> QED BY <1>0, <2>0, <3>1, <3>2, <3>3 DEF RefInv, RefTypes
  <2>7. ASSUME NEW s \in Shaders, DestroyShader(s)
        PROVE  RefInv'
    <3>1. /\ UNCHANGED <<wlbuf, pend, attached, careless>>
          /\ shader' = [shader EXCEPT ![s] = NoShader]
      BY <2>7 DEF DestroyShader
    <3>2. RefTypes' /\ \A x \in Shaders : shader'[x].buf \in {Nil, shader[x].buf}
      BY <1>0, <3>1 DEF RefTypes, NoShader
    <3> QED BY <1>0, <2>0, <3>1, <3>2, RefsKept
  <2>8. ASSUME NEW h \in Holders, DestroyHolder(h)
        PROVE  RefInv'
    <3>1. /\ UNCHANGED <<wlbuf, shader, careless>>
          /\ pend' = [r \in Readers |-> IF r = h THEN Nil ELSE pend[r]]
          /\ attached' = [s \in Surfaces |-> IF s = h THEN Nil ELSE attached[s]]
      BY <2>8 DEF DestroyHolder
    <3>2. /\ RefTypes' /\ \A r \in Readers : pend'[r] \in {Nil, pend[r]}
          /\ \A s \in Surfaces : attached'[s] \in {Nil, attached[s]}
      BY <1>0, <3>1 DEF RefTypes
    <3> QED BY <1>0, <2>0, <3>1, <3>2, RefsKept
  <2>9. ASSUME EstablishSession
        PROVE  RefInv'
    <3>1. UNCHANGED <<wlbuf, pend, attached, careless>> /\ (shader' = shader \/ SyncShaders)
      BY <2>9 DEF EstablishSession
    <3>2. RefTypes' /\ \A s \in Shaders : shader'[s].buf = shader[s].buf
      BY <1>0, <3>1, SyncShadersKeeps DEF RefTypes
    <3> QED BY <1>0, <2>0, <3>1, <3>2, RefsKept
  <2>10. ASSUME DisconnectSession
         PROVE  RefInv'
    <3>1. /\ UNCHANGED <<wlbuf, pend, attached, careless>>
          /\ shader' = [s \in Shaders |-> [shader[s] EXCEPT !.proxy = FALSE]]
      BY <2>10 DEF DisconnectSession
    <3>2. RefTypes' /\ \A s \in Shaders : shader'[s].buf = shader[s].buf
      BY <1>0, <3>1 DEF RefTypes
    <3> QED BY <1>0, <2>0, <3>1, <3>2, RefsKept
  <2>11. CASE \/ \E r \in Readers : DragBegin(r)
              \/ \E text \in Written : DragCopy(text) /\ ~Undisturbed
              \/ Teardown
              \/ \E c \in Chunks : Sent(c)
    BY <2>1, <2>11 DEF DragBegin, DragCopy, Teardown, Sent
  <2> QED BY <1>4, <2>2, <2>3, <2>4, <2>5, <2>6, <2>7, <2>8, <2>9, <2>10, <2>11 DEF OtherStep
<1> QED BY <1>1, <1>2, <1>3, <1>4, StepKinds DEF ReadStep

----------------------------------------------------------------------------
(* Memory that was read into                                               *)

(* Memory that is given up leaves what others hold, and what zen-remote    *)
(* holds, as it was.                                                       *)
LEMMA MemoryLost ==
  ASSUME DataTypes, OneHolder, data' \in [Holders -> Chunks \cup {Nil}],
         \A h \in Holders : data'[h] \in {Nil, data[h]},
         content' = content \/ content' = Kept(content)
  PROVE  /\ OneHolder' /\ content' \in [Chunks -> Contents]
         /\ \A h \in Holders : data'[h] # Nil =>
              data'[h] = data[h] /\ content'[data[h]] = content[data[h]]
         /\ \A c \in Chunks : c \in handed' => content'[c] = content[c]
<1>1. OneHolder'
  BY DEF OneHolder
<1>2. \A c \in Chunks : content'[c] \in {0, content[c]} /\
        (c \in handed' \/ (\E h \in Holders : data'[h] = c) => content'[c] = content[c])
  BY DEF Kept
<1>3. content' \in [Chunks -> Contents]
  BY <1>2 DEF Kept, DataTypes, Contents
<1>4. ASSUME NEW h \in Holders, data'[h] # Nil
      PROVE  data'[h] = data[h] /\ content'[data[h]] = content[data[h]]
  <2>1. data'[h] = data[h] /\ data[h] \in Chunks
    BY <1>4
  <2> QED BY <1>2, <2>1
<1> QED BY <1>1, <1>2, <1>3, <1>4

(* So does filling memory that nobody else holds.                          *)
Filled(new, chunk, t) ==
  /\ new \in [Chunks -> Contents] /\ new[chunk] = t
  /\ \A c \in Chunks \ {chunk} : new[c] = content[c]
HeldBy(h, chunk) ==
  /\ data' \in [Holders -> Chunks \cup {Nil}] /\ data'[h] = chunk
  /\ \A g \in Holders \ {h} : data'[g] = data[g] /\ data[g] # chunk

LEMMA MemoryFilled ==
  ASSUME DataTypes, OneHolder, NEW h \in Holders, NEW chunk \in Chunks, NEW t \in Contents,
         HeldBy(h, chunk), NEW new, Filled(new, chunk, t), content' = Kept(new)
  PROVE  /\ OneHolder' /\ content' \in [Chunks -> Contents] /\ content'[chunk] = t
         /\ \A g \in Holders \ {h} : data[g] # Nil => content'[data[g]] = content[data[g]]
         /\ \A c \in Chunks \ {chunk} : c \in handed' => content'[c] = content[c]
<1>1. /\ data' \in [Holders -> Chunks \cup {Nil}] /\ data'[h] = chunk
      /\ \A g \in Holders \ {h} : data'[g] = data[g] /\ data[g] # chunk
  BY DEF HeldBy
<1>2. new \in [Chunks -> Contents] /\ new[chunk] = t /\ \A c \in Chunks \ {chunk} : new[c] = content[c]
  BY DEF Filled
<1>3. OneHolder'
  BY <1>1 DEF OneHolder
<1>4. \A c \in Chunks : content'[c] \in {0, new[c]} /\
        (c \in handed' \/ (\E g \in Holders : data'[g] = c) => content'[c] = new[c])
  BY DEF Kept
<1>5. content' \in [Chunks -> Contents]
  BY <1>2, <1>4 DEF Kept, Contents
<1>6. content'[chunk] = t
  BY <1>1, <1>2, <1>4
<1>7. ASSUME NEW g \in Holders \ {h}, data[g] # Nil
      PROVE  content'[data[g]] = content[data[g]]
  <2>1. data[g] \in Chunks \ {chunk} /\ data'[g] = data[g]
    BY <1>1, <1>7 DEF DataTypes
  <2> QED BY <1>2, <1>4, <2>1
<1> QED BY <1>1, <1>2, <1>3, <1>4, <1>5, <1>6, <1>7

(* What a read does, unless it is undefined.                               *)
LEMMA ReadEffect ==
  ASSUME IInv, NEW r \in Readers, NEW b \in Buffers, NEW chunk \in Chunks, NEW text \in Written,
         Reads(r, b, chunk, text)
  PROVE  \/ /\ misuse' \in {"freed", "shader", "sigbus"}
            /\ UNCHANGED <<pool, data, content, handed, client>>
         \/ /\ misuse' = misuse /\ Reported(b) /\ handed' \in {handed, handed \cup {chunk}}
            /\ HeldBy(r, chunk)
            /\ TextOf(b, text) \in Contents
            /\ \E new : Filled(new, chunk, TextOf(b, text)) /\ content' = Kept(new)
<1>1. ReadInto(r, b, chunk, text) /\ misuse = "none"
  BY DEF Reads, Fine
<1>2. \A x : ShaderTrouble(x) \subseteq {"freed", "shader"}
  BY DEF ShaderTrouble
<1>3. TextOf(b, text) \in Contents
  BY DEF TextOf, Contents, Written
<1>4. \A g \in Holders \ {r} : data[g] # chunk
  <2>1. CASE chunk \in Allocated(r)
    BY <2>1 DEF Allocated
  <2>2. CASE data[r] = chunk
    BY <2>2, SharedMemoryAssumption DEF IInv, DataInv, OneHolder, Holders
  <2> QED BY <2>1, <2>2 DEF Reads
<1> DEFINE new == [content EXCEPT ![chunk] = TextOf(b, text)]
<1>5. Filled(new, chunk, TextOf(b, text))
  BY <1>3 DEF Filled, IInv, DataInv, DataTypes
<1>6. ReadInto(r, b, chunk, text) /\ misuse' = misuse => content' = Kept(new)
  BY <1>1 DEF ReadInto, ShaderTrouble
<1> HIDE DEF new
<1>7. CASE misuse' = misuse
  <2>1. data' = [data EXCEPT ![r] = chunk]
    BY <1>1, <1>2, <1>7 DEF ReadInto
  <2>2. HeldBy(r, chunk)
    BY <1>4, <2>1 DEF HeldBy, Holders, IInv, DataInv, DataTypes
  <2>3. Reported(b) /\ handed' \in {handed, handed \cup {chunk}}
    BY <1>1, <1>2, <1>7 DEF ReadInto
  <2> QED BY <1>3, <1>5, <1>6, <1>1, <1>7, <2>2, <2>3
<1>8. CASE misuse' # misuse
  BY <1>1, <1>2, <1>8 DEF ReadInto
<1> QED BY <1>7, <1>8

(* Steps that fill no memory, and end no drag but by misuse.               *)
LEMMA DataKept ==
  ASSUME IInv, DataTypes', Fine' => Fine /\ drag' = drag, drag' \in {drag, Idle},
         client' = "running" => client = "running",
         \A h \in Holders : data'[h] \in {Nil, data[h]},
         content' = content \/ content' = Kept(content),
         \A p \in Pools : pool'[p].fallback => pool[p].fallback
  PROVE  DataInv'
<1>0. DataInv /\ DataTypes /\ OneHolder
  BY DEF IInv, DataInv
<1>1. /\ OneHolder'
      /\ \A h \in Holders : data'[h] # Nil =>
           data'[h] = data[h] /\ content'[data[h]] = content[data[h]]
  BY <1>0, MemoryLost DEF DataTypes
<1>2. drag' # Idle => drag'.reader \in Readers /\ drag'.buf \in Buffers /\ drag'.chunk \in Chunks
  BY <1>0 DEF DataInv
<1>3. Fine' /\ client' = "running" => \A p \in Pools : ~pool'[p].fallback
  BY <1>0 DEF DataInv
<1>4. ZerosReported'
  BY <1>0, <1>1 DEF DataInv, ZerosReported, Holders
<1> QED BY <1>1, <1>2, <1>3, <1>4, Zenon DEF DataInv, Idle, Fine

(* Steps that fill a chunk: of a reader, not with zeros.                   *)
LEMMA DataFilled ==
  ASSUME IInv, NEW h \in Holders, NEW chunk \in Chunks, NEW t \in Contents, Fine,
         HeldBy(h, chunk), NEW new, Filled(new, chunk, t), content' = Kept(new),
         handed' \subseteq Chunks, session' \in BOOLEAN, client' \in {client, "failed"},
         \/ drag' = drag \/ (drag' = Idle /\ drag.chunk = chunk)
         \/ drag = Idle /\ \E r \in Readers, b \in Buffers, m \in 0..MaxMoves :
              drag' = [reader |-> r, buf |-> b, map |-> m, chunk |-> chunk],
         client' = "running" => /\ \A p \in Pools : pool'[p].fallback => pool[p].fallback
                                /\ h \in Readers => t # 0 \/ drag'.chunk = chunk
  PROVE  DataInv'
<1>0. DataInv /\ DataTypes /\ OneHolder
  BY DEF IInv, DataInv
<1>1. /\ OneHolder' /\ data' \in [Holders -> Chunks \cup {Nil}]
      /\ content' \in [Chunks -> Contents] /\ data'[h] = chunk /\ content'[chunk] = t
      /\ \A g \in Holders \ {h} : /\ data'[g] = data[g]
                                  /\ data[g] # Nil => content'[data[g]] = content[data[g]]
  BY <1>0, MemoryFilled DEF HeldBy
<1>2. CASE drag = Idle /\ \E r \in Readers, b \in Buffers, m \in 0..MaxMoves :
              drag' = [reader |-> r, buf |-> b, map |-> m, chunk |-> chunk]
  <2>1. drag' \in [reader : Readers \cup {Nil}, buf : Buffers \cup {Nil}, map : 0..MaxMoves,
                   chunk : Chunks \cup {Nil}]
    BY <1>2
  <2>2. drag'.reader \in Readers /\ drag'.buf \in Buffers /\ drag'.chunk = chunk
    BY <1>2
  <2>3. drag.chunk = Nil
    BY <1>2 DEF Idle
  <2>4. ASSUME NEW x \in Readers, Fine', client' = "running", data'[x] \notin {Nil, drag'.chunk}
        PROVE  content'[data'[x]] # 0
    <3>1. client = "running" /\ x \in Holders /\ x # h
      BY <1>0, <1>1, <2>2, <2>4 DEF DataTypes, Holders
    <3>2. data'[x] = data[x] /\ content'[data[x]] = content[data[x]] /\ data[x] # Nil
      BY <1>1, <2>4, <3>1
    <3> QED BY <1>0, <2>3, <3>1, <3>2 DEF DataInv, ZerosReported
  <2>5. DataTypes'
    BY <1>0, <1>1, <2>1 DEF DataTypes
  <2>6. Fine' /\ client' = "running" => \A p \in Pools : ~pool'[p].fallback
    BY <1>0 DEF DataInv, DataTypes
  <2> QED BY <1>1, <2>2, <2>4, <2>5, <2>6 DEF DataInv, ZerosReported
<1>3. CASE drag' = drag \/ (drag' = Idle /\ drag.chunk = chunk)
  <2>1. Idle \in [reader : Readers \cup {Nil}, buf : Buffers \cup {Nil}, map : 0..MaxMoves,
                  chunk : Chunks \cup {Nil}]
    BY SharedMemoryAssumption DEF Idle
  <2>2. DataTypes'
    BY <1>0, <1>1, <1>3, <2>1 DEF DataTypes
  <2>3. drag' # Idle => drag'.reader \in Readers /\ drag'.buf \in Buffers /\ drag'.chunk \in Chunks
    BY <1>0, <1>3 DEF DataInv
  <2>4. Fine' /\ client' = "running" => \A p \in Pools : ~pool'[p].fallback
    BY <1>0 DEF DataInv, DataTypes
  <2>5. ASSUME NEW x \in Readers, Fine', client' = "running", data'[x] \notin {Nil, drag'.chunk}
        PROVE  content'[data'[x]] # 0
    <3>1. client = "running" /\ x \in Holders
      BY <2>5, <1>0 DEF DataTypes, Holders
    <3>2. CASE x = h
      BY <1>1, <2>5, <3>2
    <3>3. CASE x # h
      <4>1. data'[x] = data[x] /\ content'[data[x]] = content[data[x]] /\ data[x] # chunk
        BY <1>1, <2>5, <3>1, <3>3 DEF HeldBy
      <4>2. data[x] \notin {Nil, drag.chunk}
        BY <1>3, <2>5, <4>1
      <4> QED BY <1>0, <3>1, <4>1, <4>2 DEF DataInv, ZerosReported
    <3> QED BY <3>2, <3>3
  <2>6. ZerosReported'
    BY <2>5 DEF ZerosReported
  <2> QED BY <1>1, <2>2, <2>3, <2>4, <2>6 DEF DataInv
<1> QED BY <1>2, <1>3

LEMMA DataInvStep ==
  ASSUME IInv, Next
  PROVE  DataInv'
<1>0. /\ DataInv /\ DataTypes /\ OneHolder /\ pool \in [Pools -> Pool] /\ ~NoPool.fallback
      /\ Idle.chunk = Nil
  BY DEF IInv, DataInv, PoolInv, PoolTypes, NoPool, Idle
<1>1. CASE PoolStep
  <2>1. /\ UNCHANGED <<data, content, handed, session, drag, misuse>>
        /\ client' \in {client, "failed"}
    <3>1. ASSUME NEW p \in Pools, NEW size \in Arrays, NEW file \in 0..MaxPages,
                 NEW sealed \in BOOLEAN, NEW ok \in BOOLEAN,
                 CreatePool(p, size, file, sealed, ok)
          PROVE  /\ UNCHANGED <<data, content, handed, session, drag, misuse>>
                 /\ client' \in {client, "failed"}
      BY <3>1 DEF CreatePool, Fail
    <3>2. ASSUME NEW p \in Pools, NEW size \in -1..MaxPages, NEW ok \in BOOLEAN,
                 Resize(p, size, ok)
          PROVE  /\ UNCHANGED <<data, content, handed, session, drag, misuse>>
                 /\ client' \in {client, "failed"}
      BY <3>2 DEF Resize, Fail
    <3>3. ASSUME NEW b \in Buffers, NEW p \in Pools, NEW offset \in Arrays,
                 NEW size \in Arrays, NEW ok \in BOOLEAN, CreateBuffer(b, p, offset, size, ok)
          PROVE  /\ UNCHANGED <<data, content, handed, session, drag, misuse>>
                 /\ client' \in {client, "failed"}
      BY <3>3 DEF CreateBuffer
    <3>4. CASE \/ \E p \in Pools : DestroyPool(p)
               \/ \E p \in Pools, n \in 0..MaxPages : TruncateFile(p, n)
               \/ \E b \in Buffers : DestroyBuffer(b)
      BY <3>4 DEF DestroyPool, TruncateFile, DestroyBuffer
    <3> QED BY <1>1, <3>1, <3>2, <3>3, <3>4 DEF PoolStep
  <2>2. \A p \in Pools : pool'[p].fallback => pool[p].fallback
    <3>1. ASSUME NEW p \in Pools, NEW size \in Arrays, NEW file \in 0..MaxPages,
                 NEW sealed \in BOOLEAN, NEW ok \in BOOLEAN,
                 CreatePool(p, size, file, sealed, ok), NEW x \in Pools, pool'[x].fallback
          PROVE  pool[x].fallback
      <4> DEFINE c == [resource |-> TRUE, refs |-> 1, size |-> size, newSize |-> size,
                       map |-> 1, impossible |-> sealed /\ file >= size,
                       fallback |-> FALSE, file |-> file, sealed |-> sealed]
      <4>1. pool' = pool \/ pool' = [pool EXCEPT ![p] = c]
        BY <3>1 DEF CreatePool
      <4>2. ~c.fallback
        OBVIOUS
      <4> HIDE DEF c
      <4> QED BY <1>0, <3>1, <4>1, <4>2
    <3>2. ASSUME NEW p \in Pools, NEW q \in Pool, pool' = [pool EXCEPT ![p] = q],
                 q.fallback => pool[p].fallback, NEW x \in Pools, pool'[x].fallback
          PROVE  pool[x].fallback
      BY <1>0, <3>2
    <3>3. ASSUME NEW p \in Pools, NEW size \in -1..MaxPages, NEW ok \in BOOLEAN,
                 Resize(p, size, ok), NEW x \in Pools, pool'[x].fallback
          PROVE  pool[x].fallback
      <4>1. CASE pool' # pool
        <5>1. /\ Resized(pool[p], size, ok) \in Pool
              /\ Resized(pool[p], size, ok).fallback = pool[p].fallback
              /\ pool' = [pool EXCEPT ![p] = Resized(pool[p], size, ok)]
          BY <1>0, <3>3, <4>1, ResizeKeeps, ResizedWorks DEF IInv
        <5> QED BY <3>2, <3>3, <5>1
      <4> QED BY <3>3, <4>1
    <3>4. ASSUME NEW p \in Pools, NEW q \in Pool, q.refs # 0,
                 pool' = [pool EXCEPT ![p] = Unref(q)],
                 q.fallback = pool[p].fallback, NEW x \in Pools, pool'[x].fallback
          PROVE  pool[x].fallback
      <4>1. Unref(q) \in Pool /\ (Unref(q).fallback => q.fallback)
        BY <1>0, <3>4, UnrefWorks
      <4> QED BY <3>2, <3>4, <4>1
    <3>5. ASSUME NEW p \in Pools, DestroyPool(p), NEW x \in Pools, pool'[x].fallback
          PROVE  pool[x].fallback
      <4>1. PICK q \in Pool : /\ pool' = [pool EXCEPT ![p] = Unref(q)] /\ q.refs # 0
                              /\ q = [pool[p] EXCEPT !.resource = FALSE]
        BY <3>5, DestroyPoolKeeps DEF IInv
      <4>2. q.fallback = pool[p].fallback
        BY <1>0, <4>1 DEF Pool
      <4> QED BY <3>4, <3>5, <4>1, <4>2
    <3>6. ASSUME NEW b \in Buffers, DestroyBuffer(b), NEW x \in Pools, pool'[x].fallback
          PROVE  pool[x].fallback
      <4>1. pool' = [pool EXCEPT ![buf[b].pool] = Unref(pool[buf[b].pool])]
        BY <3>6 DEF DestroyBuffer
      <4>2. buf[b].pool \in Pools /\ pool[buf[b].pool].refs # 0
        BY <3>6, DestroyBufferKeeps DEF IInv
      <4> QED BY <1>0, <3>4, <3>6, <4>1, <4>2
    <3>7. ASSUME NEW p \in Pools, NEW n \in 0..MaxPages, TruncateFile(p, n),
                 NEW x \in Pools, pool'[x].fallback
          PROVE  pool[x].fallback
      BY <1>0, <3>7 DEF TruncateFile, Pool
    <3>8. ASSUME NEW b \in Buffers, NEW p \in Pools, NEW offset \in Arrays,
                 NEW size \in Arrays, NEW ok \in BOOLEAN,
                 CreateBuffer(b, p, offset, size, ok), NEW x \in Pools, pool'[x].fallback
          PROVE  pool[x].fallback
      <4>1. pool' = pool \/ pool' = [pool EXCEPT ![p].refs = pool[p].refs + 1]
        BY <3>8, CreateBufferKeeps DEF IInv
      <4> QED BY <1>0, <3>8, <4>1 DEF Pool
    <3> QED BY <1>1, <3>1, <3>3, <3>5, <3>6, <3>7, <3>8 DEF PoolStep
  <2>3. DataTypes' /\ (Fine' => Fine)
    BY <1>0, <2>1 DEF DataTypes, Fine
  <2> QED BY <2>1, <2>2, <2>3, DataKept
<1>2. ASSUME NEW r \in Readers, NEW b \in Buffers, NEW chunk \in Chunks, NEW text \in Written,
             Reads(r, b, chunk, text)
      PROVE  DataInv'
  <2>0. /\ session' = session /\ Fine /\ r \in Holders
        /\ drag' = drag \/ (drag' = Idle /\ drag.chunk = chunk)
    BY <1>2 DEF Reads, Holders
  <2>1. CASE /\ misuse' \in {"freed", "shader", "sigbus"}
             /\ UNCHANGED <<pool, data, content, handed, client>>
    <3>1. Idle \in [reader : Readers \cup {Nil}, buf : Buffers \cup {Nil}, map : 0..MaxMoves,
                    chunk : Chunks \cup {Nil}]
      BY SharedMemoryAssumption DEF Idle
    <3>2. DataTypes' /\ ~Fine'
      BY <1>0, <2>0, <2>1, <3>1 DEF DataTypes, Fine
    <3> QED BY <2>0, <2>1, <3>2, DataKept
  <2>2. CASE ~(/\ misuse' \in {"freed", "shader", "sigbus"}
               /\ UNCHANGED <<pool, data, content, handed, client>>)
    <3> DEFINE t == TextOf(b, text)
    <3>1. /\ misuse' = misuse /\ Reported(b) /\ handed' \subseteq Chunks
          /\ HeldBy(r, chunk) /\ t \in Contents
      BY <1>0, <1>2, <2>2, ReadEffect DEF DataTypes
    <3>2. PICK new : Filled(new, chunk, t) /\ content' = Kept(new)
      BY <1>2, <2>2, ReadEffect
    <3>3. client' \in {client, "failed"}
      BY <3>1 DEF Reported, Fail
    <3>4. ASSUME client' = "running"
          PROVE  t # 0 /\ \A p \in Pools : pool'[p].fallback => pool[p].fallback
      <4>1. ~Beyond(b) /\ client = "running"
        BY <3>1, <3>4 DEF Reported, Fail
      <4>2. ~PoolOf(b).fallback
        <5>1. buf[b].pool \in Pools
          BY <1>2 DEF Reads, IInv, PoolInv
        <5> QED BY <1>0, <2>0, <4>1, <5>1 DEF DataInv, PoolOf
      <4>3. t # 0
        BY <4>1, <4>2 DEF TextOf, Written
      <4>4. \A p \in Pools : pool'[p].fallback => pool[p].fallback
        BY <1>2, <3>4, ReadPool DEF Reads, IInv
      <4> QED BY <4>3, <4>4
    <3> HIDE DEF t
    <3> QED BY <1>0, <2>0, <3>1, <3>2, <3>3, <3>4, DataFilled DEF DataTypes
  <2> QED BY <2>1, <2>2
<1>3. CASE OtherStep
  <2>0. pool' = pool
    BY <1>3, OthersLeavePools
  <2>1. ASSUME NEW r \in Readers, DragBegin(r)
        PROVE  DataInv'
    <3> DEFINE chunk == Refill(r)
               new == [content EXCEPT ![chunk] = 0]
    <3>1. /\ Fine /\ drag = Idle /\ pend[r] # Nil /\ CanRefill(r)
          /\ data' = [data EXCEPT ![r] = chunk] /\ content' = Kept(new)
          /\ UNCHANGED <<handed, session, client>>
          /\ drag' = [reader |-> r, buf |-> pend[r], map |-> PoolOf(pend[r]).map, chunk |-> chunk]
      BY <2>1 DEF DragBegin
    <3>2. chunk \in Chunks /\ \A g \in Holders \ {r} : data[g] # chunk
      BY <3>1 DEF CanRefill, Refill, Allocated
    <3>3. pend[r] \in Buffers /\ PoolOf(pend[r]).map \in 0..MaxMoves
      BY <1>0, <3>1 DEF IInv, RefInv, RefTypes, PoolInv, PoolOf, Pool
    <3> HIDE DEF chunk
    <3>4. Filled(new, chunk, 0) /\ 0 \in Contents
      BY <1>0, <3>2 DEF Filled, DataTypes, Contents
    <3>5. HeldBy(r, chunk) /\ r \in Holders
      BY <1>0, <3>1, <3>2 DEF HeldBy, DataTypes, Holders
    <3>6. drag'.chunk = chunk
      BY <3>1
    <3>7. \E x \in Readers, b \in Buffers, m \in 0..MaxMoves :
            drag' = [reader |-> x, buf |-> b, map |-> m, chunk |-> chunk]
      BY <3>1, <3>3
    <3>8. handed' \subseteq Chunks /\ session' \in BOOLEAN /\ client' = client
      BY <1>0, <3>1 DEF DataTypes
    <3> HIDE DEF new
    <3> QED BY <2>0, <3>1, <3>2, <3>4, <3>5, <3>6, <3>7, <3>8, DataFilled
  <2>2. ASSUME NEW text \in Written, DragCopy(text), ~Undisturbed
        PROVE  DataInv'
    <3>1. /\ drag' = Idle /\ misuse' = "race" /\ UNCHANGED <<data, content, handed, session, client>>
      BY <2>2 DEF DragCopy
    <3>2. Idle \in [reader : Readers \cup {Nil}, buf : Buffers \cup {Nil}, map : 0..MaxMoves,
                    chunk : Chunks \cup {Nil}]
      BY SharedMemoryAssumption DEF Idle
    <3>3. DataTypes' /\ ~Fine'
      BY <1>0, <3>1, <3>2 DEF DataTypes, Fine
    <3> QED BY <2>0, <3>1, <3>3, DataKept
  <2>3. ASSUME NEW s \in Surfaces, NEW text \in Written, NEW supported \in BOOLEAN,
               NEW impossible \in BOOLEAN, NEW short \in BOOLEAN,
               CommitSurface(s, text, supported, impossible, short)
        PROVE  DataInv'
    <3>1. /\ Fine /\ CanRefill(s) /\ s \in Holders /\ UNCHANGED <<session, drag>>
          /\ s \notin Readers
      BY <2>3, SharedMemoryAssumption DEF CommitSurface, Asking, Holders
    <3>2. CASE misuse' # misuse
      <4>1. UNCHANGED <<data, content, handed, client>>
        BY <2>3, <3>2 DEF CommitSurface
      <4>2. DataTypes' /\ ~Fine'
        BY <1>0, <3>1, <3>2, <4>1 DEF DataTypes, Fine
      <4> QED BY <2>0, <3>1, <4>1, <4>2, DataKept
    <3>3. CASE misuse' = misuse /\ ~(attached[s] \in wlbuf /\ supported)
      <4>0. ~(attached[s] \notin wlbuf \cup {Nil})
        BY <2>3, <3>1, <3>3 DEF CommitSurface, Fine
      <4>1. \A h \in Holders : data'[h] \in {Nil, data[h]}
        BY <1>0, <2>3, <3>1, <3>3, <4>0 DEF CommitSurface, DataTypes
      <4>2. (content' = content \/ content' = Kept(content)) /\ client' = client
        BY <2>3, <3>3, <4>0 DEF CommitSurface
      <4>3. data' \in [Holders -> Chunks \cup {Nil}]
        BY <1>0, <2>3, <3>1, <3>3, <4>0 DEF CommitSurface, DataTypes
      <4>4. content' \in [Chunks -> Contents]
        BY <1>0, <4>1, <4>2, <4>3, MemoryLost
      <4>5. handed' \subseteq Chunks
        <5>1. handed' = handed \/ handed' = handed \cup ({data'[s]} \ {Nil})
          BY <2>3, <3>3, <4>0 DEF CommitSurface
        <5> QED BY <1>0, <3>1, <4>3, <5>1 DEF DataTypes
      <4>6. DataTypes'
        BY <1>0, <3>1, <4>2, <4>3, <4>4, <4>5 DEF DataTypes
      <4> QED BY <2>0, <3>1, <3>3, <4>1, <4>2, <4>6, DataKept DEF Fine
    <3>4. CASE misuse' = misuse /\ attached[s] \in wlbuf /\ supported
      <4> DEFINE chunk == Refill(s)
                 t == IF short THEN 0 ELSE text
                 new == [content EXCEPT ![chunk] = t]
      <4>0. ~(short /\ (impossible \/ ~Handling("libwayland"))) /\ attached[s] # Nil
        BY <2>3, <3>1, <3>4, SharedMemoryAssumption DEF CommitSurface, Fine, IInv, RefInv, RefTypes
      <4>1. /\ data' = [data EXCEPT ![s] = chunk] /\ content' = Kept(new)
            /\ handed' \in {handed, handed \cup ({data'[s]} \ {Nil})}
            /\ client' \in {client, "failed"}
        BY <2>3, <3>4, <4>0 DEF CommitSurface
      <4>2. chunk \in Chunks /\ \A g \in Holders \ {s} : data[g] # chunk
        BY <3>1 DEF CanRefill, Refill, Allocated
      <4>3. t \in Contents
        BY DEF Contents
      <4> HIDE DEF chunk, t
      <4>4. Filled(new, chunk, t)
        BY <1>0, <4>2, <4>3 DEF Filled, DataTypes
      <4>5. HeldBy(s, chunk)
        BY <1>0, <3>1, <4>1, <4>2 DEF HeldBy, DataTypes
      <4>6. handed' \subseteq Chunks /\ session' \in BOOLEAN
        BY <1>0, <3>1, <4>1, <4>2, <4>5 DEF DataTypes, HeldBy
      <4> HIDE DEF new
      <4> QED BY <1>0, <2>0, <3>1, <4>1, <4>2, <4>3, <4>4, <4>5, <4>6, DataFilled DEF DataTypes
    <3> QED BY <3>2, <3>3, <3>4
  <2>4. ASSUME UNCHANGED <<data, content, drag>>, client' \in {client, "dying"},
               Fine' => Fine, handed' \subseteq Chunks, session' \in BOOLEAN
        PROVE  DataInv'
    <3>1. DataTypes' /\ (client' = "running" => client = "running")
      BY <1>0, <2>4 DEF DataTypes
    <3> QED BY <2>0, <2>4, <3>1, DataKept
  <2>5. ASSUME content' = Kept(content), UNCHANGED <<drag, client, session, misuse>>,
               handed' \subseteq Chunks, data' \in [Holders -> Chunks \cup {Nil}],
               \A h \in Holders : data'[h] \in {Nil, data[h]}
        PROVE  DataInv'
    <3>1. content' \in [Chunks -> Contents]
      BY <1>0, <2>5, MemoryLost
    <3>2. DataTypes'
      BY <1>0, <2>5, <3>1 DEF DataTypes
    <3> QED BY <2>0, <2>5, <3>2, DataKept DEF Fine
  <2>6. ASSUME NEW h \in Holders, DestroyHolder(h)
        PROVE  DataInv'
    BY <1>0, <2>5, <2>6 DEF DestroyHolder, DataTypes
  <2>7. ASSUME NEW c \in Chunks, Sent(c)
        PROVE  DataInv'
    BY <1>0, <2>5, <2>7 DEF Sent, DataTypes
  <2>8. CASE EstablishSession
    <3>1. {data[h] : h \in Holders} \ {Nil} \subseteq Chunks
      BY <1>0 DEF DataTypes
    <3>2. handed' \subseteq Chunks
      BY <1>0, <2>8, <3>1 DEF EstablishSession, DataTypes
    <3> QED BY <2>4, <2>8, <3>2 DEF EstablishSession
  <2>9. CASE \/ \E w \in WlBuffers : DestroyWlBuffer(w)
             \/ \E r \in Readers, b \in Buffers : Attach(r, b)
             \/ \E s \in Surfaces, w \in WlBuffers \cup {Nil} : AttachSurface(s, w)
             \/ \E s \in Shaders, b \in Buffers : CreateShader(s, b)
             \/ \E s \in Shaders : DestroyShader(s)
             \/ Teardown \/ DisconnectSession
    <3>1. /\ UNCHANGED <<data, content, drag, handed, misuse>> /\ client' \in {client, "dying"}
          /\ session' \in {session, FALSE}
      BY <2>9 DEF DestroyWlBuffer, Attach, AttachSurface, CreateShader, DestroyShader, Teardown,
         DisconnectSession
    <3>2. handed' \subseteq Chunks /\ session' \in BOOLEAN /\ (Fine' => Fine)
      BY <1>0, <3>1 DEF DataTypes, Fine
    <3> QED BY <2>4, <3>1, <3>2
  <2> QED BY <1>3, <2>1, <2>2, <2>3, <2>6, <2>7, <2>8, <2>9 DEF OtherStep
<1> QED BY <1>1, <1>2, <1>3, StepKinds DEF ReadStep

----------------------------------------------------------------------------
(* Undefined behaviour has a cause, and the theorems                       *)

(* A buffer that is alive and goes past its file shows that the file has   *)
(* become too short.                                                       *)
LEMMA BeyondIsShort ==
  ASSUME IInv, NEW b \in Buffers, buf[b].alive, Beyond(b)
  PROVE  /\ "short file" \in careless
         /\ ~Guarded(b) => "outgrown" \in careless \/ installed = Handlers
<1>1. PICK p \in Pools : p = buf[b].pool
  BY DEF IInv, PoolInv
<1>2. pool[p].file < buf[b].offset + buf[b].size /\ buf[b].offset + buf[b].size <= pool[p].size
  BY <1>1 DEF Beyond, PoolOf, IInv, PoolInv, BuffersCovered
<1>3. buf[b] \in Buffer /\ pool[p] \in Pool
  BY DEF IInv, PoolInv, PoolTypes
<1>4. buf[b].offset \in Int /\ buf[b].size \in Int /\ pool[p].size \in Int /\ pool[p].file \in Int
  BY <1>3, SharedMemoryAssumption DEF Buffer, Pool, Sizes
<1>5. pool[p].file < pool[p].size
  BY <1>2, <1>4
<1>6. Warned(pool[p], careless)
  BY DEF IInv, WarnInv
<1>7. ~Handling("yaza") => installed = Handlers
  BY DEF IInv, HandlerInv, Handling, Handlers
<1> QED BY <1>1, <1>5, <1>6, <1>7 DEF Warned, Guarded, PoolOf

(* The sync of shaders goes wrong if a buffer was left with one, or a file *)
(* has become too short.                                                   *)
LEMMA ShaderTroubleHasCause ==
  ASSUME IInv, NEW b, NEW m \in ShaderTrouble(b)
  PROVE  \/ m = "freed" /\ "left shader" \in careless
         \/ m = "shader" /\ "short file" \in careless
<1>1. PICK s \in Shaders : /\ shader[s].buf # Nil
                           /\ \/ ~buf[shader[s].buf].alive /\ m = "freed"
                              \/ /\ buf[shader[s].buf].alive /\ Beyond(shader[s].buf)
                                 /\ m = "shader"
  BY DEF ShaderTrouble, Unsynced
<1>2. shader[s].buf \in Buffers
  BY <1>1 DEF IInv, RefInv, RefTypes
<1> QED BY <1>1, <1>2, BeyondIsShort DEF IInv, RefInv

(* Handlers of SIGBUS are installed, and never removed.                    *)
LEMMA HandlersInstalled ==
  ASSUME IInv, Next
  PROVE  UNCHANGED handlers \/ \E h \in Handlers : Install(h)
<1>1. CASE PoolStep
  <2>1. ASSUME NEW p \in Pools, NEW size \in Arrays, NEW file \in 0..MaxPages,
               NEW sealed \in BOOLEAN, NEW ok \in BOOLEAN, CreatePool(p, size, file, sealed, ok)
        PROVE  UNCHANGED handlers
    BY <2>1 DEF CreatePool
  <2>2. ASSUME NEW p \in Pools, NEW size \in -1..MaxPages, NEW ok \in BOOLEAN,
               Resize(p, size, ok)
        PROVE  UNCHANGED handlers
    BY <2>2 DEF Resize
  <2>3. ASSUME NEW b \in Buffers, NEW p \in Pools, NEW offset \in Arrays,
               NEW size \in Arrays, NEW ok \in BOOLEAN, CreateBuffer(b, p, offset, size, ok)
        PROVE  UNCHANGED handlers
    BY <2>3 DEF CreateBuffer
  <2>4. CASE \/ \E p \in Pools : DestroyPool(p)
             \/ \E p \in Pools, n \in 0..MaxPages : TruncateFile(p, n)
             \/ \E b \in Buffers : DestroyBuffer(b)
    BY <2>4 DEF DestroyPool, TruncateFile, DestroyBuffer
  <2> QED BY <1>1, <2>1, <2>2, <2>3, <2>4 DEF PoolStep
<1>2. CASE ReadStep
  BY <1>2 DEF ReadStep, Reads, ReadInto, BeginAccess, Handlers
<1>3. CASE OtherStep
  <2>1. ASSUME NEW s \in Surfaces, NEW text \in Written, NEW supported \in BOOLEAN,
               NEW impossible \in BOOLEAN, NEW short \in BOOLEAN,
               CommitSurface(s, text, supported, impossible, short)
        PROVE  UNCHANGED handlers \/ \E h \in Handlers : Install(h)
    BY <2>1 DEF CommitSurface, Handlers
  <2>2. CASE \/ \E w \in WlBuffers : DestroyWlBuffer(w)
             \/ \E r \in Readers : DragBegin(r)
             \/ \E text \in Written : DragCopy(text) /\ ~Undisturbed
             \/ \E r \in Readers, b \in Buffers : Attach(r, b)
             \/ \E s \in Surfaces, w \in WlBuffers \cup {Nil} : AttachSurface(s, w)
             \/ \E s \in Shaders, b \in Buffers : CreateShader(s, b)
             \/ \E s \in Shaders : DestroyShader(s)
             \/ \E h \in Holders : DestroyHolder(h)
             \/ Teardown \/ EstablishSession \/ DisconnectSession
             \/ \E c \in Chunks : Sent(c)
    BY <2>2 DEF DestroyWlBuffer, DragBegin, DragCopy, Attach, AttachSurface, CreateShader,
       DestroyShader, DestroyHolder, Teardown, EstablishSession, DisconnectSession, Sent
  <2> QED BY <1>3, <2>1, <2>2 DEF OtherStep
<1> QED BY <1>1, <1>2, <1>3, StepKinds

LEMMA HandlerInvStep ==
  ASSUME IInv, Next
  PROVE  HandlerInv' /\ installed \subseteq installed'
<1>1. HandlerInv
  BY DEF IInv
<1>2. CASE UNCHANGED handlers
  BY <1>1, <1>2 DEF HandlerInv, handlers
<1>3. ASSUME NEW h \in Handlers, Install(h) PROVE HandlerInv' /\ installed \subseteq installed'
  BY <1>1, <1>3 DEF HandlerInv, Install
<1> QED BY <1>2, <1>3, HandlersInstalled

LEMMA MisuseInvStep ==
  ASSUME IInv, Next
  PROVE  MisuseInv'
<1>0. IInv /\ MisuseInv
  BY DEF IInv
<1>1. ASSUME misuse' = misuse, careless \subseteq careless'
      PROVE  MisuseInv'
  <2>1. installed = Handlers => installed' = Handlers
    BY HandlerInvStep DEF HandlerInv
  <2> QED BY <1>0, <1>1, <2>1 DEF MisuseInv, MisuseHasCause, Handlers
<1>2. ASSUME \/ misuse' = "race"
             \/ misuse' = "freed" /\ careless' \cap {"left shader", "left surface"} # {}
             \/ misuse' = "shader" /\ "short file" \in careless'
             \/ /\ misuse' = "sigbus"
                /\ \/ "outgrown" \in careless'
                   \/ "short file" \in careless' /\ installed' = Handlers
      PROVE  MisuseInv'
  BY <1>2 DEF MisuseInv, MisuseHasCause, Handlers
<1>3. CASE PoolStep
  <2>1. ASSUME NEW p \in Pools, NEW size \in Arrays, NEW file \in 0..MaxPages,
               NEW sealed \in BOOLEAN, NEW ok \in BOOLEAN, CreatePool(p, size, file, sealed, ok)
        PROVE  misuse' = misuse /\ careless \subseteq careless'
    BY <2>1 DEF CreatePool
  <2>2. ASSUME NEW p \in Pools, NEW size \in -1..MaxPages, NEW ok \in BOOLEAN,
               Resize(p, size, ok)
        PROVE  misuse' = misuse /\ careless \subseteq careless'
    BY <2>2 DEF Resize
  <2>3. ASSUME NEW b \in Buffers, NEW p \in Pools, NEW offset \in Arrays,
               NEW size \in Arrays, NEW ok \in BOOLEAN, CreateBuffer(b, p, offset, size, ok)
        PROVE  misuse' = misuse /\ careless \subseteq careless'
    BY <2>3 DEF CreateBuffer
  <2>4. CASE \/ \E p \in Pools : DestroyPool(p)
             \/ \E p \in Pools, n \in 0..MaxPages : TruncateFile(p, n)
             \/ \E b \in Buffers : DestroyBuffer(b)
    BY <1>1, <2>4 DEF DestroyPool, TruncateFile, DestroyBuffer
  <2> QED BY <1>1, <1>3, <2>1, <2>2, <2>3, <2>4 DEF PoolStep
<1>4. ASSUME NEW r \in Readers, NEW b \in Buffers, NEW chunk \in Chunks, NEW text \in Written,
             Reads(r, b, chunk, text)
      PROVE  MisuseInv'
  <2>1. careless' = careless /\ buf[b].alive /\ ReadInto(r, b, chunk, text)
    BY <1>4 DEF Reads
  <2>2. CASE Beyond(b) /\ ~Guarded(b)
    <3>1. misuse' = "sigbus"
      BY <2>1, <2>2 DEF ReadInto
    <3>2. "outgrown" \in careless \/ ("short file" \in careless /\ installed = Handlers)
      BY <1>0, <2>1, <2>2, BeyondIsShort
    <3>3. installed = Handlers => installed' = Handlers
      BY HandlerInvStep DEF HandlerInv
    <3> QED BY <1>2, <2>1, <3>1, <3>2, <3>3
  <2>3. CASE ~(Beyond(b) /\ ~Guarded(b))
    <3>1. misuse' \in ShaderTrouble(b) \/ misuse' = misuse
      BY <2>1, <2>3 DEF ReadInto
    <3>2. CASE misuse' \in ShaderTrouble(b)
      BY <1>0, <1>2, <2>1, <3>2, ShaderTroubleHasCause
    <3>3. CASE misuse' = misuse
      BY <1>1, <2>1, <3>3
    <3> QED BY <3>1, <3>2, <3>3
  <2> QED BY <2>2, <2>3
<1>5. CASE OtherStep
  <2>1. ASSUME NEW w \in WlBuffers, DestroyWlBuffer(w)
        PROVE  misuse' = misuse /\ careless \subseteq careless'
    BY <2>1 DEF DestroyWlBuffer
  <2>2. ASSUME NEW text \in Written, DragCopy(text), ~Undisturbed
        PROVE  MisuseInv'
    BY <1>2, <2>2 DEF DragCopy
  <2>3. ASSUME NEW s \in Surfaces, NEW text \in Written, NEW supported \in BOOLEAN,
               NEW impossible \in BOOLEAN, NEW short \in BOOLEAN,
               CommitSurface(s, text, supported, impossible, short)
        PROVE  MisuseInv'
    <3>1. careless \subseteq careless'
      BY <2>3 DEF CommitSurface
    <3>2. CASE attached[s] \notin wlbuf \cup {Nil}
      <4>1. misuse' = "freed" /\ "left surface" \in careless
        BY <1>0, <2>3, <3>2 DEF CommitSurface, IInv, RefInv
      <4> QED BY <1>2, <3>1, <4>1
    <3>3. CASE attached[s] \in wlbuf /\ supported /\ short
               /\ (impossible \/ ~Handling("libwayland"))
      <4>1. misuse' = "sigbus" /\ "short file" \in careless'
        BY <2>3, <3>3 DEF CommitSurface
      <4>2. CASE impossible
        <5>1. "outgrown" \in careless'
          BY <2>3, <3>3, <4>2 DEF CommitSurface
        <5> QED BY <1>2, <4>1, <5>1
      <4>3. CASE ~Handling("libwayland")
        <5>1. installed = Handlers
          BY <1>0, <4>3 DEF IInv, HandlerInv, Handling, Handlers
        <5>2. installed' = Handlers
          BY <5>1, HandlerInvStep DEF HandlerInv
        <5> QED BY <1>2, <4>1, <5>2
      <4> QED BY <3>3, <4>2, <4>3
    <3>4. CASE /\ ~(attached[s] \notin wlbuf \cup {Nil})
               /\ ~(attached[s] \in wlbuf /\ supported /\ short
                    /\ (impossible \/ ~Handling("libwayland")))
      <4>1. misuse' = misuse
        BY <2>3, <3>4 DEF CommitSurface
      <4> QED BY <1>1, <3>1, <4>1
    <3> QED BY <3>2, <3>3, <3>4
  <2>4. CASE EstablishSession
    <3>1. careless' = careless /\ (misuse' \in ShaderTrouble(Nil) \/ misuse' = misuse)
      BY <2>4 DEF EstablishSession
    <3> QED BY <1>0, <1>1, <1>2, <3>1, ShaderTroubleHasCause
  <2>5. CASE \/ \E r \in Readers : DragBegin(r)
             \/ \E r \in Readers, b \in Buffers : Attach(r, b)
             \/ \E s \in Surfaces, w \in WlBuffers \cup {Nil} : AttachSurface(s, w)
             \/ \E s \in Shaders, b \in Buffers : CreateShader(s, b)
             \/ \E s \in Shaders : DestroyShader(s)
             \/ \E h \in Holders : DestroyHolder(h)
             \/ Teardown \/ DisconnectSession
             \/ \E c \in Chunks : Sent(c)
    <3>1. misuse' = misuse /\ careless' = careless
      BY <2>5 DEF DragBegin, Attach, AttachSurface, CreateShader, DestroyShader, DestroyHolder,
         Teardown, DisconnectSession, Sent
    <3> QED BY <1>1, <3>1
  <2> QED BY <1>1, <1>5, <2>1, <2>2, <2>3, <2>4, <2>5 DEF OtherStep
<1> QED BY <1>3, <1>4, <1>5, StepKinds DEF ReadStep

LEMMA InitOK ==
  ASSUME Init
  PROVE  IInv
<1>1. NoPool \in Pool /\ NoBuffer \in Buffer /\ ~NoBuffer.alive /\ ~NoPool.resource
      /\ NoPool.refs = 0 /\ NoPool.map = 0 /\ ~NoPool.fallback
      /\ NoShader \in [buf : Buffers \cup {Nil}, proxy : BOOLEAN] /\ NoShader.buf = Nil
  BY SharedMemoryAssumption DEF NoPool, Pool, NoBuffer, Buffer, NoShader, Sizes
<1>2. /\ pool = [p \in Pools |-> NoPool] /\ buf = [b \in Buffers |-> NoBuffer]
      /\ shader = [s \in Shaders |-> NoShader]
  BY DEF Init
<1>3. /\ PoolTypes /\ \A b \in Buffers : ~buf[b].alive
  BY <1>1, <1>2 DEF PoolTypes
<1>4. PoolInv
  <2>1. ASSUME NEW p \in Pools
        PROVE  BuffersOf(p) = {}
    BY <1>3 DEF BuffersOf
  <2> QED BY <1>1, <1>2, <1>3, <2>1, FS_EmptySet DEF PoolInv, BuffersCovered, PoolsCounted
<1>5. WarnInv
  <2>1. Warned(NoPool, {})
    BY DEF Warned, NoPool
  <2>2. careless = {} /\ \A p \in Pools : pool[p] = NoPool
    BY <1>2 DEF Init
  <2> QED BY <2>1, <2>2 DEF WarnInv, Warned
<1>6. RefInv
  BY <1>1, <1>2 DEF Init, RefInv, RefTypes
<1>7. DataTypes
  <2>1. Idle \in [reader : Readers \cup {Nil}, buf : Buffers \cup {Nil}, map : 0..MaxMoves,
                  chunk : Chunks \cup {Nil}]
    BY SharedMemoryAssumption DEF Idle
  <2>2. 0 \in Contents
    BY DEF Contents
  <2> QED BY <2>1, <2>2 DEF Init, DataTypes
<1>8. DataInv
  BY <1>1, <1>2, <1>7 DEF Init, DataInv, OneHolder, ZerosReported, Holders
<1>9. MisuseInv /\ HandlerInv
  BY DEF Init, MisuseInv, MisuseHasCause, HandlerInv
<1> QED BY <1>4, <1>5, <1>6, <1>8, <1>9 DEF IInv

LEMMA StutterOK ==
  ASSUME IInv, UNCHANGED vars
  PROVE  IInv'
<1> USE DEF vars
<1>1. PoolInv'
  BY DEF IInv, PoolInv, PoolTypes, BuffersCovered, PoolsCounted, BuffersOf, PoolOf
<1>2. WarnInv'
  BY DEF IInv, WarnInv, Warned
<1>3. RefInv'
  BY DEF IInv, RefInv, RefTypes
<1>4. DataInv'
  BY DEF IInv, DataInv, DataTypes, OneHolder, ZerosReported, Fine
<1>5. MisuseInv'
  BY DEF IInv, MisuseInv, MisuseHasCause
<1>6. HandlerInv'
  BY DEF IInv, HandlerInv
<1> QED BY <1>1, <1>2, <1>3, <1>4, <1>5, <1>6 DEF IInv

LEMMA Inductive == Spec => []IInv
<1>1. ASSUME IInv, [Next]_vars
      PROVE  IInv'
  <2>1. CASE Next
    BY <1>1, <2>1, PoolInvStep, WarnInvStep, RefInvStep, DataInvStep, HandlerInvStep,
       MisuseInvStep DEF IInv
  <2> QED BY <1>1, <2>1, StutterOK
<1> QED BY <1>1, InitOK, PTL DEF Spec

(* Every variable keeps to its type.                                       *)
THEOREM TypesOK == Spec => []TypeOK
<1>1. IInv => TypeOK
  BY DEF IInv, PoolInv, PoolTypes, WarnInv, Blame, RefInv, RefTypes, DataInv, DataTypes,
     HandlerInv, MisuseInv, TypeOK
<1> QED BY <1>1, Inductive, PTL

(* zwn_shm_pool's create_buffer, resize and unref: a buffer lies within    *)
(* what its pool has mapped, whatever order requests and destruction come  *)
(* in, although a pool may go before its buffers and be moved under them.  *)
THEOREM BuffersAreCovered == Spec => []BuffersCovered
<1>1. IInv => BuffersCovered
  BY DEF IInv, PoolInv
<1> QED BY <1>1, Inductive, PTL

(* internal_refcount: a pool has one reference for its resource and one    *)
(* for each of its buffers, and is mapped exactly as long as it has any.   *)
THEOREM PoolsAreCounted == Spec => []PoolsCounted
<1>1. IInv => PoolsCounted
  BY DEF IInv, PoolInv
<1> QED BY <1>1, Inductive, PTL

(* begin_access and end_access, and the WeakResource of GlBuffer and       *)
(* GlTexture: SIGBUS ends the server only if a pool outgrew its sealed     *)
(* file, or a file is short and both handlers have been installed; and     *)
(* what is gone is read only for a shader or a surface.                    *)
THEOREM MisuseIsCaused == Spec => []MisuseHasCause
<1>1. IInv => MisuseHasCause
  BY DEF IInv, MisuseInv
<1> QED BY <1>1, Inductive, PTL

(* handle_sigbus and end_access: zeros are never what a client in no error *)
(* has committed.                                                          *)
THEOREM ZerosAreReported == Spec => []ZerosReported
<1>1. IInv => ZerosReported
  BY DEF IInv, DataInv
<1> QED BY <1>1, Inductive, PTL

(* DataPool::reset: no commit, drag, destruction or session writes to the  *)
(* memory that zen-remote has been handed and not yet sent.                *)
THEOREM HandedOverStaysIntact == Spec => HandedOverIntact
<1>1. ASSUME IInv, Next, NEW c \in handed \cap handed', c # drag.chunk
      PROVE  content'[c] = content[c]
  <2>0. DataTypes /\ OneHolder /\ c \in Chunks /\ \A h \in Holders : c \notin Allocated(h)
    BY <1>1 DEF IInv, DataInv, DataTypes, Allocated
  <2>1. ASSUME NEW new, NEW chunk \in Chunks, NEW t, Filled(new, chunk, t), c # chunk,
               content' = Kept(new)
        PROVE  content'[c] = content[c]
    BY <1>1, <2>0, <2>1 DEF Kept, Filled
  <2>2. ASSUME content' = Kept(content)
        PROVE  content'[c] = content[c]
    BY <1>1, <2>0, <2>2 DEF Kept
  <2>3. CASE PoolStep
    <3>1. ASSUME NEW p \in Pools, NEW size \in Arrays, NEW file \in 0..MaxPages,
                 NEW sealed \in BOOLEAN, NEW ok \in BOOLEAN,
                 CreatePool(p, size, file, sealed, ok)
          PROVE  content' = content
      BY <3>1 DEF CreatePool
    <3>2. ASSUME NEW p \in Pools, NEW size \in -1..MaxPages, NEW ok \in BOOLEAN,
                 Resize(p, size, ok)
          PROVE  content' = content
      BY <3>2 DEF Resize
    <3>3. ASSUME NEW b \in Buffers, NEW p \in Pools, NEW offset \in Arrays,
                 NEW size \in Arrays, NEW ok \in BOOLEAN, CreateBuffer(b, p, offset, size, ok)
          PROVE  content' = content
      BY <3>3 DEF CreateBuffer
    <3>4. CASE \/ \E p \in Pools : DestroyPool(p)
               \/ \E p \in Pools, n \in 0..MaxPages : TruncateFile(p, n)
               \/ \E b \in Buffers : DestroyBuffer(b)
      BY <3>4 DEF DestroyPool, TruncateFile, DestroyBuffer
    <3> QED BY <2>3, <3>1, <3>2, <3>3, <3>4 DEF PoolStep
  <2>4. ASSUME NEW r \in Readers, NEW b \in Buffers, NEW chunk \in Chunks, NEW text \in Written,
               Reads(r, b, chunk, text)
        PROVE  content'[c] = content[c]
    <3>1. c # chunk
      BY <1>1, <2>0, <2>4 DEF Reads, Holders
    <3> QED BY <1>1, <2>1, <2>4, <3>1, ReadEffect
  <2>5. ASSUME NEW r \in Readers, DragBegin(r)
        PROVE  content'[c] = content[c]
    <3> DEFINE chunk == Refill(r)
               new == [content EXCEPT ![chunk] = 0]
    <3>1. content' = Kept(new) /\ chunk \in Allocated(r) /\ r \in Holders
      BY <2>5 DEF DragBegin, CanRefill, Refill, Holders
    <3>2. chunk \in Chunks /\ chunk # c
      BY <2>0, <3>1 DEF Allocated
    <3> HIDE DEF chunk
    <3>3. Filled(new, chunk, 0)
      BY <2>0, <3>2 DEF Filled, DataTypes, Contents
    <3> HIDE DEF new
    <3> QED BY <2>1, <3>1, <3>2, <3>3
  <2>6. ASSUME NEW s \in Surfaces, NEW text \in Written, NEW supported \in BOOLEAN,
               NEW impossible \in BOOLEAN, NEW short \in BOOLEAN,
               CommitSurface(s, text, supported, impossible, short)
        PROVE  content'[c] = content[c]
    <3> DEFINE chunk == Refill(s)
               t == IF short THEN 0 ELSE text
               new == [content EXCEPT ![chunk] = t]
    <3>1. content' \in {content, Kept(content), Kept(new)} /\ CanRefill(s)
      BY <2>6 DEF CommitSurface
    <3>2. chunk \in Allocated(s) /\ s \in Holders
      BY <3>1 DEF CanRefill, Refill, Holders
    <3>3. chunk \in Chunks /\ chunk # c
      BY <2>0, <3>2 DEF Allocated
    <3> HIDE DEF chunk
    <3>4. Filled(new, chunk, t)
      BY <2>0, <3>3 DEF Filled, DataTypes, Contents
    <3> HIDE DEF new
    <3> QED BY <2>1, <2>2, <3>1, <3>3, <3>4
  <2>7. CASE \/ \E h \in Holders : DestroyHolder(h)
             \/ \E x \in Chunks : Sent(x)
    BY <2>2, <2>7 DEF DestroyHolder, Sent
  <2>8. CASE \/ \E w \in WlBuffers : DestroyWlBuffer(w)
             \/ \E text \in Written : DragCopy(text) /\ ~Undisturbed
             \/ \E r \in Readers, b \in Buffers : Attach(r, b)
             \/ \E s \in Surfaces, w \in WlBuffers \cup {Nil} : AttachSurface(s, w)
             \/ \E s \in Shaders, b \in Buffers : CreateShader(s, b)
             \/ \E s \in Shaders : DestroyShader(s)
             \/ Teardown \/ EstablishSession \/ DisconnectSession
    <3>1. content' = content
      BY <2>8 DEF DestroyWlBuffer, DragCopy, Attach, AttachSurface, CreateShader, DestroyShader,
         Teardown, EstablishSession, DisconnectSession
    <3> QED BY <3>1
  <2> QED BY <1>1, <2>3, <2>4, <2>5, <2>6, <2>7, <2>8, StepKinds DEF ReadStep, OtherStep
<1>2. IInv /\ [Next]_vars =>
        [\A c \in (handed \cap handed') \ {drag.chunk} : content'[c] = content[c]]_vars
  BY <1>1
<1> QED BY <1>2, Inductive, PTL DEF HandedOverIntact, Spec
=============================================================================
