--------------------------- MODULE MCSharedMemory ----------------------------
EXTENDS SharedMemory, TLC

(* Bounds: a client is concerned with one of the following.                *)
NoShaders == \A s \in Shaders : shader[s] = NoShader
NoPools   == \A p \in Pools : pool[p] = NoPool
NoSurface == wlbuf = WlBuffers /\ \A s \in Surfaces : attached[s] = Nil /\ data[s] = Nil
OneBuffer == \E b \in Buffers : \A c \in Buffers \ {b} : buf[c] = NoBuffer
OneText   == \A c \in Chunks : content[c] # 2
(* Two buffers, of pools of any size, that nobody reads *)
Sizing  == /\ \A r \in Readers : data[r] = Nil /\ pend[r] = Nil
           /\ NoShaders /\ NoSurface /\ ~session /\ installed = {}
(* A buffer that is read, of a pool that has pages without a file *)
Reading == /\ \A p \in Pools : pool[p].size <= MaxPages
           /\ OneBuffer /\ NoSurface /\ handed = {} /\ OneText /\ "libwayland" \notin installed
(* Buffers that are read several times while zen-remote holds what was read *)
Sharing == /\ \A p \in Pools : pool[p].size <= 1 /\ ~pool[p].sealed
           /\ careless = {} /\ NoShaders /\ NoSurface /\ "libwayland" \notin installed
(* The same for surfaces *)
Drawing == NoPools /\ "yaza" \notin installed
(* A buffer and a surface, whose handlers of SIGBUS are in each other's way *)
Handled == /\ \A p \in Pools : pool[p].size <= 1 /\ ~pool[p].sealed
           /\ OneBuffer /\ OneText /\ NoShaders /\ ~session /\ handed = {} /\ drag = Idle
           /\ wlbuf = WlBuffers /\ client = "running"

Bounds == Sizing \/ Reading \/ Sharing \/ Drawing \/ Handled

Twins == Permutations(Buffers)
=============================================================================
