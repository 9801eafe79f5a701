----------------------------- MODULE SharedMemory ------------------------------
(***************************************************************************)
(* zwn_shm: pools of memory that a client shares, the buffers in them, and *)
(* everything that reads a buffer: GlBuffer and GlTexture (Readers) through *)
(* a WeakResource, GlShader through a raw ShmBuffer, and Surface, whose    *)
(* wl_buffer is a raw resource of libwayland's own wl_shm.  What was read  *)
(* is kept in a DataPool, whose memory is shared with zen-remote.          *)
(*                                                                         *)
(* The event loop handles requests one after the other.  The input thread  *)
(* commits as well, when the user drags an app: it takes the address of    *)
(* the buffer in one step and copies from it in another.                   *)
(*                                                                         *)
(* Sizes are pages: what follows a file in its last page, which reads as   *)
(* zeros and raises no SIGBUS, is outside this module.  external_refcount  *)
(* is left out: nothing raises it.                                         *)
(* Undefined behaviour ends a behaviour of this module, with its kind in   *)
(* misuse.  "Slip" marks a mistake the code could make.                    *)
(***************************************************************************)
EXTENDS Integers, FiniteSets

CONSTANTS
  Pools, Buffers, Readers, Shaders, Surfaces, WlBuffers,
  Word,         \* how many values a 32 bit integer has, 2^32 in the code
  MaxPages,     \* bound: files and what clients ask for have at most so many
  MaxMoves,     \* bound: how often a pool is mapped
  Chunks,       \* bound: allocations there are at a time
  Nil

ASSUME SharedMemoryAssumption ==
  /\ Word \in Nat /\ MaxPages \in Nat /\ 2 * MaxPages < Word /\ MaxMoves \in Nat \ {0}
  /\ IsFiniteSet(Buffers) /\ Readers \cap Surfaces = {}
  /\ Nil \notin Pools \cup Buffers \cup WlBuffers \cup Chunks

VARIABLES
  pool,      \* ShmPool, its mapping and its file, of each pool
  buf,       \* ShmBuffer
  wlbuf,     \* the wl_buffers that exist
  pend,      \* pending_.data of a reader
  attached,  \* pending_.buffer of a surface
  shader,    \* buffer_ and whether there is a proxy_
  data,      \* the chunk a DataPool holds
  content,   \* what is in a chunk
  handed,    \* chunks that zen-remote has not finished with
  session,   \* whether one is up
  drag,      \* what the input thread is about to copy
  installed, \* who has installed a handler of SIGBUS, in their first begin_access
  top,       \* who did so last: its handler is the one the process has
  client,    \* running, posted a protocol error, being torn down
  careless,  \* history: what the client did that the code takes it not to do
  misuse     \* the undefined behaviour met

vars == <<pool, buf, wlbuf, pend, attached, shader, data, content, handed, session,
          drag, installed, top, client, careless, misuse>>
handlers == <<installed, top>>

Sizes == 0..(Word - 1)
Holders == Readers \cup Surfaces

(* What is read from shared memory: what the client wrote, or the zeros of *)
(* the mapping that replaces a file that is too short                      *)
Written  == 1..2
Contents == {0} \cup Written
Handlers == {"yaza", "libwayland"}

(* map numbers the mappings of a pool, 0 if it has none                    *)
Pool == [resource : BOOLEAN, refs : Nat, size : Sizes, newSize : Sizes,
         map : 0..MaxMoves, impossible : BOOLEAN, fallback : BOOLEAN,
         file : 0..MaxPages, sealed : BOOLEAN]
NoPool == [resource |-> FALSE, refs |-> 0, size |-> 0, newSize |-> 0, map |-> 0,
           impossible |-> FALSE, fallback |-> FALSE, file |-> 0, sealed |-> FALSE]

Buffer   == [alive : BOOLEAN, pool : Pools \cup {Nil}, offset : Sizes, size : Sizes]
NoBuffer == [alive |-> FALSE, pool |-> Nil, offset |-> 0, size |-> 0]
NoShader == [buf |-> Nil, proxy |-> FALSE]
Idle     == [reader |-> Nil, buf |-> Nil, map |-> 0, chunk |-> Nil]

TypeOK ==
  /\ pool \in [Pools -> Pool] /\ buf \in [Buffers -> Buffer] /\ wlbuf \subseteq WlBuffers
  /\ pend \in [Readers -> Buffers \cup {Nil}]
  /\ attached \in [Surfaces -> WlBuffers \cup {Nil}]
  /\ shader \in [Shaders -> [buf : Buffers \cup {Nil}, proxy : BOOLEAN]]
  /\ data \in [Holders -> Chunks \cup {Nil}] /\ content \in [Chunks -> Contents]
  /\ handed \subseteq Chunks /\ session \in BOOLEAN
  /\ drag \in [reader : Readers \cup {Nil}, buf : Buffers \cup {Nil}, map : 0..MaxMoves,
               chunk : Chunks \cup {Nil}]
  /\ installed \subseteq Handlers /\ top \in Handlers \cup {Nil}
  /\ client \in {"running", "failed", "dying"}
  /\ careless \subseteq {"left shader", "left surface", "short file", "outgrown"}
  /\ misuse \in {"none", "freed", "shader", "sigbus", "race"}

Init ==
  /\ pool = [p \in Pools |-> NoPool] /\ buf = [b \in Buffers |-> NoBuffer]
  /\ wlbuf = WlBuffers
  /\ pend = [r \in Readers |-> Nil] /\ attached = [s \in Surfaces |-> Nil]
  /\ shader = [s \in Shaders |-> NoShader]
  /\ data = [h \in Holders |-> Nil] /\ content = [c \in Chunks |-> 0]
  /\ handed = {} /\ session = FALSE /\ drag = Idle /\ client = "running"
  /\ installed = {} /\ top = Nil
  /\ careless = {} /\ misuse = "none"

Fail   == client' = "failed"
Fine   == misuse = "none"
Asking == Fine /\ client = "running"
Going  == Fine /\ client # "failed"    \* resources are destroyed

BuffersOf(p) == {b \in Buffers : buf[b].alive /\ buf[b].pool = p}

----------------------------------------------------------------------------
(* Pools                                                                   *)

(* from_wl_array into an off_t that is 0.  The specialization for off_t    *)
(* in convert.cpp takes four bytes, too, and leaves the upper four alone;  *)
(* it is not declared where it is used, and whether the linker puts it in  *)
(* the place of the template is up to the build.                           *)
FromArray(bytes, n) ==
  CASE bytes = 8 -> {n}
    [] bytes = 4 -> {n % Word, Nil}
    [] OTHER     -> {Nil}

(* create_pool and new_pool.  ok: whether mmap and wl_resource_create work *)
CreatePool(p, size, file, sealed, ok) ==
  /\ Asking /\ pool[p] = NoPool
  /\ IF size = Nil \/ ~ok THEN Fail /\ UNCHANGED pool
     ELSE IF size <= 0 THEN Fail /\ UNCHANGED pool
     ELSE /\ pool' = [pool EXCEPT ![p] =
                [resource |-> TRUE, refs |-> 1, size |-> size, newSize |-> size, map |-> 1,
                 impossible |-> sealed /\ file >= size, fallback |-> FALSE,
                 file |-> file, sealed |-> sealed]]
          /\ UNCHANGED client
  /\ careless' = careless \cup (IF size # Nil /\ file < size THEN {"short file"} ELSE {})
  /\ UNCHANGED <<buf, wlbuf, pend, attached, shader, data, content, handed, session,
                 handlers, drag, misuse>>

(* finish_resize.  ok: whether mremap works.  The mapping may move.        *)
Resized(q, size, ok) ==
  IF q.size = size \/ ~ok THEN [q EXCEPT !.newSize = size]
  ELSE [q EXCEPT !.newSize = size, !.size = size, !.map = @ + 1]

(* Slip: a pool is resized to whatever is asked for.                       *)
AnySize(q, size) == TRUE
Resizable(q, size) == size >= q.size

Resize(p, size, ok) ==
  /\ Asking /\ pool[p].resource /\ pool[p].map < MaxMoves
  /\ IF ~Resizable(pool[p], size) THEN Fail /\ UNCHANGED <<pool, careless>>
     ELSE /\ pool' = [pool EXCEPT ![p] = Resized(@, size, ok)]
          /\ client' = IF pool[p].size = size \/ ok THEN client ELSE "failed"
          /\ careless' = careless \cup
               (IF pool[p].file < size THEN {"short file"} ELSE {}) \cup
               (IF pool[p].impossible /\ pool[p].file < size THEN {"outgrown"} ELSE {})
  /\ UNCHANGED <<buf, wlbuf, pend, attached, shader, data, content, handed, session,
                 handlers, drag, misuse>>

(* unref: what is left of the pool when a reference goes                   *)
(* Slip: the pool goes with its resource.                                  *)
UnrefWhole(q) == IF q.resource THEN [q EXCEPT !.refs = @ - 1]
                 ELSE [NoPool EXCEPT !.refs = q.refs - 1]
Unref(q) == IF q.refs = 1 THEN NoPool ELSE [q EXCEPT !.refs = @ - 1]

DestroyPool(p) ==
  /\ Going /\ pool[p].resource
  /\ pool' = [pool EXCEPT ![p] = Unref([@ EXCEPT !.resource = FALSE])]
  /\ UNCHANGED <<buf, wlbuf, pend, attached, shader, data, content, handed, session,
                 handlers, drag, client, careless, misuse>>

(* The client makes its file shorter or longer                             *)
TruncateFile(p, n) ==
  /\ Asking /\ pool[p].map # 0 /\ (pool[p].sealed => n >= pool[p].file)
  /\ pool' = [pool EXCEPT ![p].file = n]
  /\ careless' = careless \cup (IF n < pool[p].size THEN {"short file"} ELSE {})
  /\ UNCHANGED <<buf, wlbuf, pend, attached, shader, data, content, handed, session,
                 handlers, drag, client, misuse>>

----------------------------------------------------------------------------
(* Buffers                                                                 *)

(* create_buffer: whether the pool has it                                  *)
(* Slip: only the offset is held against the size of the pool.             *)
StartsInside(q, offset, size) == ~(offset < 0 \/ size <= 0 \/ offset >= q.size)
Inside(q, offset, size) == ~(offset < 0 \/ size <= 0 \/ offset > q.size - size)

(* Nil is what from_wl_array did not take: the size is then 0, and refused. *)
(* ok: whether wl_resource_create works.                                   *)
CreateBuffer(b, p, offset, size, ok) ==
  LET made == offset # Nil /\ size # Nil /\ Inside(pool[p], offset, size) /\ ok IN
  /\ Asking /\ pool[p].resource /\ buf[b] = NoBuffer
  /\ IF made
     THEN /\ buf' = [buf EXCEPT ![b] =
                [alive |-> TRUE, pool |-> p, offset |-> offset, size |-> size]]
          /\ pool' = [pool EXCEPT ![p].refs = @ + 1]
     ELSE UNCHANGED <<buf, pool>>
  /\ client' = IF made THEN client ELSE "failed"
  /\ UNCHANGED <<wlbuf, pend, attached, shader, data, content, handed, session,
                 handlers, drag, careless, misuse>>

(* destroy_buffer; a WeakResource loses its resource                       *)
DestroyBuffer(b) ==
  /\ Going /\ buf[b].alive
  /\ buf' = [buf EXCEPT ![b] = [NoBuffer EXCEPT !.pool = buf[b].pool]]
  /\ pool' = [pool EXCEPT ![buf[b].pool] = Unref(@)]
  /\ pend' = [r \in Readers |-> IF pend[r] = b THEN Nil ELSE pend[r]]
  /\ careless' = careless \cup (IF \E s \in Shaders : shader[s].buf = b
                                THEN {"left shader"} ELSE {})
  /\ UNCHANGED <<wlbuf, attached, shader, data, content, handed, session, handlers,
                 drag, client, misuse>>

DestroyWlBuffer(w) ==
  /\ Going /\ w \in wlbuf
  /\ wlbuf' = wlbuf \ {w}
  /\ careless' = careless \cup (IF \E s \in Surfaces : attached[s] = w
                                THEN {"left surface"} ELSE {})
  /\ UNCHANGED <<pool, buf, pend, attached, shader, data, content, handed, session,
                 handlers, drag, client, misuse>>

----------------------------------------------------------------------------
(* Reading                                                                 *)

PoolOf(b) == pool[buf[b].pool]

(* The pages of the buffer go past the end of the file                     *)
Beyond(b) == PoolOf(b).file < buf[b].offset + buf[b].size /\ ~PoolOf(b).fallback

(* init_sigbus_data_key of yaza and that of libwayland run once each and   *)
(* install a handler over whatever there is.  A handler restores the one   *)
(* before it and raises SIGBUS again for an address that is not its own,   *)
(* and the address of a raised SIGBUS is nobody's: so only the handler     *)
(* installed last can save its reader.                                     *)
Install(h) ==
  /\ installed' = installed \cup {h}
  /\ top' = IF h \in installed THEN top ELSE h
Handling(h) == h \in installed => top = h    \* once h is installed

(* begin_access does nothing if SIGBUS was found impossible                *)
(* Slip: it does nothing for any file that cannot shrink.                  *)
GuardedUnsealed(b) == ~PoolOf(b).sealed /\ Handling("yaza")
Guarded(b) == ~PoolOf(b).impossible /\ Handling("yaza")
BeginAccess(b) == IF PoolOf(b).impossible THEN UNCHANGED handlers ELSE Install("yaza")

(* DataPool: reset() gives up what was read before, and new memory is      *)
(* allocated.  Slip: there is no reset, and what is large enough is reused. *)
Allocated(h) == Chunks \ (handed \cup {data[g] : g \in Holders \ {h}})
RefillInPlace(h) == IF data[h] # Nil THEN data[h] ELSE CHOOSE c \in Allocated(h) : TRUE
Refill(h) == CHOOSE c \in Allocated(h) : TRUE
CanRefill(h) == Allocated(h) # {}   \* bound

(* handle_sigbus maps zeros in the place of the whole pool; end_access     *)
(* reports it.  Slip: it does not.                                         *)
Unreported(b) == UNCHANGED client
Reported(b) == IF Beyond(b) THEN Fail ELSE UNCHANGED client

(* text: what the client has put there, which it may do at any time        *)
TextOf(b, text) == IF Beyond(b) \/ PoolOf(b).fallback THEN 0 ELSE text

(* What remains of content: memory that nobody holds is freed              *)
Kept(text) == [c \in Chunks |->
                 IF c \in handed' \cup {data'[h] : h \in Holders} THEN text[c] ELSE 0]

(* GlShader::sync of those that have no proxy: what goes wrong.  b: the    *)
(* buffer read just before, if any, whose pool may have been replaced.     *)
Replaced(b, c) == b # Nil /\ Beyond(b) /\ buf[b].pool = buf[c].pool
Unsynced == {s \in Shaders : shader[s].buf # Nil /\ ~shader[s].proxy}
ShaderTrouble(b) ==
  UNION {IF ~buf[shader[s].buf].alive THEN {"freed"}
         ELSE IF Beyond(shader[s].buf) /\ ~Replaced(b, shader[s].buf)
         THEN {"shader"} ELSE {} : s \in Unsynced}

SyncShaders == shader' = [s \in Shaders |->
                            [shader[s] EXCEPT !.proxy = shader[s].buf # Nil]]

(* GlBuffer::commit and GlTexture::commit, with the sync that follows if a *)
(* session is up, on either thread                                         *)
ReadInto(r, b, chunk, text) ==
  LET trouble == IF Beyond(b) /\ ~Guarded(b) THEN {"sigbus"}
                 ELSE IF session THEN ShaderTrouble(b) ELSE {}
  IN
  /\ BeginAccess(b)
  /\ IF trouble # {}
     THEN /\ misuse' \in trouble
          /\ UNCHANGED <<pool, pend, shader, data, content, handed, client>>
     ELSE /\ pool' = [pool EXCEPT ![buf[b].pool].fallback = @ \/ Beyond(b)]
          /\ Reported(b)
          /\ data' = [data EXCEPT ![r] = chunk]
          /\ pend' = [pend EXCEPT ![r] = Nil]
          /\ IF session THEN SyncShaders /\ handed' = handed \cup {chunk}
             ELSE UNCHANGED <<shader, handed>>
          /\ content' = Kept([content EXCEPT ![chunk] = TextOf(b, text)])
          /\ UNCHANGED misuse

(* The client commits the object that draws with r and with its shaders    *)
Commit(r, text) ==
  /\ Asking /\ pend[r] # Nil /\ CanRefill(r)
  /\ ReadInto(r, pend[r], Refill(r), text)
  /\ UNCHANGED <<buf, wlbuf, attached, session, drag, careless>>

(* The user drags its app: the memory to copy to and the address to copy   *)
(* from are determined                                                     *)
DragBegin(r) ==
  /\ Fine /\ drag = Idle /\ pend[r] # Nil /\ CanRefill(r)
  /\ drag' = [reader |-> r, buf |-> pend[r], map |-> PoolOf(pend[r]).map, chunk |-> Refill(r)]
  /\ data' = [data EXCEPT ![r] = Refill(r)]
  /\ UNCHANGED handed
  /\ content' = Kept([content EXCEPT ![Refill(r)] = 0])
  /\ UNCHANGED <<pool, buf, wlbuf, pend, attached, shader, session, handlers, client,
                 careless, misuse>>

(* What DragBegin found is still so                                        *)
Undisturbed ==
  /\ pend[drag.reader] = drag.buf /\ data[drag.reader] = drag.chunk
  /\ buf[drag.buf].alive /\ PoolOf(drag.buf).map = drag.map

DragCopy(text) ==
  /\ Fine /\ drag # Idle
  /\ drag' = Idle
  /\ IF Undisturbed THEN ReadInto(drag.reader, drag.buf, drag.chunk, text)
     ELSE /\ misuse' = "race"
          /\ UNCHANGED <<pool, pend, shader, data, content, handed, handlers, client>>
  /\ UNCHANGED <<buf, wlbuf, attached, session, careless>>

(* Surface::commit.  libwayland guards what is read of a wl_buffer as yaza *)
(* does its own: impossible and short are what it found of the file of the *)
(* pool, and what has become of it.                                        *)
(* supported: whether yaza knows the format                                *)
CommitSurface(s, text, supported, impossible, short) ==
  LET reads == attached[s] \in wlbuf /\ supported IN
  /\ Asking /\ CanRefill(s)
  /\ IF reads /\ ~impossible THEN Install("libwayland") ELSE UNCHANGED handlers
  /\ careless' = careless \cup
       (IF reads /\ short THEN {"short file"} ELSE {}) \cup
       (IF reads /\ short /\ impossible THEN {"outgrown"} ELSE {})
  /\ IF attached[s] \notin wlbuf \cup {Nil}
     THEN misuse' = "freed" /\ UNCHANGED <<attached, data, content, handed, client>>
     ELSE IF reads /\ short /\ (impossible \/ ~Handling("libwayland"))
     THEN misuse' = "sigbus" /\ UNCHANGED <<attached, data, content, handed, client>>
     ELSE /\ data' = IF attached[s] = Nil THEN data
                     ELSE [data EXCEPT ![s] = IF supported THEN Refill(s) ELSE Nil]
          /\ attached' = [attached EXCEPT ![s] = Nil]
          /\ handed' = IF session THEN handed \cup ({data'[s]} \ {Nil}) ELSE handed
          /\ content' = Kept(IF ~reads THEN content
                             ELSE [content EXCEPT ![Refill(s)] = IF short THEN 0 ELSE text])
          /\ client' = IF reads /\ short THEN "failed" ELSE client
          /\ UNCHANGED misuse
  /\ UNCHANGED <<pool, buf, wlbuf, pend, shader, session, drag>>

----------------------------------------------------------------------------
(* What refers to buffers                                                  *)

(* GlBuffer's data, GlTexture's image_2d                                   *)
Attach(r, b) ==
  /\ Asking /\ buf[b].alive
  /\ pend' = [pend EXCEPT ![r] = b]
  /\ UNCHANGED <<pool, buf, wlbuf, attached, shader, data, content, handed, session,
                 handlers, drag, client, careless, misuse>>

AttachSurface(s, w) ==
  /\ Asking /\ (w # Nil => w \in wlbuf)
  /\ attached' = [attached EXCEPT ![s] = w]
  /\ UNCHANGED <<pool, buf, wlbuf, pend, shader, data, content, handed, session,
                 handlers, drag, client, careless, misuse>>

CreateShader(s, b) ==
  /\ Asking /\ shader[s] = NoShader /\ buf[b].alive
  /\ shader' = [shader EXCEPT ![s].buf = b]
  /\ UNCHANGED <<pool, buf, wlbuf, pend, attached, data, content, handed, session,
                 handlers, drag, client, careless, misuse>>
DestroyShader(s) ==
  /\ Going /\ shader[s] # NoShader
  /\ shader' = [shader EXCEPT ![s] = NoShader]
  /\ UNCHANGED <<pool, buf, wlbuf, pend, attached, data, content, handed, session,
                 handlers, drag, client, careless, misuse>>

(* A reader or a surface is destroyed; another may take its place          *)
DestroyHolder(h) ==
  /\ Going
  /\ data' = [data EXCEPT ![h] = Nil]
  /\ pend' = [r \in Readers |-> IF r = h THEN Nil ELSE pend[r]]
  /\ attached' = [s \in Surfaces |-> IF s = h THEN Nil ELSE attached[s]]
  /\ UNCHANGED <<pool, buf, wlbuf, shader, handed, session, handlers, drag, client,
                 careless, misuse>>
  /\ content' = Kept(content)

(* The client goes, or is disconnected after its error: resources are      *)
(* destroyed in any order                                                  *)
Teardown ==
  /\ Fine /\ client # "dying"
  /\ client' = "dying"
  /\ UNCHANGED <<pool, buf, wlbuf, pend, attached, shader, data, content, handed,
                 session, handlers, drag, careless, misuse>>

----------------------------------------------------------------------------
(* The session                                                             *)

(* The forced sync hands over everything                                   *)
EstablishSession ==
  /\ Fine /\ ~session /\ client # "dying"
  /\ session' = TRUE
  /\ IF ShaderTrouble(Nil) # {}
     THEN misuse' \in ShaderTrouble(Nil) /\ UNCHANGED <<shader, handed>>
     ELSE /\ SyncShaders /\ handed' = handed \cup ({data[h] : h \in Holders} \ {Nil})
          /\ UNCHANGED misuse
  /\ UNCHANGED <<pool, buf, wlbuf, pend, attached, data, content, handlers, drag,
                 client, careless>>

DisconnectSession ==
  /\ Fine /\ session
  /\ session' = FALSE
  /\ shader' = [s \in Shaders |-> [shader[s] EXCEPT !.proxy = FALSE]]
  /\ UNCHANGED <<pool, buf, wlbuf, pend, attached, data, content, handed, handlers,
                 drag, client, careless, misuse>>

(* zen-remote has sent a chunk, and drops its reference                    *)
Sent(c) ==
  /\ Fine /\ c \in handed
  /\ handed' = handed \ {c}
  /\ UNCHANGED <<pool, buf, wlbuf, pend, attached, shader, data, session, handlers,
                 drag, client, careless, misuse>>
  /\ content' = Kept(content)

----------------------------------------------------------------------------
Arrays == UNION {FromArray(bytes, n) : bytes \in {2, 4, 8}, n \in -1..MaxPages}

Next ==
  \/ \E p \in Pools, size \in Arrays, file \in 0..MaxPages, sealed, ok \in BOOLEAN :
       CreatePool(p, size, file, sealed, ok)
  \/ \E p \in Pools, size \in -1..MaxPages, ok \in BOOLEAN : Resize(p, size, ok)
  \/ \E p \in Pools : DestroyPool(p)
  \/ \E p \in Pools, n \in 0..MaxPages : TruncateFile(p, n)
  \/ \E b \in Buffers, p \in Pools, offset, size \in Arrays, ok \in BOOLEAN :
       CreateBuffer(b, p, offset, size, ok)
  \/ \E b \in Buffers : DestroyBuffer(b)
  \/ \E w \in WlBuffers : DestroyWlBuffer(w)
  \/ \E r \in Readers, text \in Written : Commit(r, text)
  \/ \E r \in Readers : DragBegin(r)
  \/ \E text \in Written : DragCopy(text)
  \/ \E s \in Surfaces, text \in Written, supported, impossible, short \in BOOLEAN :
       CommitSurface(s, text, supported, impossible, short)
  \/ \E r \in Readers, b \in Buffers : Attach(r, b)
  \/ \E s \in Surfaces, w \in WlBuffers \cup {Nil} : AttachSurface(s, w)
  \/ \E s \in Shaders, b \in Buffers : CreateShader(s, b)
  \/ \E s \in Shaders : DestroyShader(s)
  \/ \E h \in Holders : DestroyHolder(h)
  \/ Teardown \/ EstablishSession \/ DisconnectSession
  \/ \E c \in Chunks : Sent(c)

Spec == Init /\ [][Next]_vars

----------------------------------------------------------------------------
(* A buffer lies within what its pool has mapped, whatever becomes of the  *)
(* pool: its resource may be gone, and it may have been moved              *)
BuffersCovered ==
  \A b \in Buffers : buf[b].alive =>
    /\ PoolOf(b).map # 0
    /\ buf[b].size > 0 /\ buf[b].offset + buf[b].size <= PoolOf(b).size

(* A pool is mapped as long as it has a resource or buffers, and no longer *)
PoolsCounted ==
  \A p \in Pools :
    /\ pool[p].refs = Cardinality(BuffersOf(p)) + (IF pool[p].resource THEN 1 ELSE 0)
    /\ pool[p].map # 0 <=> pool[p].refs # 0

(* begin_access and end_access: a file that is too short is no end of the  *)
(* server when a buffer, a texture or a surface is read, unless a pool     *)
(* outgrew the file that was found large enough when the pool was created, *)
(* or yaza and libwayland both have installed their handlers; and reading  *)
(* what is gone takes a shader or a surface that was left with it          *)
MisuseHasCause ==
  /\ misuse = "sigbus" => \/ "outgrown" \in careless
                          \/ "short file" \in careless /\ installed = Handlers
  /\ misuse = "shader" => "short file" \in careless
  /\ misuse = "freed"  => careless \cap {"left shader", "left surface"} # {}

(* What a client that is in no error has committed is what it has written: *)
(* zeros that took the place of a short file are reported                  *)
ZerosReported ==
  \A r \in Readers : Fine /\ client = "running" /\ data[r] \notin {Nil, drag.chunk} =>
    content[data[r]] # 0

(* What zen-remote was handed it can send later, although the same buffer, *)
(* texture or surface is committed again in the meantime; but for what is  *)
(* handed over for a session that comes up while a drag is about to fill it *)
HandedOverIntact ==
  [][\A c \in (handed \cap handed') \ {drag.chunk} : content'[c] = content[c]]_vars
=============================================================================
