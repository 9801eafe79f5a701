# Verification of yaza

yaza is a headless Wayland and zwin compositor. Clients describe 3D scenes with the zwin protocol
(virtual objects holding rendering units, techniques and GL resources), or 2D windows with
xdg-shell; the server mirrors all of it to a headset through a zen-remote session, and turns a
mouse, read from a TCP connection, into a ray that points at windows and apps.

This directory holds TLA+ modules of the server, the TLC runs that check them and proofs for TLAPS.

## Inventory

One process with two threads: the Wayland event loop, which runs every protocol handler and every
zen-remote callback, and the thread of `InputListenServer`, which calls into `ServerSeat`.

| part | state | operations | talks to | hard about it |
|---|---|---|---|---|
| `VirtualObject`, `RenderingUnit`, `GlBaseTechnique` | pending and current state, committed flag, proxy | requests, commit, sync, session handlers | children by the `committed` signal, parents by raw pointer, the peer by proxies | double buffering and damage tracking over a shared graph of resources; a new session must get everything again |
| `GlProgram`, `GlShader`, `GlBuffer`, `GlVertexArray`, textures, samplers | pending and current content, damage, proxy | requests, commit and sync by the technique that refers to them | techniques hold weak pointers | destroyed while referred to; shared by objects |
| resource lifetimes | `wl_resource` user data and destructors, `owner_`, `technique_`, `app_`, `rendering_unit_list_` | destroy requests, client teardown in any order | raw pointers up, raw pointers down | who deletes what, and in which order |
| `Remote`, `Session` | `current_session_`, frame timer | peer discovered, disconnected, frame | signals to every object | comes and goes at any moment; peers dropped while one is connected |
| `BoundedApp`, `Region` | geometry, configure list, regions | configure/ack, move, hit test, ray events | seat, virtual object | move commits the client's object; configure races ack |
| `ServerSeat`, `ClientSeat`, `RayCaster` | focused object and its state, keyboard focus, cursor, seats per client | pointer, button, wheel, start of a move, cursor | weak pointers to surfaces and apps | events paired enter/leave; objects vanish; two threads |
| `InputListenServer` | socket, thread | parse events, call the seat | seat | a stream, not packets; no lock |
| `Surface`, the surface stack of `Server`, `Renderer` | role, pending/current buffer, activation, order | attach, commit, move, raise | seat, xdg-shell, peer | buffer lifetime; stacking order |
| `XdgSurface`, `XdgToplevel` | configure serials, role | configure/ack, move | surface | order of role, configure, commit |
| `DataDevice`, `DataSource`, `DataOffer` | selection | set, offer, receive | seat, clients | raw pointers across clients |
| `ShmPool`, `ShmBuffer` | mapping, reference counts | create, resize, begin/end access | GL resources | the mapping outlives the pool's resource and moves when it grows |

What makes each part correct: the peer shows the committed scene (mirroring); nothing freed is used
and nothing leaks (lifetimes); enter and leave alternate, at most one object is focused (seat);
frame callbacks are answered (remote); sizes and mappings stay valid while accessed (shm); the
selection offered is one that exists (data devices); a surface has one role and is configured before
it is mapped (surfaces).

## Plan

Built so far, in this order:

1. `SceneSync`, with `SceneMirror`, `SceneRefinement` and `MCScene`: how a scene reaches the peer.
   It is the purpose of the program, and the part with the most state behind one promise.
2. `SceneSyncProofs` and `SceneRefinementProofs`: its invariants, and that it implements `SceneMirror`, proved.
3. `ResourceTree` and `ResourceTreeProofs`: who deletes what.
4. `ServerSeat`, with `MCServerSeat` and `ServerSeatProofs`: focus, dragging and the cursor, checked and proved.
5. `SurfaceStack`, with `MCSurfaceStack` and `SurfaceStackProofs`: where windows are and what the peer shows of them, checked
   and proved.
6. `Materials`, with `MCMaterials` and `MaterialsProofs`: what a technique draws with besides buffers.
7. `SharedMemory`, with `MCSharedMemory` and `SharedMemoryProofs`: pools and buffers of memory, and everything that reads them.
8. `RemoteSession`, and `InputThread`, which extends it, with `MCInputThread` and `InputThreadProofs`: sessions, frame callbacks, and the two threads
   of the server.

Still to come: `Selection`, devices, sources and offers over clients that come and go.

## SceneSync: mirroring a scene

State corresponds to the code as follows. `pend` and `cur` are `pending_` and `current_` of a
`GlBaseTechnique`, with `Nil` in `pend` for a false `*_changed` flag; `prog`, `buf`, `attrP`/`attrC` are the
states of `GlProgram`, `GlBuffer`, `GlVertexArray`; `committed`, `owner`, `technique`, `app` are the
members of those names, and a unit that is committed is in its object's `rendering_unit_list_`. `proxy`
holds the number of the session a proxy was made in; `peer` is what the proxies of the session have
been told. Contents are version numbers, a vertex array has one attribute, and a draw call with
elements is its buffer.

There is one action per request (`CreateUnit`, `BindProgram`, `BufferData`, ...), per destructor, and for
`BoundedApp::move`, the session and the end of the client. `Commit` is the whole of
`VirtualObject::commit`: the `committed` signal runs down units and techniques in the same call
(`CommitTree`), and, with a session, `sync(false)` follows (`Sync`). `GivenTo` leaves open which of several new
techniques of a unit is first, since that is the order of listeners. `sync` writes to the peer, sets
proxies and clears damage in one traversal; `Touched`, `ProgramsSent`, `BuffersSent` and the others say what the
traversal reaches and sends.

A virtual object destroyed before a unit that was never committed leaves freed pointers behind. That
is undefined and the subject of `ResourceTree`; here destroying such an orphan has no action, and it
goes when the client does.

### What holds for every client

Run `scene_any_client`, and the theorems below.

- `ProxyOfThisSession`: a proxy is of the session that is up, and of something live. Without it a call would
  go to a channel that is gone.
- `RemoteIdsExist`: owners of what has a proxy, and everything the peer was told to bind, have a proxy:
  the assertions in the `remote_id()` functions hold.
- `UndamagedNotStale`: a buffer not marked damaged is current at the peer, or not there at all. Damage is
  cleared by whichever object syncs first, so this is what makes sharing buffers possible.

### What holds for disciplined clients

`SceneMirror` is the promise: while a session is up, the peer shows exactly the committed scene.
`SceneRefinement` maps `SceneSync` to it (`LocalScene`, `PeerScene`) and `MirrorsScene` is the
refinement. It does not hold of every client: the code relies on an order of requests. The rules of
`Disciplined` are what it relies on, each necessary (without any one of them TLC finds the peer wrong):

| rule | without it |
|---|---|
| `app`: an app is attached before the first commit | `sync` returns early, and the `*_changed` flags it skipped are gone with the next commit |
| `one`: one app per object, one technique per unit at a time | the app's position jumps, or a technique takes the place of another |
| `shaders`: shaders outlive their programs | a later session links the program with none |
| `pending`: nothing is destroyed between being bound and the commit | the binding is committed and shows nothing here, the old one there |
| `ready`: buffers are filled and programs linked before they are bound | a forced sync sends a buffer that has no data, or links a program before the client does |
| `bound`: what is bound stays bound | a resource that is out of use and changed is not synced, then taken up again |

The discipline restricts requests only. Sessions come and go between any two of them, and the user may
drag an app, which commits whatever is pending, at any time. The client of `scene_mirrored` follows all rules, with
one of each resource, or with two objects sharing a buffer that is filled more than once, so that one may clear
damage that the other has not seen.

`NoEmptyUpload` says that no buffer is sent whose size was never set; it needs `ready`, and shows that draw
calls commit their element buffer as well.

### A disagreement with a comment

`scene_shader_deleted`: the session handler means to "force sync everything when the session is
established". Shaders are held by weak pointers, and clients of GL usually delete shaders after linking; the
program is then linked again with no shader. `EverythingSyncedOnEstablish` is violated. Of clients that keep all the rules the comment is
right, which `SceneRefinementProofs` proves (`EstablishedWhole`).

## ResourceTree: who deletes what

`memory` is the C++ object, `resources` and `inert` the `wl_resource` that stands for it, with or without
its user data; `owner`, `listed`, `technique`, `app` are the raw pointers. A destructor of an owner deletes
children and leaves their resources inert. The model follows every pointer the code follows; using freed
memory sets `misuse` and ends the behaviour, since what follows is undefined. `Teardown` is libwayland's
`wl_client_destroy`, which destroys resources in the order of ids; ids are reused, so in any order.

- `ObjectsMatchResources`: objects live exactly as long as a resource that is not inert: nothing is
  deleted twice, nothing leaks, no request finds freed user data.
- `PointersDown`: listed units and a unit's technique are alive and the owner's own.
- `MisuseHasCause`: freed memory is used only after the client destroyed an app before its object, gave an
  object a second app, destroyed an owner with an uncommitted or displaced child, or used an app whose object was gone. All
  four are reachable: the protocol allows them and the code does not handle them.

`resource_tree_owner` shows that the comment at `RenderingUnit::owner_` ("nonnull; Note that RenderingUnit
is destroyed when VirtualObject is going to be destroyed") is not so for units that were never committed.

## ServerSeat: pointer, keyboard and cursor

`focused_obj`, `obj_state`, `cursor` and `client_seats` are the members of `ServerSeat` (`keyboard_focused` is
`keyboard_focused_surface_`); `role` is a surface's `role_`, or its `role_obj_` where that is a toplevel, `toplevels` are the
`XdgTopLevel`s that exist and `whole` those whose `XdgSurface` does, `hidden` a false `is_active_`, `mapped`
what has a texture or regions, so that the ray can hit it. Weak pointers are `Nil` once what they point to is
gone, which lets an id be used again. `entered`, `typing` and `activated` are what the calls have told clients:
`enter()` and `leave()` of a surface or app, `wl_keyboard.enter` and `leave`, the state of a toplevel, whichever surface has it.
`displaced` are the toplevels that a surface lost while it had the keyboard. `strays` are the events of the last
step that nothing called for.

An input event is one action: `Move`, `Press`, `Release`, `Drop` (the release that ends a drag), `Wheel`. Where the ray hits
is any mapped thing or nothing, as geometry would have it: `CheckIntersection`, which moves the focus, tells old
and new, and takes the cursor away when there is no hit. Pressing on a surface gives it the keyboard
(`FocusKeyboard`), which unfocuses and deactivates the one before. Requests are `StartMove`, `SetCursor`, `GetToplevel`, the seats' and pointers', and `GetRay`, which stands for
`get_data_device` too; creation, commit and destruction of things, of toplevels, of their xdg_surfaces and of clients complete it. Handlers are
atomic here, which is what they do as long as the event loop leaves alone what the input thread uses; `InputThread` has the steps of
both threads, input events included, and says what goes wrong in between. `raise_surface_top` belongs to the
order of surfaces and is left out, as are the selection and the float arithmetic of moving.

- `PointerAgrees`: what was told `enter` and not `leave` is the focused thing, and during a drag nothing.
- `StraysAreDragged`: a button or wheel event for a thing that was left, or a second `leave`, come only during a drag and to
  the dragged thing. They do come: the code does not ask for a button to be down when a drag is requested, nor whether there is one.
- `KeyboardAgrees`: enter and leave pair up.
- `OneActivated`: an activated toplevel is that of the surface with the keyboard, or in `displaced`. `on_unfocus` asks the `role_obj_`
  of the moment, so a toplevel whose surface was made a cursor, got a second toplevel or was destroyed while it had the keyboard
  stays activated for good; the property says that nothing else leaves one activated.
- `OneCursor`: a surface that is shown as the cursor is the seat's cursor.
- `MisuseHasCause`: `client_seats[...]` without an entry, or a freed toplevel or xdg_surface, is followed only for a client that mapped something
  or asked for a ray or a data device with no seat bound, released one of two seats or its seat with things left, or destroyed a toplevel
  or its xdg_surface before its surface. The last is the order that xdg-shell asks for; the code is safe only if nobody clicks before the surface follows.

## SurfaceStack: windows and what the peer shows of them

`surface` holds the members of every `Surface`: `dir` is `polar_` and `azimuthal_`, `layer` what `distance_` is computed from, `at`
the `geom_` that results, or where the ray has put a cursor; `offset`, `active` and `role` are `offset_`, `is_active_` and `role_`;
`hasData` and `size` are `texture_` and `tex_width_`, which keeps its value when a buffer of another format takes the texture away.
A texture stands for its content and its size. `place` is the list `surfaces_`, `cursor` the seat's. `renderer` is
`renderer_`, `Nil` without a session, with the `local_model` and texture set on it and, in `shown`, what its last `commit()` gave the peer.

Requests are `Create`, `Attach`, `SetOffset`, `Commit`, `GetToplevel` and `Destroy`; the seat's steps `SetCursor`, `Point`, `PointNowhere`, `Drag` and
`Raise` (a click on a toplevel) take any surface that geometry could have the ray hit; `Establish` and `Disconnect` are the handlers of
the session. Creating and raising end in `Reorder`, which is `reorder_surfaces` with everything `update_distance_by_layer_index` calls.
A surface that is destroyed leaves the list at once: in the code its weak pointer stays until the next walk, which skips it.

- `PeerShowsSurfaces`: with a session, each surface that has a texture is shown with it, where, how and at which offset the surface has
  itself. Every setter would have to forget one call for this to fail.
- `LayersFollowOrder`: windows that never were cursors are drawn in the order of the list. A cursor keeps the layer it had,
  so one that becomes a window shares a layer until the next reorder.
- `WindowsStay`: a session that comes up or goes leaves those windows in place, although `init_renderer` places each anew. It does
  move the cursor, from the ray to its sphere, until the mouse moves; nothing says where it should be.

Clients are taken not to destroy a `wl_buffer` between attach and commit, which `SharedMemory` lets them do. Frame callbacks are left to
`RemoteSession`. The hotspot is left out: the place of a cursor depends
on the size it had when the ray last moved, which `at` does not tell.

## Materials: textures, samplers, uniforms

`bindP`, `bindC` and `rebound` are `texture_bindings` of a technique's `pending_` and `current_` and its `changed_`; `uniP`, `uniC` the lists of uniforms,
in order, an element of `uniC` with its `newly_comitted`; `tex` the members of a `GlTexture`, its image and format one version; `paramP` and `paramC` the
parameters of a `GlSampler`. A technique stands for its object as well (`app`, `committed`): what is between them is `SceneSync`. `peer` is
what proxies have been sent, and `Junk` what the forced sync sends of memory never written.

Requests are `BindTexture`, `SetUniform`, `SetParameter` (all six of them), `Image2d`, `GenerateMipmap`, `Destroy` and `GetBounded`, the first three with
the errors they post. `Commit` is `VirtualObject::commit` down to textures and samplers, with the `Sync` that follows; a drag commits also
for a client in error. A texture is committed and sent by any technique that binds it.

- `BindingsMirrored`, `TexturesMirrored`, `SamplersMirrored`, `UniformsMirrored`: in every session the peer has what was committed. The
  code does not promise it for all, and each exemption is a history variable that names a real gap:
  - `missed`: a texture that is bound to nothing when a session comes up is not sent then, nor when it is bound again: its
    flags were cleared in the session before.
  - `dropped`: a binding replaced by one to a texture destroyed before the commit goes, and the peer keeps the old one.
  - `unsynced`: what is committed for an object before it has an app is never sent in that session, as in `SceneSync`.
  - a uniform that is an array: the constructor of `UniformVariable` copies one element, and the rest sent is what follows it in memory.
- `NamedOnce`: a name occurs once among committed uniforms. One with a location and no name replaces nothing, although the
  last comparison of `commit()`, which is unreachable, compares locations: the list grows with every commit, and the peer gets all of it, in order.

A sampler's `changed` is never reset, so that each sync sends every parameter: wasteful, and why `SamplersMirrored` has no gap of the first kind.

## SharedMemory: pools, buffers and who reads them

`pool` holds `ShmPool` (`refs` is `internal_refcount`, `map` numbers its mappings, as `mremap` may move it) together with the file behind it;
`buf` is `ShmBuffer`; `pend`, `attached` and `shader` are what refers to buffers: the `WeakResource` of a `GlBuffer` or `GlTexture`, the raw
`wl_resource` of a surface, the raw `ShmBuffer` of a `GlShader`. `data` is the memory of a `DataPool`, `handed` that which zen-remote was given and
has not sent, `content` what is in it. Sizes are pages, and `Word` is 2^32: `from_wl_array` may take four bytes for an `off_t`, with
either of two outcomes, since the specialisation of `convert.cpp` is declared in no header. In pages, a file reaches to the end of its last
one, where the kernel gives zeros and no SIGBUS: content read there is not followed.

A fault ends the server unless the handler of SIGBUS recognises the address. There are two in the process: that of `begin_access`, and
libwayland's own, which `wl_shm_buffer_begin_access` installs when the first surface is read (`data_pool.cpp:37`). `installed` and `top` say which
exist and which came last. A handler that does not know the address puts back the one before it and raises the signal again, now
without an address, so that the other does not know it either: once both exist, only memory that the last one guards is guarded (`Handling`). The
doc of `begin_access` warns of it (`shm_buffer.cpp:134-136`).

Requests are those of `zwn_shm`, its pools and buffers, and the ones that attach or commit; the client shortens its file at any time
(`TruncateFile`); resources go in any order when it goes (`Teardown`). The input thread reads a buffer in two steps,
`DragBegin` (allocate, take the address) and `DragCopy`, between which the event loop does what it likes. A misuse ends the behaviour.

- `BuffersCovered`: a buffer lies in the mapping, after the pool's resource has gone and the pool has grown. `PoolsCounted`: a pool is
  mapped as long as it has a resource or buffers.
- `MisuseHasCause`: a short file does not end the server, with `begin_access`, unless the pool outgrew it, `sigbuf_is_impossible`
  being decided when the pool is created and not again by `resize`; or unless both handlers are installed, which takes no more than a surface
  and a buffer. Reading what is freed takes a shader or a surface left with a buffer that is gone: both hold it
  raw, and a shader reads it at its first sync in *every* session, outside `begin_access`. A race, `"race"`, takes a drag: the doc of
  `begin_access` calls it thread-safe, and it is, but the mapping it guards is not.
- `ZerosReported`: zeros that took the place of a short file are never taken for content without an error.
- `HandedOverIntact`: memory that zen-remote has still to send does not change. `reset()` before each refill is what makes
  it so. A session that comes up between the steps of a drag is handed memory not yet filled, and exempt.

## RemoteSession and InputThread: two threads

`RemoteSession` has what the event loop does with peers and frames: `session` is `current_session_`, `busy` the threshold in the frame handler,
`armed` the timer, `callback` in which of the two lists each frame callback is. `PeerDiscovered` drops a peer while a session is up, and changes nothing when `Session`
throws. Virtual objects stand for surfaces as well, which treat frame callbacks alike.

`InputThread` adds the other thread: `thread` is where it is and which locals it works with, `mouse` the stream of its connection in cells of two bytes, `buf` the buffer
of `handle_events`, which keeps what earlier reads left. `Poll` looks at `terminate_requested_`, and `Read` takes any number of cells and begins the call
of the seat; the server may have gone on stopping in between. `focused` is `focused_obj_`, `moving` a `MOVING` of `obj_state_`. An object is a surface, or a virtual object with its app; `unit` is
the rendering unit of one, as far as the list of its object is concerned. The surfaces have a `renderer_` as long as there is a session.

Every event is cut where it uses what the event loop may take away. `lock()` and `operator->` of a `WeakPtr` give a raw pointer, which `thread.obj` holds until the
next step follows it:

- the hit test locks each object of the lists (`TestNext`) and asks it (`Test`), keeping the nearest as a weak pointer;
- `SetFocus` locks what had the focus, and `Leave` tells it; `Follow` goes through the new `focused_obj_` without looking whether it is still there, and `Use` calls `enter`, `motion` and `frame`;
- a button and the wheel lock the focus, or what has the keyboard, and `Use` it;
- the cursor is hidden or moved, and a dragged surface moved, by `MoveSurface`, and `RenderSurface` if it has a renderer;
- a dragged app commits its object: `DragCommit` up to `has_session()`, `DragSync` up to `channel_nonnull()`, `DragCreate`, `DragSend`, which tells the
  proxy the place of the app, `DragUnit` for a unit in the list, which makes its own proxy, and `DragFinish`, the proxy's commit.

`server` follows `Server::init` and `terminate()`: the thread runs from the constructor of the seat, before
`instance.seat` is assigned, and ends in the destructor of `InputListenServer`, after `ray_`, declared behind it, is gone. `wl_display_destroy` is last, and `SignalHandled`
is the return of `handle_signal` to the loop that has called it. What the event loop takes from the event in hand is noted in `overlap`, which the end of the event clears.

- `RacesHaveCause`: freed objects are met only if the event loop destroyed the object since the event began, or just the unit, or the session with its renderers, where
  those are what is used. The assertion of `channel_nonnull`, an empty `proxy_` and proxies of a lost session come only from losing the
  session within one event; a seat without its parts is called only as the server starts or stops. All are reachable, a freed object by each kind of
  event: nothing in the code prevents them.
- `HandledInOrder`: events are handled in order, none twice, if every read returns whole events. Otherwise they are not: a
  short read leaves the rest of the event before it in the buffer, which is handled again.
- `CallbacksAnswered`: a committed frame callback is answered or goes with its object, unless the channel is busy again and
  again. The timer's handler returns nowhere early, which is what it takes.
- `JoinReturns`: once `terminate()` has begun, the destructor of the seat gets the thread joined, in the middle of an event, with a mouse connected or not.
- `ExitsGracefully`, which the run `server_exit` shows violated: `main()` logs "Exiting gracefully" after `start()` and `terminate()`, but `start()` does not return.
  `handle_signal` calls `terminate()` from the dispatch of the loop, `wl_display_destroy` frees that loop, and `wl_display_run` goes on with it, since
  nothing has called `wl_display_terminate`.

Data races proper (a list that is spliced by one thread and walked by the other, `terminate_requested_`, which is a plain
`bool`) are undefined for the whole program; the modules take each step above as atomic, and say what goes wrong even then. One `Use` stands for the calls
made in a row through one pointer. A unit's own proxy, which may outlive a session as its object's may, is not followed, nor what `sync` does below a unit.

## Runs and bounds

| run | instance | states | shows |
|---|---|---|---|
| `scene_any_client` | one object, unit, technique, program, vertex array, buffer; 2 sessions | 360,736 | the invariants for every client |
| `scene_mirrored` | the same with a shader and two positions, or two objects, units and techniques sharing a buffer with two contents; all rules; 2 sessions | 179,983 with symmetry | refinement of `SceneMirror` |
| `scene_shader_deleted` | a program and a shader, 2 sessions | | violation |
| `resource_tree` | one object, two units, techniques and apps | 265,000 | lifetimes |
| `resource_tree_owner` | one of each | | violation |
| `server_seat` | one client, two surfaces; an app with a toplevel or with two seats, or two toplevels | 1,142,156 with symmetry | the invariants of `ServerSeat` |
| `materials` | two techniques sharing a texture, or one with two textures; a sampler, one binding point, a uniform by name and location; 2 sessions | 152,517 with symmetry | the peer draws with what was committed |
| `shared_memory` | a pool, two buffers, a reader, a shader, a surface; files and sizes of up to 2 pages | 660,751 with symmetry | mappings, reads, what is handed over |
| `input_thread` | an app and its object, a callback, a peer, 2 sessions, 2 events; reads of 1, 7, 8 or 16 cells; or with a surface, reads of 8 or 16 cells | 1,544,997 | order of events, races |
| `input_thread_progress` | an app and its object; reads of 8 cells | 71,369 | frame callbacks answered, the thread joined |
| `server_exit` | the same, 1 session, 1 event | | violation |
| `surface_stack` | two surfaces, two textures, two rounds of attach with an offset, or three surfaces without textures; two directions | 813,368 with symmetry | layers, what the peer shows, windows over sessions |

Bounds: `MaxSessions` bounds the number of sessions established, and two are enough for what one leaves behind to
meet the next. `MaxVersion = 1` tells no content from content, and a client may set the same content
again, which sets damage again; a later update that is lost shows only with two, which `scene_mirrored` has, and the proofs cover any number. Ids are not reused in a run; a resource that is destroyed stays gone, and the sets of ids bound how many there are.
Two units with two techniques under one object are what it takes for a technique to be displaced, and two apps for one to be replaced.
Two objects matter only through what they share. `MCScene` therefore takes two cases in turn: in `Alone`, one object, unit and technique with
every kind of resource, or moved while it draws with neither program nor vertex array; in `Shared`, two of each that have a buffer in common and nothing else.
`Twins` in `MCScene`, `MCServerSeat`, `MCSurfaceStack`, `MCMaterials` and `MCSharedMemory` makes ids of a kind interchangeable, which they are in the specifications, the bounds and the
properties of those runs, none of which is a liveness property. In `MCServerSeat`, `OneToplevel`, `OnlyWindows` and `NoToplevel` take turns: an app, a second toplevel and a second seat meet the two
windows each on its own. Two windows are what the keyboard moves between, one of which may be a cursor instead, and an app is
what has a pointer and no keyboard; two seats are what it takes for one to erase the entry of the other, and two toplevels for a surface to get a second. Clients meet only in the focus and in whose requests count, and the proofs
cover any number of them.

`MaxOffset` bounds the sum of a surface's offsets and with it how often one can attach: twice, so that a texture is replaced or lost. Three windows
are what it takes to raise one from behind another past a third, for which textures do not matter: `MCSurfaceStack` has a third surface only
while none has had a texture or an offset (`Bounds`), and it stays (`ThirdStays`), while the other two come and go.

The bounds of `MCMaterials` take one concern at a time, images, mipmaps, parameters or uniforms, since `commit` and `sync` treat each by
itself and bindings alone affect several; and two techniques or two textures, for sharing or for change. A client in error
is not followed. In `MCSharedMemory`, `Sizing`, `Reading`, `Sharing` and `Drawing` take turns in the same way: a pool that grows needs two
buffers, a short file one, a shader left behind no second mapping; and with `Handled` for the two handlers of SIGBUS, which need a short file and a reader of each kind. Sizes reach one page beyond a pool, and sums stay below `Word`. Reads of
1, 7, 8 and 16 cells (`MCInputThread` lets 1 and 7 meet no surface, since what is read is the same for all objects) are less than a magic number, less than an event, one, and two at once; two events are what it takes for one to be
handled in the place of the other, and two sessions for a proxy to outlive one. An app and a surface are the two kinds of object, of which an event
may meet one as it leaves the other; one unit stands for the list, which is walked unit by unit.

Deadlock is checked for `SurfaceStack`, where the mouse always can move. For the others it is not: clients may stop at any time, ids,
sessions and events run out, and behaviours end at undefined behaviour, to which the stopped server comes as well.

Fairness is assumed in `InputThread` alone, for its two liveness properties: of the frame timer, which its handler rearms whatever happens and which libwayland's
loop serves; of each step of `terminate()` up to the join, which is reached once entered; and of the input thread, which the operating system
runs and which polls, so that it always has a step. It is weak fairness throughout, and only of `LoopStep(Frame)` among the steps of the event
loop: clients, peers and the mouse owe nothing.

Some definitions are commented as slips. They are not part of any specification; each is a mistake the code could
make in the definition that follows it, and putting it there makes TLC report a violation of a property.

## Proofs

`SceneSyncProofs` proves, for any sets of ids, any number of sessions and clients under no discipline:
`TypeCorrect` ([]`TypeOK`), `ProxyCorrect` ([]`ProxyOfThisSession`), `RemoteIdsCorrect`
([]`RemoteIdsExist`) and `DamageCorrect` ([]`UndamagedNotStale`). The assumption is
`SceneSyncAssumption`: `Start` is a position, the ids of nodes, resources and `Nil` are distinct.

The type invariant is inductive by itself. The others are not: that owners have proxies follows from how `sync` walks
the tree, so a unit's technique must be the unit's own and live (`Tree`); that nothing new has a
proxy or content at the peer, that it was created at all (`RefsBorn`). `IInv` is the conjunction, which TLC has
checked on the instance of `scene_any_client`. The argument follows the model's structure: lemmas on what
`Sync` leaves (`SyncProxies`, `SyncRemoteIds`, `SyncBuffers`), used by both commits and the establishing of a
session; one lemma per kind of request; and one for the destructors, whose sets are closed enough for no
proxy to be left without its owner's.

`SceneRefinementProofs` proves that `SceneSync` implements `SceneMirror` (`SceneSyncMirrors`, for `MirrorsScene`) and sends no buffer
without data (`UploadsFilled`, for `NoEmptyUpload`), for any sets of ids, any number of sessions and any `Discipline` that has
all the rules. The assumptions are `SceneSyncAssumption` and `SceneRefinementAssumption`: programs are not buffers, and no
version is `Nil`. `RInv` is what the peer of a session knows and what is still marked to be told, besides the rules and `IInv`: of what is
committed, everything above it is committed and alive, and a unit has its committed technique (`Shape`); a program the peer has was linked with
just what it has attached, and one that is drawn with is linked and not marked (`ProgramInv`), as buffers in use have data and are not marked
(`BufferInv`); attributes and bindings are those of here, unless what they name is dead on both sides (`VertexArrayInv`, `NodeInv`); without a
session there is nothing (`NoSession`). The rules bind requests only, so that a drag, which commits what is pending, keeps them is
proved, not assumed (`CommitRules`): what was pending becomes what is current. `CommitEffects` and `EstablishTells` say what the two uses of
`sync` tell the peer, `DestroyNodesConsistent` and `DestroyResourceConsistent` what a destructor takes away, `LookSame` that the invariant is
enough for a technique to look alike on both sides, and `MirrorStep` maps each step: to `Connect`, `Disconnect`, or a `Change` that both
scenes make at once. TLC has checked `RInv` on the instance of `scene_mirrored`. That each of the rules is needed stays with TLC.

`ServerSeatProofs` proves every invariant of `ServerSeat`, for any clients, surfaces, apps, toplevels and number of seats:
`TypeCorrect`, `PointerCorrect`, `StraysCorrect`, `KeyboardCorrect`, `ActivationCorrect`, `CursorCorrect`, `MisuseCorrect`. The assumption is
`ServerSeatAssumption`: things and toplevels have clients, surfaces are not apps. `IInv` adds what no client sees: a surface that does not
exist has no role (`Fresh`), a toplevel is of the client of its surface and goes with it (`Own`), and whatever can be followed is there, or its client has been careless (`SeatOwed`, `ToplevelOwed`). TLC has checked it on the instance of
`server_seat`. One lemma shows the steps of `Next` preserve each part: pointer, keyboard, cursor, misuse.

`SurfaceStackProofs` proves every property of `SurfaceStack`, for any finite set of surfaces, any textures, directions and offsets:
`TypeCorrect`, `PeerShows`, `LayersCorrect`, `StayCorrect`. The assumptions are `SurfaceStackAssumption` and `NilAssumption`. `IInv` adds that a renderer has
what its surface has even where nothing is shown yet (`RenderersAgree`), that windows stand where direction and layer have them (`Standing`, without
which a session would move them), that no two surfaces share a place (`OwnPlaces`), and that pending offsets fit. Surfaces are finite since layers are
counted. One lemma says what each operation on one surface and its renderer leaves (`RedrawAgrees`, `InitAgrees`, `CommitAgrees`), `EachSurface` that steps made of
those preserve the invariant, `ReorderWorks` that counting the windows in front orders layers.

`ResourceTreeProofs` proves every property of `ResourceTree`, for any objects, units, techniques and apps: `TypesOK`, `ObjectsAreMatched`,
`PointersAreDown`, `MisuseIsCaused`. The assumption is `ResourceTreeAssumption`, that ids are distinct. The properties speak of defined states only, and
the destructors rely on more: a node's owner is of the kind above it and was created (`Shape`); `Matched` and `Down` are the properties without
their exemption; an object's app was made for that object (`AppsOwn`); every committed unit is in its object's list
(`UnitsListed`), so that only uncommitted ones are left behind; and each dangling pointer comes from something the client did
(`Caused`), before it is followed. TLC has checked `IInv` on the instance of `resource_tree` and on one with two objects and
one technique (1,435,210 states), where things of one object could be mistaken for another's.

`MaterialsProofs` proves every property of `Materials`, for any techniques, textures, samplers, binding points, uniforms and sessions:
`TypesOK`, `NamesAreKeptOnce`, `UniformsAreMirrored`, `BindingsAreMirrored`, `TexturesAreMirrored`, `SamplersAreMirrored`. The assumptions are
`MaterialsAssumption` and `NilAssumption`. What the peer has depends on flags that were cleared earlier, so `IInv` adds
what each flag owes: without a proxy nothing was sent, and what is committed has one unless it lacks an app (`SessionInv`); bindings pending are
the committed ones or are marked (`PendingInv`); a clear flag of a texture means its image was sent, or is in `missed` (`TextureInv`); and the last
uniform of a list for a location is the one last committed, and what the peer has (`UniformInv`). `commit()` merges the lists of uniforms in a
closed form, `Kept` followed by the new ones (`InOrder`); that a last position exists is shown by well-founded induction (`LastOfExists`). Steps
are cut into `SyncByParts` and `CommitByParts`, which name what sync and commit leave of each part.

`SharedMemoryProofs` proves every property of `SharedMemory`, for any pools, buffers, readers, shaders, surfaces and sizes: `TypesOK`,
`BuffersAreCovered`, `PoolsAreCounted`, `MisuseIsCaused`, `ZerosAreReported` and the action property, `HandedOverStaysIntact`. The assumption is
`SharedMemoryAssumption`. `IInv` has five parts: a live buffer has a pool, besides `BuffersCovered` and `PoolsCounted` (`PoolInv`, with `FiniteSetTheorems`
for the counts); a file found short, or short and taken as sealed, has a cause before anyone reads it (`WarnInv`); what shaders and surfaces hold is
alive or was left with them (`RefInv`); no memory has two holders, which is why a refill never touches what was handed over, and no pool reads as zeros
while its client is in no error (`DataInv`); the handler on top is one of those installed (`HandlerInv`), so that a reader whose own is installed and not on top has met both; and `MisuseInv`.

`InputThreadProofs` proves every safety property of `InputThread`, for any objects, callbacks, peers, sessions and sizes of reads: `TypesOK`,
`RacesAreCaused`, `EventsInOrder`. The assumptions are `RemoteSessionAssumption` and `InputThreadAssumption`. `HeldInv` says that what an event holds
between two of its steps is there, or went in between (`Sound`), so that whoever follows it either finds it or has the cause at hand; each step of the thread goes on soundly, ends the event, or
breaks with a cause (`Moves`), and the steps of the event loop only take away, and are noted (`GoesOnly`, `OverlapNoted`); `StreamInv` numbers the cells of the stream, eight to an event, and says that what is still in the
connection ends with the last event sent and follows the last one handled, which reads of whole events keep. Lists are reasoned
about with `SequenceTheorems`.

TLC has checked each of these invariants on the instance of its module's run before it was proved.

Only model-checked: `CallbacksAnswered` and `JoinReturns`, which are liveness under fairness, out of the prover's reach.

## Not modelled

The selection (data devices, sources and offers) is left for a module of its own. Enabling and disabling attributes of vertex arrays is left out of `SceneSync`. Geometry and
hit tests are floating point, and with them what the configured size and the regions of an app decide; xdg-shell's configure
sequence keeps no serials. Popups, positioners, expansive apps and drag and drop are stubs in the code. zen-remote,
libwayland and the kernel are external: of zen-remote only what a proxy has been told is modelled, and that it loses everything
with its session; of libwayland, that requests of a client are handled one at a time and its resources destroyed when it goes.
