------------------------------- MODULE Materials -------------------------------
(***************************************************************************)
(* What a base technique draws with: texture bindings, the textures and    *)
(* samplers behind them, and uniform variables, and how these are mirrored *)
(* to the peer of the session.  The tree above a technique is the subject  *)
(* of SceneSync: here a technique stands for the VirtualObject it draws,   *)
(* its commit is that of the object, and `app` tells whether the object    *)
(* has an app, without which VirtualObject::sync returns early.            *)
(*                                                                         *)
(* Techniques, textures and samplers are created by the client before the  *)
(* first step.  An image and its format are one version number.  Requests  *)
(* are handled one after the other on the event loop.  "Slip" marks a      *)
(* mistake the code could make, no part of the model.                      *)
(***************************************************************************)
EXTENDS Integers, Sequences, FiniteSets

CONSTANTS
  Techniques, Textures, Samplers,
  Points,         \* binding points a texture can be bound to
  ParameterSize,  \* of each valid pname, the size its value must have
  OtherPname,     \* a pname that is not valid
  Names,          \* names of uniforms
  Locations,      \* locations of uniforms
  LocationOf,     \* where the program has the uniform of a name
  Values,         \* of uniforms and parameters
  MaxVersion,     \* bound: images a client uploads are 1..MaxVersion
  MaxUniforms,    \* bound: uniforms a technique holds, pending and current
  MaxSessions,    \* bound: number of sessions established
  Junk,           \* what is read from memory that was never written
  Nil

Pnames == DOMAIN ParameterSize
Sizes  == {4, 16}   \* of a number, and of four of them
Things == Techniques \cup Textures \cup Samplers

ASSUME MaterialsAssumption ==
  /\ MaxVersion \in Nat /\ MaxUniforms \in Nat /\ MaxSessions \in Nat
  /\ OtherPname \notin Pnames
  /\ Values # {} /\ Locations # {}
  /\ Names \cap Locations = {} /\ LocationOf \in [Names -> Locations]
  /\ Techniques \cap (Textures \cup Samplers) = {} /\ Textures \cap Samplers = {}
  /\ Junk \notin Values /\ Nil \notin Values \cup {Junk}

VARIABLES
  session,      \* the number of the session that is up, or 0
  sessions,     \* how many there have been
  client,       \* running, posted a protocol error, or gone
  live,         \* the things that exist
  app,          \* the techniques whose object has an app
  committed,    \* the techniques whose object was ever committed
  bindP, bindC, \* TextureBindingList of pending_ and current_
  rebound,      \* changed_ of the pending one
  uniP, uniC,   \* UniformVariableList of pending_ and current_
  tex,          \* GlTexture
  paramP, paramC, \* params of pending_ and current_ of a GlSampler
  proxy,        \* proxy_: the session it was made in, or 0
  peer,         \* what the peer of the session was sent
  wanted,       \* history: the last value committed for each uniform
  unsynced,     \* history: committed in this session, and not sent by that commit
  missed,       \* history: what the forced sync of this session left out
  dropped       \* history: bindings committed when what they bind was destroyed

bindVars == <<bindP, bindC, rebound>>
vars == <<session, sessions, client, live, app, committed, bindVars, uniP, uniC,
          tex, paramP, paramC, proxy, peer, wanted, unsynced, missed, dropped>>

Binding  == Textures \X Samplers
Bindings == [Points -> Binding \cup {Nil}]
Unbound  == [b \in Points |-> Nil]

(* at: the name, or the location if the name is empty                      *)
Uniform == [at : Names \cup Locations, v : Values, count : 1..2]
Entry == [u : Uniform, new : BOOLEAN]   \* new: newly_comitted
LastOf(I) == CHOOSE i \in I : \A j \in I : j <= i   \* of some positions in a list
Slot(u) == IF u.at \in Names THEN LocationOf[u.at] ELSE u.at

ASSUME NilAssumption == Nil \notin Binding \cup Uniform

(* pImage 0: pending_.data has no resource; image 0 and mip FALSE: neither *)
(* was ever set, and what current_ holds there is not initialised          *)
Texture == [pImage : 0..MaxVersion, image : 0..MaxVersion, dataChanged : BOOLEAN,
            pMip : BOOLEAN, mip : BOOLEAN, mipChanged : BOOLEAN]
NewTexture == [pImage |-> 0, image |-> 0, dataChanged |-> FALSE,
               pMip |-> FALSE, mip |-> FALSE, mipChanged |-> FALSE]
Params == [Pnames -> Values \cup {Nil}]
NoParams == [p \in Pnames |-> Nil]

Peer == [bind : [Techniques -> Bindings],
         uniform : [Techniques -> [Locations -> Values \cup {Junk, Nil}]],
         image : [Textures -> (0..MaxVersion) \cup {Nil}],
         mip : [Textures -> BOOLEAN],
         param : [Samplers -> Params]]
EmptyPeer == [bind |-> [t \in Techniques |-> Unbound],
              uniform |-> [t \in Techniques |-> [l \in Locations |-> Nil]],
              image |-> [x \in Textures |-> Nil],
              mip |-> [x \in Textures |-> FALSE],
              param |-> [s \in Samplers |-> NoParams]]

TypeOK ==
  /\ session \in 0..MaxSessions /\ sessions \in 0..MaxSessions
  /\ client \in {"running", "failed", "gone"}
  /\ live \subseteq Things /\ app \subseteq Techniques /\ committed \subseteq Techniques
  /\ bindP \in [Techniques -> Bindings] /\ bindC \in [Techniques -> Bindings]
  /\ rebound \in [Techniques -> BOOLEAN]
  /\ uniP \in [Techniques -> Seq(Uniform)] /\ uniC \in [Techniques -> Seq(Entry)]
  /\ \A t \in Techniques : Len(uniP[t]) + Len(uniC[t]) <= MaxUniforms
  /\ tex \in [Textures -> Texture]
  /\ paramP \in [Samplers -> Params] /\ paramC \in [Samplers -> Params]
  /\ proxy \in [Things -> 0..MaxSessions]
  /\ peer \in Peer
  /\ wanted \in [Techniques -> [Locations -> Uniform \cup {Nil}]]
  /\ unsynced \subseteq Things
  /\ missed \subseteq Textures \X {"image", "mipmap"}
  /\ dropped \subseteq Techniques \X Points

Init ==
  /\ session = 0 /\ sessions = 0 /\ client = "running"
  /\ live = Things /\ app = {} /\ committed = {}
  /\ bindP = [t \in Techniques |-> Unbound]
  /\ bindC = [t \in Techniques |-> Unbound]
  /\ rebound = [t \in Techniques |-> FALSE]
  /\ uniP = [t \in Techniques |-> <<>>] /\ uniC = [t \in Techniques |-> <<>>]
  /\ tex = [x \in Textures |-> NewTexture]
  /\ paramP = [s \in Samplers |-> NoParams] /\ paramC = [s \in Samplers |-> NoParams]
  /\ proxy = [x \in Things |-> 0]
  /\ peer = EmptyPeer
  /\ wanted = [t \in Techniques |-> [l \in Locations |-> Nil]]
  /\ unsynced = {} /\ missed = {} /\ dropped = {}

Alive(binding) == binding # Nil /\ binding[1] \in live /\ binding[2] \in live

(* TextureBindingList::remove_expired *)
WithoutExpired(list) == [b \in Points |-> IF Alive(list[b]) THEN list[b] ELSE Nil]

TexturesIn(list) == {x \in Textures : \E b \in Points, s \in Samplers : list[b] = <<x, s>>}
SamplersIn(list) == {s \in Samplers : \E b \in Points, x \in Textures : list[b] = <<x, s>>}

----------------------------------------------------------------------------
(* sync() of the techniques in O that have an app, evaluated with the      *)
(* committed bindings and uniforms (primed); texC are the textures after   *)
(* the commit, and chg tells of each technique whether its bindings' list  *)
(* is marked changed                                                       *)

ShownOf(O)        == O \cap app \cap live
SyncedBindings(t) == WithoutExpired(bindC'[t])
TexturesOf(O)     == UNION {TexturesIn(SyncedBindings(t)) : t \in ShownOf(O)}
SamplersOf(O)     == UNION {SamplersIn(SyncedBindings(t)) : t \in ShownOf(O)}
SyncedBy(O)       == ShownOf(O) \cup TexturesOf(O) \cup SamplersOf(O)

(* GlTexture::sync *)
ImagesSent(O, force, texC) == {x \in TexturesOf(O) : force \/ texC[x].dataChanged}
MipmapsSent(O, force, texC) == {x \in TexturesOf(O) : force \/ texC[x].mipChanged}
Cleared(c, image, mip) ==
  LET d == [c EXCEPT !.dataChanged = @ /\ ~image]
  IN [d EXCEPT !.mipChanged = @ /\ ~mip]

(* TextureBindingList::sync *)
(* Slip: force_sync is not heeded.                                         *)
SendBindingsIfChanged(t, force, chg) ==
  [b \in Points |-> IF SyncedBindings(t)[b] # Nil /\ chg[t]
                    THEN SyncedBindings(t)[b] ELSE peer.bind[t][b]]
SendBindings(t, force, chg) ==
  [b \in Points |-> IF SyncedBindings(t)[b] # Nil /\ (force \/ chg[t])
                    THEN SyncedBindings(t)[b] ELSE peer.bind[t][b]]

(* UniformVariableList::sync, in the order of the list.  The constructor   *)
(* of UniformVariable copied one element of the value, whatever its count. *)
SentValue(u) == IF u.count = 1 THEN u.v ELSE Junk
SendEach(at, list, I) ==
  [l \in Locations |->
     LET there == {i \in I : Slot(list[i].u) = l} IN
     IF there = {} THEN at[l] ELSE SentValue(list[LastOf(there)].u)]
SendUniforms(t, force) ==
  SendEach(peer.uniform[t], uniC'[t], {i \in DOMAIN uniC'[t] : force \/ uniC'[t][i].new})

(* GlSampler::sync: changed of a Parameter is never reset, so every value  *)
(* is sent each time                                                       *)
SendParams(s) ==
  [p \in Pnames |-> IF paramC'[s][p] # Nil THEN paramC'[s][p] ELSE peer.param[s][p]]

Sync(O, force, texC, chg) ==
  /\ proxy' = [x \in Things |->
        IF x \in SyncedBy(O) /\ proxy[x] = 0 THEN session' ELSE proxy[x]]
  /\ tex' = [x \in Textures |->
        Cleared(texC[x], x \in ImagesSent(O, force, texC), x \in MipmapsSent(O, force, texC))]
  /\ peer' =
       [bind |-> [t \in Techniques |->
          IF t \in ShownOf(O) THEN SendBindings(t, force, chg) ELSE peer.bind[t]],
        uniform |-> [t \in Techniques |->
          IF t \in ShownOf(O) THEN SendUniforms(t, force) ELSE peer.uniform[t]],
        image |-> [x \in Textures |->
          IF x \in ImagesSent(O, force, texC) THEN texC[x].image ELSE peer.image[x]],
        mip |-> [x \in Textures |->
          peer.mip[x] \/ (x \in MipmapsSent(O, force, texC) /\ texC[x].mip)],
        param |-> [s \in Samplers |->
          IF s \in SamplersOf(O) THEN SendParams(s) ELSE peer.param[s]]]

----------------------------------------------------------------------------
(* commit()                                                                *)

(* UniformVariableList::commit.  The new uniforms follow those there are,  *)
(* and each takes away the ones before it that it replaces: only uniforms  *)
(* with names are.                                                         *)
(* Slips: nothing is replaced; new uniforms are put in front.              *)
Replaces(u, old) == u.at \in Names /\ old.at = u.at
Old(list) == [i \in DOMAIN list |-> [u |-> list[i].u, new |-> FALSE]]
New(pending) == [i \in DOMAIN pending |-> [u |-> pending[i], new |-> TRUE]]
JoinedInFront(list, pending) == New(pending) \o Old(list)
Joined(list, pending) == Old(list) \o New(pending)
KeptAll(all) == DOMAIN all
Kept(all) ==
  {i \in DOMAIN all : \A j \in DOMAIN all :
     i < j /\ all[j].new => ~Replaces(all[j].u, all[i].u)}

(* The positions in K in their order, of which there is one, as a set      *)
InOrder(K) ==
  {f \in [1..Cardinality(K) -> K] :
     /\ \A i, j \in DOMAIN f : i < j => f[i] < f[j]
     /\ \A k \in K : \E i \in DOMAIN f : f[i] = k}
Merged(list, pending) ==
  LET all == Joined(list, pending) IN
  {[i \in DOMAIN f |-> all[f[i]]] : f \in InOrder(Kept(all))}

(* Slip: the pending list is copied, not moved.                            *)
KeptPending(t) == uniP[t]
LeftPending(t) == <<>>

(* GlTexture::commit *)
(* Slip: data_changed is not set.                                          *)
CommitTextureQuietly(x) ==
  LET p == tex[x].pImage # 0 IN
  [pImage |-> 0, image |-> IF p THEN tex[x].pImage ELSE tex[x].image,
   dataChanged |-> tex[x].dataChanged, pMip |-> FALSE,
   mip |-> tex[x].mip \/ tex[x].pMip, mipChanged |-> tex[x].mipChanged \/ tex[x].pMip]
CommitTexture(x) ==
  LET p == tex[x].pImage # 0 IN
  [pImage |-> 0, image |-> IF p THEN tex[x].pImage ELSE tex[x].image,
   dataChanged |-> tex[x].dataChanged \/ p, pMip |-> FALSE,
   mip |-> tex[x].mip \/ tex[x].pMip, mipChanged |-> tex[x].mipChanged \/ tex[x].pMip]

(* GlSampler::commit *)
(* Slip: what was committed before is forgotten.                           *)
CommitParamsOnly(s) == paramP[s]
CommitParams(s) ==
  [p \in Pnames |-> IF paramP[s][p] # Nil THEN paramP[s][p] ELSE paramC[s][p]]

(* TextureBindingList::commit: pending keeps what was committed            *)
CommitBindings(t) == WithoutExpired(IF rebound[t] THEN bindP[t] ELSE bindC[t])

Wanted(t) ==
  [l \in Locations |->
     LET there == {i \in DOMAIN uniP[t] : Slot(uniP[t][i]) = l} IN
     IF there = {} THEN wanted[t][l] ELSE uniP[t][LastOf(there)]]

(* VirtualObject::commit down to GlBaseTechnique::commit, and the sync of  *)
(* what is damaged when a session is up.  The client asks for it, or the   *)
(* user drags the app.                                                     *)
Commit(t) ==
  LET X == TexturesIn(CommitBindings(t))
      S == SamplersIn(CommitBindings(t))
      texC == [x \in Textures |-> IF x \in X THEN CommitTexture(x) ELSE tex[x]]
  IN
  /\ t \in live /\ (client = "running" \/ t \in app)
  /\ committed' = committed \cup {t}
  /\ bindC' = [bindC EXCEPT ![t] = CommitBindings(t)]
  /\ bindP' = [bindP EXCEPT ![t] = WithoutExpired(@)]
  /\ rebound' = [rebound EXCEPT ![t] = FALSE]
  /\ \E list \in Merged(uniC[t], uniP[t]) : uniC' = [uniC EXCEPT ![t] = list]
  /\ uniP' = [uniP EXCEPT ![t] = LeftPending(t)]
  /\ paramC' = [s \in Samplers |-> IF s \in S THEN CommitParams(s) ELSE paramC[s]]
  /\ paramP' = [s \in Samplers |-> IF s \in S THEN NoParams ELSE paramP[s]]
  /\ wanted' = [wanted EXCEPT ![t] = Wanted(t)]
  /\ UNCHANGED <<session, sessions, client, live, app>>
  /\ IF session = 0
     THEN /\ tex' = texC
          /\ UNCHANGED <<proxy, peer, unsynced, missed, dropped>>
     ELSE /\ Sync({t}, FALSE, texC, rebound)
          /\ unsynced' = IF t \in app THEN unsynced \ (X \cup S)
                         ELSE unsynced \cup {t} \cup X \cup S
          /\ missed' = (missed \ (ImagesSent({t}, FALSE, texC) \X {"image"}))
                         \ (MipmapsSent({t}, FALSE, texC) \X {"mipmap"})
          /\ dropped' =
               LET D == {b \in Points : /\ bindP[t][b] \notin {Nil, bindC[t][b]}
                                        /\ ~Alive(bindP[t][b])}
               IN IF ~rebound[t] THEN dropped
                  ELSE (dropped \cup ({t} \X D))
                         \ ({t} \X {b \in Points : CommitBindings(t)[b] # Nil})

----------------------------------------------------------------------------
(* Client requests                                                         *)

(* A BoundedApp is created on the object *)
GetBounded(t) ==
  /\ client = "running" /\ t \in live
  /\ app' = app \cup {t}
  /\ UNCHANGED <<session, sessions, client, live, committed, bindVars, uniP, uniC, tex,
                 paramP, paramC, proxy, peer, wanted, unsynced, missed, dropped>>

BindTexture(t, b, x, s) ==
  /\ client = "running" /\ {t, x, s} \subseteq live
  /\ bindP' = [bindP EXCEPT ![t][b] = <<x, s>>]
  /\ rebound' = [rebound EXCEPT ![t] = TRUE]
  /\ UNCHANGED <<session, sessions, client, live, app, committed, bindC, uniP, uniC, tex,
                 paramP, paramC, proxy, peer, wanted, unsynced, missed, dropped>>

(* uniform_vector and uniform_matrix.  size: the number of rows or of      *)
(* columns; elements: how many values of that size the array holds         *)
SetUniform(t, u, size, elements) ==
  /\ client = "running" /\ t \in live
  /\ Len(uniP[t]) + Len(uniC[t]) < MaxUniforms
  /\ IF size \in 1..4 /\ elements >= u.count
     THEN uniP' = [uniP EXCEPT ![t] = Append(@, u)] /\ UNCHANGED client
     ELSE client' = "failed" /\ UNCHANGED uniP
  /\ UNCHANGED <<session, sessions, live, app, committed, bindVars, uniC, tex, paramP,
                 paramC, proxy, peer, wanted, unsynced, missed, dropped>>

(* parameter_f and so on, set_paramater *)
SetParameter(s, p, v, size) ==
  /\ client = "running" /\ s \in live
  /\ IF p \in Pnames /\ size = ParameterSize[p]
     THEN paramP' = [paramP EXCEPT ![s][p] = v] /\ UNCHANGED client
     ELSE client' = "failed" /\ UNCHANGED paramP
  /\ UNCHANGED <<session, sessions, live, app, committed, bindVars, uniP, uniC, tex,
                 paramC, proxy, peer, wanted, unsynced, missed, dropped>>

(* image_2d, or (k = 0) the WeakResource losing its shm buffer             *)
Image2d(x, k) ==
  /\ client = "running" /\ x \in live
  /\ tex' = [tex EXCEPT ![x].pImage = k]
  /\ UNCHANGED <<session, sessions, client, live, app, committed, bindVars, uniP, uniC,
                 paramP, paramC, proxy, peer, wanted, unsynced, missed, dropped>>

GenerateMipmap(x) ==
  /\ client = "running" /\ x \in live
  /\ tex' = [tex EXCEPT ![x].pMip = TRUE]
  /\ UNCHANGED <<session, sessions, client, live, app, committed, bindVars, uniP, uniC,
                 paramP, paramC, proxy, peer, wanted, unsynced, missed, dropped>>

(* The texture or sampler is deleted with its proxy; bindings of it expire *)
Destroy(r) ==
  /\ client = "running" /\ r \in live
  /\ live' = live \ {r}
  /\ tex' = [x \in Textures |-> IF x = r THEN NewTexture ELSE tex[x]]
  /\ paramP' = [s \in Samplers |-> IF s = r THEN NoParams ELSE paramP[s]]
  /\ paramC' = [s \in Samplers |-> IF s = r THEN NoParams ELSE paramC[s]]
  /\ proxy' = [proxy EXCEPT ![r] = 0]
  /\ peer' =
       [bind |-> peer.bind, uniform |-> peer.uniform,
        image |-> [x \in Textures |-> IF x = r THEN Nil ELSE peer.image[x]],
        mip |-> [x \in Textures |-> x # r /\ peer.mip[x]],
        param |-> [s \in Samplers |-> IF s = r THEN NoParams ELSE peer.param[s]]]
  /\ unsynced' = unsynced \ {r}
  /\ missed' = missed \ ({r} \X {"image", "mipmap"})
  /\ UNCHANGED <<session, sessions, client, app, committed, bindVars, uniP, uniC,
                 wanted, dropped>>

(* The client goes, and all of its resources with it                       *)
ClientGone ==
  /\ client # "gone"
  /\ client' = "gone" /\ live' = {} /\ app' = {} /\ committed' = {}
  /\ bindP' = [t \in Techniques |-> Unbound]
  /\ bindC' = [t \in Techniques |-> Unbound]
  /\ rebound' = [t \in Techniques |-> FALSE]
  /\ uniP' = [t \in Techniques |-> <<>>] /\ uniC' = [t \in Techniques |-> <<>>]
  /\ tex' = [x \in Textures |-> NewTexture]
  /\ paramP' = [s \in Samplers |-> NoParams] /\ paramC' = [s \in Samplers |-> NoParams]
  /\ proxy' = [x \in Things |-> 0]
  /\ peer' = EmptyPeer
  /\ wanted' = [t \in Techniques |-> [l \in Locations |-> Nil]]
  /\ unsynced' = {} /\ missed' = {} /\ dropped' = {}
  /\ UNCHANGED <<session, sessions>>

----------------------------------------------------------------------------
(* The session                                                             *)

(* The forced sync of the committed objects when a session comes up        *)
EstablishSession ==
  /\ session = 0 /\ sessions < MaxSessions
  /\ sessions' = sessions + 1 /\ session' = sessions + 1
  /\ UNCHANGED <<client, live, app, committed, bindP, rebound, uniP, uniC, paramP, paramC,
                 wanted>>
  /\ bindC' = [t \in Techniques |-> IF t \in ShownOf(committed)
                                    THEN WithoutExpired(bindC[t]) ELSE bindC[t]]
  /\ Sync(committed, TRUE, tex, rebound)
  /\ unsynced' = committed \ app
  /\ missed' = (Textures \ TexturesOf(committed)) \X {"image", "mipmap"}
  /\ dropped' = {}

(* The session_disconnected handlers reset each proxy                      *)
DisconnectSession ==
  /\ session # 0
  /\ session' = 0
  /\ proxy' = [x \in Things |-> 0]
  /\ peer' = EmptyPeer
  /\ unsynced' = {} /\ missed' = {} /\ dropped' = {}
  /\ UNCHANGED <<sessions, client, live, app, committed, bindVars, uniP, uniC, tex,
                 paramP, paramC, wanted>>

----------------------------------------------------------------------------
Next ==
  \/ \E t \in Techniques : Commit(t) \/ GetBounded(t)
  \/ \E t \in Techniques, b \in Points, x \in Textures, s \in Samplers :
       BindTexture(t, b, x, s)
  \/ \E t \in Techniques, u \in Uniform : SetUniform(t, u, 4, u.count)
  \/ \E t \in Techniques, size \in {0, 4} : SetUniform(t, CHOOSE u \in Uniform : TRUE, size, 0)
  \/ \E s \in Samplers, p \in Pnames \cup {OtherPname}, v \in Values, size \in Sizes :
       SetParameter(s, p, v, size)
  \/ \E x \in Textures, k \in 0..MaxVersion : Image2d(x, k)
  \/ \E x \in Textures : GenerateMipmap(x)
  \/ \E r \in Textures \cup Samplers : Destroy(r)
  \/ ClientGone
  \/ EstablishSession
  \/ DisconnectSession

Spec == Init /\ [][Next]_vars

----------------------------------------------------------------------------
(* Of the uniforms of one name only the one last committed is kept, however *)
(* often a name occurs in what is committed at once                        *)
NamedOnce ==
  \A t \in Techniques : \A i, j \in DOMAIN uniC[t] :
    uniC[t][i].u.at = uniC[t][j].u.at /\ uniC[t][i].u.at \in Names => i = j

(* A peer that was sent uniforms, in one session or on reconnecting, has   *)
(* the value last committed wherever that was no array; names and locations *)
(* may stand for the same uniform.  Not so for an object that was committed *)
(* in this session before it had an app.                                   *)
UniformsMirrored ==
  \A t \in Techniques : proxy[t] # 0 /\ t \notin unsynced =>
    \A l \in Locations :
      LET w == wanted[t][l] IN
      /\ w = Nil => peer.uniform[t][l] = Nil
      /\ w # Nil /\ w.count = 1 => peer.uniform[t][l] = w.v

(* The peer draws with the textures and samplers that are bound, where     *)
(* they still exist, unless the binding was replaced by one to something   *)
(* that was destroyed before the commit                                    *)
BindingsMirrored ==
  \A t \in Techniques, b \in Points :
    proxy[t] # 0 /\ t \notin unsynced /\ <<t, b>> \notin dropped =>
      WithoutExpired(peer.bind[t])[b] = WithoutExpired(bindC[t])[b]

(* Of a texture that has an image the peer has that image, and a mipmap if *)
(* one was generated, whichever technique the texture was committed and    *)
(* sent for: unless it was bound to nothing when the session came up, or   *)
(* committed for an object that had no app                                 *)
TexturesMirrored ==
  \A x \in Textures : proxy[x] # 0 /\ x \notin unsynced =>
    /\ tex[x].image # 0 /\ <<x, "image">> \notin missed => peer.image[x] = tex[x].image
    /\ tex[x].mip /\ <<x, "mipmap">> \notin missed => peer.mip[x]

(* Of a sampler the peer has every parameter committed; one that was bound *)
(* to nothing when the session came up is sent whole once it is bound      *)
SamplersMirrored ==
  \A s \in Samplers : proxy[s] # 0 /\ s \notin unsynced =>
    \A p \in Pnames : peer.param[s][p] = paramC[s][p]
=============================================================================
