---------------------------- MODULE MaterialsProofs ----------------------------
(***************************************************************************)
(* Proofs about Materials, for any techniques, textures, samplers, binding *)
(* points and uniforms.  IInv adds what has to be so between a commit and  *)
(* the next sync for the peer to get what it lacks.                        *)
(***************************************************************************)
EXTENDS Materials, WellFoundedInduction, FiniteSetTheorems, SequenceTheorems, TLAPS

(* What is not committed draws nothing, and what has no proxy has not been *)
(* sent anything; a committed technique has one unless it lacks an app.    *)
SessionInv ==
  /\ session = 0 => \A x \in Things : proxy[x] = 0
  /\ committed \subseteq live /\ app \subseteq live
  /\ \A t \in Techniques \ committed :
       /\ bindC[t] = Unbound /\ uniC[t] = <<>>
       /\ \A l \in Locations : wanted[t][l] = Nil
  /\ \A t \in Techniques : proxy[t] = 0 =>
       /\ peer.bind[t] = Unbound
       /\ \A l \in Locations : peer.uniform[t][l] = Nil
  /\ session # 0 => \A t \in committed \ unsynced : proxy[t] # 0

(* The pending bindings keep what was committed, or are newer.             *)
PendingInv ==
  \A t \in Techniques, b \in Points :
    /\ Alive(bindC[t][b]) => bindP[t][b] # Nil
    /\ ~rebound[t] /\ (Alive(bindC[t][b]) \/ Alive(bindP[t][b])) => bindP[t][b] = bindC[t][b]

(* A texture that was sent, and is not held back, has nothing left to be   *)
(* sent; one whose flag is clear was sent, in this session or not at all.  *)
TextureInv ==
  \A x \in Textures :
    /\ proxy[x] # 0 /\ x \notin unsynced => ~tex[x].dataChanged /\ ~tex[x].mipChanged
    /\ session # 0 /\ ~tex[x].dataChanged /\ tex[x].image # 0 /\ <<x, "image">> \notin missed =>
         peer.image[x] = tex[x].image
    /\ session # 0 /\ ~tex[x].mipChanged /\ tex[x].mip /\ <<x, "mipmap">> \notin missed =>
         peer.mip[x]

(* Parameters that were never set were never sent.                         *)
SamplerInv ==
  /\ \A s \in Samplers, p \in Pnames : paramC[s][p] = Nil => peer.param[s][p] = Nil
  /\ SamplersMirrored

(* The last uniform of a list that is for the location l                   *)
IsLast(list, l, i) ==
  /\ i \in DOMAIN list /\ Slot(list[i]) = l
  /\ \A j \in DOMAIN list : Slot(list[j]) = l => j <= i
IsLastCommitted(list, l, i) ==
  /\ i \in DOMAIN list /\ Slot(list[i].u) = l
  /\ \A j \in DOMAIN list : Slot(list[j].u) = l => j <= i

(* The list of committed uniforms has the one last committed for each      *)
(* location behind all others for it, and it is what the peer has.         *)
UniformInv ==
  /\ NamedOnce
  /\ \A t \in Techniques, l \in Locations :
       /\ wanted[t][l] = Nil => \A i \in DOMAIN uniC[t] : Slot(uniC[t][i].u) # l
       /\ wanted[t][l] # Nil =>
            \E i \in DOMAIN uniC[t] : IsLastCommitted(uniC[t], l, i) /\ uniC[t][i].u = wanted[t][l]
       /\ proxy[t] # 0 /\ t \notin unsynced =>
            peer.uniform[t][l] =
              IF wanted[t][l] = Nil THEN Nil ELSE SentValue(wanted[t][l])

IInv ==
  /\ TypeOK /\ SessionInv /\ PendingInv /\ BindingsMirrored /\ TextureInv
  /\ SamplerInv /\ UniformInv

----------------------------------------------------------------------------
(* Lists of uniforms                                                       *)

(* LastOf is what it is called, of the positions of a list.                *)
LEMMA LastOfExists ==
  ASSUME NEW n \in Nat, NEW I, I \subseteq 1..n, I # {}
  PROVE  LastOf(I) \in I /\ \A j \in I : j <= LastOf(I)
<1> DEFINE S == {n - i : i \in I}
           R == {ss \in Nat \X Nat : ss[1] < ss[2]}
<1>0. IsWellFoundedOn(R, Nat)
  BY NatLessThanWellFounded DEF OpToRel
<1>1. S \subseteq Nat /\ S # {}
  <2>1. \A i \in I : n - i \in Nat
    OBVIOUS
  <2> QED BY <2>1
<1>2. PICK d \in S : \A e \in S : d <= e
  <2> HIDE DEF S
  <2>1. PICK d \in S : \A e \in S : ~ (<<e, d>> \in R)
    <3> HIDE DEF R
    <3> QED BY <1>0, <1>1, WFMin
  <2>2. ASSUME NEW e \in S PROVE d <= e
    <3>1. e \in Nat /\ d \in Nat
      BY <1>1, <2>1
    <3>2. ~ (<<e, d>> \in R)
      BY <2>1
    <3> QED BY <3>1, <3>2
  <2> QED BY <2>2
<1>3. PICK i \in I : d = n - i
  BY <1>2
<1>4. \A j \in I : j <= i
  <2> SUFFICES ASSUME NEW j \in I PROVE j <= i
    OBVIOUS
  <2>1. d <= n - j
    BY <1>2
  <2> QED BY <1>3, <2>1
<1> QED BY <1>3, <1>4 DEF LastOf

LEMMA LastOfIs ==
  ASSUME NEW I, I \subseteq Nat, NEW i \in I, \A j \in I : j <= i
  PROVE  LastOf(I) = i
<1>1. LastOf(I) \in I /\ \A j \in I : j <= LastOf(I)
  BY DEF LastOf
<1>2. LastOf(I) <= i /\ i <= LastOf(I) /\ i \in Nat /\ LastOf(I) \in Nat
  BY <1>1
<1> QED BY <1>2

LEMMA SlotTyped == \A u \in Uniform : Slot(u) \in Locations
BY MaterialsAssumption DEF Uniform, Slot

LEMMA ListMade ==
  ASSUME NEW S, NEW n \in Nat, NEW s, s = [i \in 1..n |-> s[i]], \A i \in 1..n : s[i] \in S
  PROVE  s \in Seq(S) /\ Len(s) = n /\ DOMAIN s = 1..n
<1>1. s \in [1..n -> S]
  OBVIOUS
<1> QED BY <1>1

(* What a merge makes of a list and of what is pending: the kept elements  *)
(* of both, each once, in their order.                                     *)
LEMMA OldList ==
  ASSUME NEW list \in Seq(Entry)
  PROVE  /\ Old(list) \in Seq(Entry) /\ Len(Old(list)) = Len(list)
         /\ \A i \in 1..Len(list) : Old(list)[i].u = list[i].u /\ Old(list)[i].new = FALSE
<1>1. \A i \in 1..Len(list) : [u |-> list[i].u, new |-> FALSE] \in Entry
  <2>1. \A i \in 1..Len(list) : list[i] \in Entry
    OBVIOUS
  <2> QED BY <2>1 DEF Entry
<1>2. Old(list) = [i \in 1..Len(list) |-> [u |-> list[i].u, new |-> FALSE]] /\ Len(list) \in Nat
  BY DEF Old
<1>3. Old(list) \in Seq(Entry) /\ Len(Old(list)) = Len(list)
  BY <1>1, <1>2, ListMade
<1> QED BY <1>2, <1>3

LEMMA NewList ==
  ASSUME NEW pending \in Seq(Uniform)
  PROVE  /\ New(pending) \in Seq(Entry) /\ Len(New(pending)) = Len(pending)
         /\ \A i \in 1..Len(pending) :
              New(pending)[i].u = pending[i] /\ New(pending)[i].new = TRUE
<1>1. \A i \in 1..Len(pending) : [u |-> pending[i], new |-> TRUE] \in Entry
  BY DEF Entry
<1>2. /\ New(pending) = [i \in 1..Len(pending) |-> [u |-> pending[i], new |-> TRUE]]
      /\ Len(pending) \in Nat
  BY DEF New
<1>3. New(pending) \in Seq(Entry) /\ Len(New(pending)) = Len(pending)
  BY <1>1, <1>2, ListMade
<1> QED BY <1>2, <1>3

LEMMA JoinedTyped ==
  ASSUME NEW list \in Seq(Entry), NEW pending \in Seq(Uniform)
  PROVE  /\ Joined(list, pending) \in Seq(Entry)
         /\ Len(Joined(list, pending)) = Len(list) + Len(pending)
<1>1. Old(list) \in Seq(Entry) /\ New(pending) \in Seq(Entry)
  BY OldList, NewList
<1>2. Len(Old(list)) = Len(list) /\ Len(New(pending)) = Len(pending)
  BY OldList, NewList
<1>3. /\ Old(list) \o New(pending) \in Seq(Entry)
      /\ Len(Old(list) \o New(pending)) = Len(Old(list)) + Len(New(pending))
  BY <1>1
<1> QED BY <1>2, <1>3 DEF Joined

LEMMA JoinedElements ==
  ASSUME NEW list \in Seq(Entry), NEW pending \in Seq(Uniform)
  PROVE  /\ \A i \in 1..Len(list) :
              Joined(list, pending)[i].u = list[i].u /\ Joined(list, pending)[i].new = FALSE
         /\ \A i \in 1..Len(pending) :
              /\ Joined(list, pending)[Len(list) + i].u = pending[i]
              /\ Joined(list, pending)[Len(list) + i].new = TRUE
<1> DEFINE old == Old(list)
           new == New(pending)
<1> HIDE DEF old, new
<1>1. /\ old \in Seq(Entry) /\ new \in Seq(Entry)
      /\ Len(old) = Len(list) /\ Len(new) = Len(pending)
  BY OldList, NewList DEF old, new
<1>2. /\ \A i \in 1..Len(list) : (old \o new)[i] = old[i]
      /\ \A i \in 1..Len(pending) : (old \o new)[Len(list) + i] = new[i]
  BY <1>1
<1>3. \A i \in 1..Len(list) : old[i].u = list[i].u /\ old[i].new = FALSE
  BY OldList DEF old
<1>4. \A i \in 1..Len(pending) : new[i].u = pending[i] /\ new[i].new = TRUE
  BY NewList DEF new
<1>5. Joined(list, pending) = old \o new
  BY DEF Joined, old, new
<1>6. \A i \in 1..Len(list) : (old \o new)[i].u = list[i].u /\ (old \o new)[i].new = FALSE
  BY <1>2, <1>3
<1>7. \A i \in 1..Len(pending) :
        /\ (old \o new)[Len(list) + i].u = pending[i]
        /\ (old \o new)[Len(list) + i].new = TRUE
  BY <1>2, <1>4
<1> QED BY <1>5, <1>6, <1>7, Zenon

(* f says where in all the elements of m are from                          *)
IsOrderOf(f, m, all) ==
  /\ \A i \in DOMAIN m : m[i] = all[f[i]]
  /\ \A i, j \in DOMAIN m : i < j => f[i] < f[j]
  /\ \A k \in Kept(all) : \E i \in DOMAIN m : f[i] = k

LEMMA MergedElements ==
  ASSUME NEW list \in Seq(Entry), NEW pending \in Seq(Uniform),
         NEW m \in Merged(list, pending)
  PROVE  /\ m \in Seq(Entry) /\ Len(m) <= Len(list) + Len(pending)
         /\ \E f \in [DOMAIN m -> Kept(Joined(list, pending))] : IsOrderOf(f, m, Joined(list, pending))
<1> DEFINE all == Joined(list, pending)
           K == Kept(all)
<1>1. all \in Seq(Entry) /\ Len(all) = Len(list) + Len(pending)
  BY JoinedTyped
<1>2. PICK f \in InOrder(K) : m = [i \in DOMAIN f |-> all[f[i]]]
  BY DEF Merged
<1>3. K \subseteq 1..Len(all)
  BY <1>1 DEF Kept
<1>4. IsFiniteSet(K) /\ Cardinality(K) \in Nat /\ Cardinality(K) <= Len(all)
  <2>1. IsFiniteSet(1..Len(all)) /\ Cardinality(1..Len(all)) = Len(all)
    BY <1>1, FS_Interval
  <2> QED BY <1>3, <2>1, FS_Subset, FS_CardinalityType
<1>5. /\ f \in [1..Cardinality(K) -> K] /\ DOMAIN f = 1..Cardinality(K)
      /\ \A i, j \in DOMAIN f : i < j => f[i] < f[j]
      /\ \A k \in K : \E i \in DOMAIN f : f[i] = k
  BY <1>2 DEF InOrder
<1> HIDE DEF K, all
<1>6. m \in Seq(Entry) /\ Len(m) = Cardinality(K) /\ DOMAIN m = 1..Cardinality(K)
  <2>1. m = [i \in 1..Cardinality(K) |-> all[f[i]]]
    BY <1>2, <1>5
  <2>2. \A i \in 1..Cardinality(K) : m[i] \in Entry
    <3>1. \A k \in K : all[k] \in Entry
      BY <1>1, <1>3
    <3> QED BY <1>5, <2>1, <3>1
  <2> QED BY <1>4, <2>1, <2>2, ListMade
<1>7. \A i \in DOMAIN m : m[i] = all[f[i]]
  BY <1>2, <1>5, <1>6
<1>8. Len(m) <= Len(list) + Len(pending)
  BY <1>1, <1>4, <1>6
<1>9. f \in [DOMAIN m -> K] /\ IsOrderOf(f, m, all)
  BY <1>5, <1>6, <1>7 DEF IsOrderOf, K
<1> QED BY <1>6, <1>8, <1>9 DEF K, all

LEMMA JoinedOld ==
  ASSUME NEW list \in Seq(Entry), NEW pending \in Seq(Uniform), NEW i \in 1..Len(list)
  PROVE  Joined(list, pending)[i].u = list[i].u /\ Joined(list, pending)[i].new = FALSE
<1>1. \A j \in 1..Len(list) :
        Joined(list, pending)[j].u = list[j].u /\ Joined(list, pending)[j].new = FALSE
  BY JoinedElements
<1> QED BY <1>1

LEMMA JoinedNew ==
  ASSUME NEW list \in Seq(Entry), NEW pending \in Seq(Uniform), NEW i \in 1..Len(pending)
  PROVE  /\ Joined(list, pending)[Len(list) + i].u = pending[i]
         /\ Joined(list, pending)[Len(list) + i].new = TRUE
<1>1. \A j \in 1..Len(pending) :
        /\ Joined(list, pending)[Len(list) + j].u = pending[j]
        /\ Joined(list, pending)[Len(list) + j].new = TRUE
  BY JoinedElements
<1> QED BY <1>1

LEMMA JoinedAt ==
  ASSUME NEW list \in Seq(Entry), NEW pending \in Seq(Uniform),
         NEW k \in DOMAIN Joined(list, pending)
  PROVE  \/ /\ k \in 1..Len(list) /\ Joined(list, pending)[k].u = list[k].u
            /\ Joined(list, pending)[k].new = FALSE
         \/ \E p \in 1..Len(pending) :
              /\ k = Len(list) + p /\ Joined(list, pending)[k].u = pending[p]
              /\ Joined(list, pending)[k].new = TRUE
<1>1. Joined(list, pending) \in Seq(Entry)
  BY JoinedTyped
<1>2. Len(Joined(list, pending)) = Len(list) + Len(pending)
  BY JoinedTyped
<1>3. k \in 1..(Len(list) + Len(pending))
  BY <1>1, <1>2
<1>4. Len(list) \in Nat /\ Len(pending) \in Nat
  OBVIOUS
<1>5. CASE k \in 1..Len(list)
  BY <1>5, JoinedOld
<1>6. CASE k \notin 1..Len(list)
  <2> DEFINE p == k - Len(list)
  <2>1. p \in 1..Len(pending) /\ k = Len(list) + p
    BY <1>3, <1>4, <1>6
  <2> HIDE DEF p
  <2>2. /\ Joined(list, pending)[Len(list) + p].u = pending[p]
        /\ Joined(list, pending)[Len(list) + p].new = TRUE
    BY <2>1, JoinedNew, Zenon
  <2> QED BY <2>1, <2>2
<1> QED BY <1>5, <1>6

LEMMA MergedOnce ==
  ASSUME NEW list \in Seq(Entry), NEW pending \in Seq(Uniform), NEW m \in Merged(list, pending),
         \A i, j \in DOMAIN list : list[i].u.at = list[j].u.at /\ list[i].u.at \in Names => i = j
  PROVE  \A i, j \in DOMAIN m : m[i].u.at = m[j].u.at /\ m[i].u.at \in Names => i = j
<1> DEFINE all == Joined(list, pending)
<1>0. PICK f \in [DOMAIN m -> Kept(all)] : IsOrderOf(f, m, all)
  BY MergedElements
<1>1. /\ f \in [DOMAIN m -> Kept(all)]
      /\ \A i \in DOMAIN m : m[i] = all[f[i]]
      /\ \A i, j \in DOMAIN m : i < j => f[i] < f[j]
  BY <1>0 DEF IsOrderOf
<1>2. m \in Seq(Entry) /\ DOMAIN m \subseteq Nat
  BY MergedElements
<1>3. ASSUME NEW i \in DOMAIN m, NEW j \in DOMAIN m, i < j,
             m[i].u.at = m[j].u.at, m[i].u.at \in Names
      PROVE  FALSE
  <2>1. /\ f[i] \in Kept(all) /\ f[j] \in Kept(all) /\ f[i] < f[j]
        /\ all[f[i]].u.at = all[f[j]].u.at /\ all[f[i]].u.at \in Names
    BY <1>1, <1>3
  <2>2. f[i] \in DOMAIN all /\ f[j] \in DOMAIN all
    BY <2>1 DEF Kept
  <2>3. all[f[j]].new # TRUE
    BY <2>1, <2>2 DEF Kept, Replaces
  <2>4. f[j] \in 1..Len(list) /\ all[f[j]].u = list[f[j]].u
    BY <2>2, <2>3, JoinedAt
  <2>5. all \in Seq(Entry) /\ Len(list) \in Nat
    BY JoinedTyped
  <2>6. f[i] \in 1..Len(list)
    BY <2>1, <2>2, <2>4, <2>5
  <2>7. all[f[i]].u = list[f[i]].u
    BY <2>6, JoinedOld
  <2>8. f[i] \in DOMAIN list /\ f[j] \in DOMAIN list /\ f[i] # f[j]
    BY <2>1, <2>4, <2>5, <2>6
  <2> QED BY <2>1, <2>4, <2>7, <2>8
<1> QED BY <1>2, <1>3

(* A uniform that is the last for its location stays when lists are joined *)
(* and is the last for it in what the merge makes: what replaces another   *)
(* has its name, and therefore its location.                               *)
LEMMA LastIsKept ==
  ASSUME NEW list \in Seq(Entry), NEW pending \in Seq(Uniform), NEW m \in Merged(list, pending),
         NEW l, NEW k \in DOMAIN Joined(list, pending),
         IsLastCommitted(Joined(list, pending), l, k)
  PROVE  \E i \in DOMAIN m : IsLastCommitted(m, l, i) /\ m[i] = Joined(list, pending)[k]
<1> DEFINE all == Joined(list, pending)
<1>0. PICK f \in [DOMAIN m -> Kept(all)] : IsOrderOf(f, m, all)
  BY MergedElements
<1>1. /\ f \in [DOMAIN m -> Kept(all)]
      /\ \A i \in DOMAIN m : m[i] = all[f[i]]
      /\ \A i, j \in DOMAIN m : i < j => f[i] < f[j]
      /\ \A q \in Kept(all) : \E i \in DOMAIN m : f[i] = q
  BY <1>0 DEF IsOrderOf
<1>2. m \in Seq(Entry) /\ DOMAIN m \subseteq Nat
  BY MergedElements
<1>3. all \in Seq(Entry) /\ DOMAIN all \subseteq Nat
  BY JoinedTyped
<1> HIDE DEF all
<1>4. /\ k \in DOMAIN all /\ Slot(all[k].u) = l
      /\ \A j \in DOMAIN all : Slot(all[j].u) = l => j <= k
  BY DEF IsLastCommitted, all
<1>5. k \in Kept(all)
  <2> SUFFICES ASSUME NEW j \in DOMAIN all, k < j, Replaces(all[j].u, all[k].u) PROVE FALSE
    BY <1>4 DEF Kept
  <2>1. Slot(all[j].u) = l
    BY <1>4 DEF Replaces, Slot
  <2>2. j <= k /\ j \in Nat /\ k \in Nat
    BY <1>3, <1>4, <2>1
  <2> QED BY <2>2
<1>6. PICK i \in DOMAIN m : f[i] = k
  BY <1>1, <1>5
<1>7. ASSUME NEW j \in DOMAIN m, Slot(m[j].u) = l PROVE j <= i
  <2>1. f[j] \in DOMAIN all /\ Slot(all[f[j]].u) = l
    BY <1>1, <1>7 DEF Kept
  <2>2. f[j] <= k /\ f[j] \in Nat /\ k \in Nat
    BY <1>3, <1>4, <2>1
  <2>3. ~(i < j)
    BY <1>1, <1>6, <2>2
  <2> QED BY <1>2, <2>3
<1>8. m[i] = all[k] /\ IsLastCommitted(m, l, i)
  BY <1>1, <1>4, <1>6, <1>7 DEF IsLastCommitted
<1> QED BY <1>8 DEF all

LEMMA MergedFromBoth ==
  ASSUME NEW list \in Seq(Entry), NEW pending \in Seq(Uniform), NEW m \in Merged(list, pending),
         NEW i \in DOMAIN m
  PROVE  \/ \E k \in DOMAIN list : m[i].u = list[k].u /\ m[i].new = FALSE
         \/ \E p \in DOMAIN pending : m[i].u = pending[p] /\ m[i].new = TRUE
<1> DEFINE all == Joined(list, pending)
<1>1. PICK f \in [DOMAIN m -> Kept(all)] : IsOrderOf(f, m, all)
  BY MergedElements
<1>2. f[i] \in DOMAIN all /\ m[i] = all[f[i]]
  BY <1>1 DEF IsOrderOf, Kept
<1>3. DOMAIN list = 1..Len(list) /\ DOMAIN pending = 1..Len(pending)
  OBVIOUS
<1> DEFINE k == f[i]
<1>4. k \in DOMAIN Joined(list, pending) /\ m[i] = Joined(list, pending)[k]
  BY <1>2
<1> HIDE DEF k
<1>5. \/ k \in 1..Len(list) /\ m[i].u = list[k].u /\ m[i].new = FALSE
      \/ \E p \in 1..Len(pending) : m[i].u = pending[p] /\ m[i].new = TRUE
  <2> HIDE DEF all
  <2>1. \/ /\ k \in 1..Len(list) /\ Joined(list, pending)[k].u = list[k].u
           /\ Joined(list, pending)[k].new = FALSE
        \/ \E p \in 1..Len(pending) :
             /\ k = Len(list) + p /\ Joined(list, pending)[k].u = pending[p]
             /\ Joined(list, pending)[k].new = TRUE
    BY <1>4, JoinedAt, Zenon
  <2> QED BY <1>4, <2>1, Zenon
<1> QED BY <1>3, <1>5

(* With nothing pending for a location, what there was for it is left.     *)
NothingFor(pending, l) == \A p \in DOMAIN pending : Slot(pending[p]) # l
IsAsBefore(m, list, l) ==
  /\ \A i \in DOMAIN m : Slot(m[i].u) = l =>
       m[i].new = FALSE /\ \E k \in DOMAIN list : m[i].u = list[k].u
  /\ \A k \in DOMAIN list : IsLastCommitted(list, l, k) =>
       \E i \in DOMAIN m : IsLastCommitted(m, l, i) /\ m[i].u = list[k].u

LEMMA MergedAsBefore ==
  ASSUME NEW list \in Seq(Entry), NEW pending \in Seq(Uniform), NEW m \in Merged(list, pending),
         NEW l, NothingFor(pending, l)
  PROVE  IsAsBefore(m, list, l)
<1>0. \A p \in DOMAIN pending : Slot(pending[p]) # l
  BY DEF NothingFor
<1>1. \A i \in DOMAIN m : Slot(m[i].u) = l =>
        m[i].new = FALSE /\ \E k \in DOMAIN list : m[i].u = list[k].u
  <2> SUFFICES ASSUME NEW i \in DOMAIN m, Slot(m[i].u) = l
               PROVE  m[i].new = FALSE /\ \E k \in DOMAIN list : m[i].u = list[k].u
    OBVIOUS
  <2>1. \/ \E k \in DOMAIN list : m[i].u = list[k].u /\ m[i].new = FALSE
        \/ \E p \in DOMAIN pending : m[i].u = pending[p] /\ m[i].new = TRUE
    BY MergedFromBoth
  <2> QED BY <1>0, <2>1
<1>2. ASSUME NEW k \in DOMAIN list, IsLastCommitted(list, l, k)
      PROVE  \E i \in DOMAIN m : IsLastCommitted(m, l, i) /\ m[i].u = list[k].u
  <2> DEFINE all == Joined(list, pending)
  <2>1. all \in Seq(Entry)
    BY JoinedTyped
  <2>2. Len(all) = Len(list) + Len(pending)
    BY JoinedTyped
  <2>3. k \in 1..Len(list) /\ Len(list) \in Nat /\ Len(pending) \in Nat
    OBVIOUS
  <2>4. k \in DOMAIN all
    BY <2>1, <2>2, <2>3
  <2>5. all[k].u = list[k].u
    BY <2>3, JoinedOld
  <2>6. ASSUME NEW j \in DOMAIN all, Slot(all[j].u) = l PROVE j <= k
    <3>1. j \in 1..Len(list) /\ all[j].u = list[j].u
      <4>1. \/ j \in 1..Len(list) /\ all[j].u = list[j].u
            \/ \E p \in 1..Len(pending) : all[j].u = pending[p]
        BY JoinedAt
      <4> QED BY <1>0, <2>6, <4>1
    <3> QED BY <1>2, <2>6, <3>1 DEF IsLastCommitted
  <2>7. IsLastCommitted(all, l, k)
    BY <1>2, <2>4, <2>5, <2>6 DEF IsLastCommitted
  <2> QED BY <2>4, <2>5, <2>7, LastIsKept
<1> QED BY <1>1, <1>2 DEF IsAsBefore

(* Otherwise the last that was pending is the last for it, and new.        *)
EndsWithNew(m, l, u) ==
  \E i \in DOMAIN m : IsLastCommitted(m, l, i) /\ m[i].u = u /\ m[i].new = TRUE

LEMMA MergedPending ==
  ASSUME NEW list \in Seq(Entry), NEW pending \in Seq(Uniform), NEW m \in Merged(list, pending),
         NEW l, NEW p \in DOMAIN pending, IsLast(pending, l, p)
  PROVE  EndsWithNew(m, l, pending[p])
<1> DEFINE all == Joined(list, pending)
           k == Len(list) + p
<1>1. all \in Seq(Entry)
  BY JoinedTyped
<1>2. Len(all) = Len(list) + Len(pending)
  BY JoinedTyped
<1>3. p \in 1..Len(pending) /\ Len(list) \in Nat /\ Len(pending) \in Nat
  OBVIOUS
<1>4. k \in DOMAIN all
  BY <1>1, <1>2, <1>3
<1>5. all[k].u = pending[p] /\ all[k].new = TRUE
  BY <1>3, JoinedNew
<1>6. ASSUME NEW j \in DOMAIN all, Slot(all[j].u) = l PROVE j <= k
  <2>1. CASE j \in 1..Len(list)
    BY <1>3, <2>1
  <2>2. ASSUME NEW q \in 1..Len(pending), j = Len(list) + q, all[j].u = pending[q] PROVE j <= k
    <3>1. q <= p
      BY <1>6, <2>2 DEF IsLast
    <3> QED BY <1>3, <2>2, <3>1
  <2> QED BY <2>1, <2>2, JoinedAt
<1> HIDE DEF k
<1>7. IsLastCommitted(all, l, k)
  BY <1>4, <1>5, <1>6 DEF IsLastCommitted, IsLast
<1>8. PICK i \in DOMAIN m : IsLastCommitted(m, l, i) /\ m[i] = all[k]
  BY <1>4, <1>7, LastIsKept
<1> QED BY <1>5, <1>8 DEF EndsWithNew

----------------------------------------------------------------------------
(* Initial states and types                                                *)

LEMMA InitIInv == Init => IInv
<1> SUFFICES ASSUME Init PROVE IInv
  OBVIOUS
<1>1. /\ session = 0 /\ sessions = 0 /\ client = "running"
      /\ live = Things /\ app = {} /\ committed = {}
      /\ bindP = [t \in Techniques |-> Unbound] /\ bindC = [t \in Techniques |-> Unbound]
      /\ rebound = [t \in Techniques |-> FALSE]
      /\ uniP = [t \in Techniques |-> <<>>] /\ uniC = [t \in Techniques |-> <<>>]
      /\ tex = [x \in Textures |-> NewTexture]
      /\ paramP = [s \in Samplers |-> NoParams] /\ paramC = [s \in Samplers |-> NoParams]
      /\ proxy = [x \in Things |-> 0]
      /\ peer = EmptyPeer
      /\ wanted = [t \in Techniques |-> [l \in Locations |-> Nil]]
      /\ unsynced = {} /\ missed = {} /\ dropped = {}
  BY DEF Init
<1>2. TypeOK
  <2>1. EmptyPeer \in Peer /\ NewTexture \in Texture /\ Unbound \in Bindings /\ NoParams \in Params
    BY MaterialsAssumption DEF EmptyPeer, Peer, NewTexture, Texture, Unbound, Bindings,
       NoParams, Params
  <2>2. <<>> \in Seq(Uniform) /\ <<>> \in Seq(Entry) /\ Len(<<>>) = 0
    OBVIOUS
  <2>3. \A t \in Techniques : Len(uniP[t]) + Len(uniC[t]) <= MaxUniforms
    BY <1>1, <2>2, MaterialsAssumption
  <2>4. /\ uniP \in [Techniques -> Seq(Uniform)] /\ uniC \in [Techniques -> Seq(Entry)]
    BY <1>1, <2>2
  <2>5. wanted \in [Techniques -> [Locations -> Uniform \cup {Nil}]]
    BY <1>1
  <2>6. proxy \in [Things -> 0..MaxSessions] /\ 0 \in 0..MaxSessions
    BY <1>1, MaterialsAssumption
  <2> QED BY <1>1, <2>1, <2>3, <2>4, <2>5, <2>6 DEF TypeOK
<1>3. SessionInv
  BY <1>1 DEF SessionInv, EmptyPeer, Things
<1>4. PendingInv /\ BindingsMirrored
  BY <1>1 DEF PendingInv, BindingsMirrored, Unbound, Alive, Things
<1>5. TextureInv
  BY <1>1 DEF TextureInv, Things, NewTexture
<1>6. SamplerInv
  BY <1>1 DEF SamplerInv, SamplersMirrored, Things, EmptyPeer
<1>7. UniformInv
  BY <1>1 DEF UniformInv, NamedOnce, Things
<1> QED BY <1>2, <1>3, <1>4, <1>5, <1>6, <1>7 DEF IInv

LEMMA WithoutExpiredTyped ==
  ASSUME NEW list \in Bindings PROVE WithoutExpired(list) \in Bindings
BY DEF WithoutExpired, Bindings

LEMMA ClearedTyped ==
  ASSUME NEW c \in Texture, NEW i \in BOOLEAN, NEW m \in BOOLEAN
  PROVE  /\ Cleared(c, i, m) \in Texture
         /\ Cleared(c, i, m).pImage = c.pImage /\ Cleared(c, i, m).image = c.image
         /\ Cleared(c, i, m).pMip = c.pMip /\ Cleared(c, i, m).mip = c.mip
         /\ Cleared(c, i, m).dataChanged <=> c.dataChanged /\ ~i
         /\ Cleared(c, i, m).mipChanged <=> c.mipChanged /\ ~m
BY DEF Cleared, Texture

----------------------------------------------------------------------------
(* What a sync does, thing by thing                                        *)

SyncByParts(O, force, texC, chg) ==
  /\ proxy' = [x \in Things |->
       IF x \in SyncedBy(O) /\ proxy[x] = 0 THEN session' ELSE proxy[x]]
  /\ tex' = [x \in Textures |-> Cleared(texC[x], x \in ImagesSent(O, force, texC),
                                                 x \in MipmapsSent(O, force, texC))]
  /\ peer'.bind = [t \in Techniques |->
       IF t \in ShownOf(O) THEN SendBindings(t, force, chg) ELSE peer.bind[t]]
  /\ peer'.uniform = [t \in Techniques |->
       IF t \in ShownOf(O) THEN SendUniforms(t, force) ELSE peer.uniform[t]]
  /\ peer'.image = [x \in Textures |->
       IF x \in ImagesSent(O, force, texC) THEN texC[x].image ELSE peer.image[x]]
  /\ peer'.mip = [x \in Textures |->
       peer.mip[x] \/ (x \in MipmapsSent(O, force, texC) /\ texC[x].mip)]
  /\ peer'.param = [s \in Samplers |->
       IF s \in SamplersOf(O) THEN SendParams(s) ELSE peer.param[s]]
  /\ peer' = [bind |-> peer'.bind, uniform |-> peer'.uniform, image |-> peer'.image,
              mip |-> peer'.mip, param |-> peer'.param]

LEMMA SyncFields ==
  ASSUME NEW O, NEW force, NEW texC, NEW chg, Sync(O, force, texC, chg)
  PROVE  SyncByParts(O, force, texC, chg)
<1> DEFINE pb == [t \in Techniques |->
                    IF t \in ShownOf(O) THEN SendBindings(t, force, chg) ELSE peer.bind[t]]
           pu == [t \in Techniques |->
                    IF t \in ShownOf(O) THEN SendUniforms(t, force) ELSE peer.uniform[t]]
           pi == [x \in Textures |->
                    IF x \in ImagesSent(O, force, texC) THEN texC[x].image ELSE peer.image[x]]
           pm == [x \in Textures |->
                    peer.mip[x] \/ (x \in MipmapsSent(O, force, texC) /\ texC[x].mip)]
           pp == [s \in Samplers |->
                    IF s \in SamplersOf(O) THEN SendParams(s) ELSE peer.param[s]]
<1>1. peer' = [bind |-> pb, uniform |-> pu, image |-> pi, mip |-> pm, param |-> pp]
  BY DEF Sync
<1>2. /\ peer'.bind = pb /\ peer'.uniform = pu /\ peer'.image = pi /\ peer'.mip = pm
      /\ peer'.param = pp
  <2> HIDE DEF pb, pu, pi, pm, pp
  <2> QED BY <1>1
<1>3. /\ proxy' = [x \in Things |->
              IF x \in SyncedBy(O) /\ proxy[x] = 0 THEN session' ELSE proxy[x]]
      /\ tex' = [x \in Textures |-> Cleared(texC[x], x \in ImagesSent(O, force, texC),
                                                        x \in MipmapsSent(O, force, texC))]
  BY DEF Sync
<1>4. peer' = [bind |-> peer'.bind, uniform |-> peer'.uniform, image |-> peer'.image,
               mip |-> peer'.mip, param |-> peer'.param]
  <2> HIDE DEF pb, pu, pi, pm, pp
  <2> QED BY <1>1, <1>2
<1> QED BY <1>2, <1>3, <1>4, Zenon DEF SyncByParts

(* What is sent for the uniforms at a location is the last in the list of  *)
(* those that are sent for it.                                             *)
LEMMA SendUniformsTyped ==
  ASSUME TypeOK, NEW t \in Techniques, NEW force, uniC'[t] \in Seq(Entry)
  PROVE  SendUniforms(t, force) \in [Locations -> Values \cup {Junk, Nil}]
<1> DEFINE list == uniC'[t]
           I == {i \in DOMAIN list : force \/ list[i].new}
<1>1. \A u \in Uniform : SentValue(u) \in Values \cup {Junk, Nil}
  BY DEF SentValue, Uniform
<1>2. ASSUME NEW l \in Locations PROVE SendUniforms(t, force)[l] \in Values \cup {Junk, Nil}
  <2> DEFINE there == {i \in I : Slot(list[i].u) = l}
  <2>1. SendUniforms(t, force)[l] =
          IF there = {} THEN peer.uniform[t][l] ELSE SentValue(list[LastOf(there)].u)
    BY DEF SendUniforms, SendEach
  <2>2. CASE there = {}
    BY <2>1, <2>2 DEF TypeOK, Peer
  <2>3. CASE there # {}
    <3>1. Len(list) \in Nat /\ there \subseteq 1..Len(list)
      OBVIOUS
    <3>2. LastOf(there) \in DOMAIN list
      <4> HIDE DEF there, list
      <4>1. LastOf(there) \in there
        BY <2>3, <3>1, LastOfExists
      <4> QED BY <4>1 DEF there
    <3>3. list[LastOf(there)] \in Entry
      <4> HIDE DEF there
      <4> QED BY <3>2
    <3>4. list[LastOf(there)].u \in Uniform
      BY <3>3 DEF Entry
    <3> QED BY <1>1, <2>1, <2>3, <3>4
  <2> QED BY <2>2, <2>3
<1>3. SendUniforms(t, force) = [l \in Locations |-> SendUniforms(t, force)[l]]
  BY DEF SendUniforms, SendEach
<1> QED BY <1>2, <1>3

LEMMA SyncTyped ==
  ASSUME TypeOK, NEW O, NEW force \in BOOLEAN, NEW texC \in [Textures -> Texture],
         NEW chg, SyncByParts(O, force, texC, chg),
         session' \in 0..MaxSessions, bindC' \in [Techniques -> Bindings],
         uniC' \in [Techniques -> Seq(Entry)], paramC' \in [Samplers -> Params]
  PROVE  proxy' \in [Things -> 0..MaxSessions] /\ tex' \in [Textures -> Texture] /\ peer' \in Peer
<1>1. proxy' \in [Things -> 0..MaxSessions]
  BY DEF TypeOK, SyncByParts
<1>2. tex' \in [Textures -> Texture]
  <2>1. ASSUME NEW x \in Textures
        PROVE  Cleared(texC[x], x \in ImagesSent(O, force, texC), x \in MipmapsSent(O, force, texC))
                 \in Texture
    <3> DEFINE i == x \in ImagesSent(O, force, texC)
               m == x \in MipmapsSent(O, force, texC)
    <3>1. i \in BOOLEAN /\ m \in BOOLEAN /\ texC[x] \in Texture
      OBVIOUS
    <3> HIDE DEF i, m
    <3>2. Cleared(texC[x], i, m) \in Texture
      BY <3>1, ClearedTyped
    <3> QED BY <3>2 DEF i, m
  <2>2. tex' = [x \in Textures |-> Cleared(texC[x], x \in ImagesSent(O, force, texC),
                                                    x \in MipmapsSent(O, force, texC))]
    BY DEF SyncByParts
  <2> QED BY <2>1, <2>2
<1>3. /\ peer.bind \in [Techniques -> Bindings]
      /\ peer.uniform \in [Techniques -> [Locations -> Values \cup {Junk, Nil}]]
      /\ peer.image \in [Textures -> (0..MaxVersion) \cup {Nil}]
      /\ peer.mip \in [Textures -> BOOLEAN]
      /\ peer.param \in [Samplers -> Params]
  BY DEF TypeOK, Peer
<1>4. peer'.bind \in [Techniques -> Bindings]
  <2>1. ASSUME NEW t \in Techniques PROVE SendBindings(t, force, chg) \in Bindings
    <3>1. SyncedBindings(t) \in Bindings
      BY WithoutExpiredTyped DEF SyncedBindings
    <3> QED BY <1>3, <3>1 DEF SendBindings, Bindings
  <2>2. peer'.bind = [t \in Techniques |->
           IF t \in ShownOf(O) THEN SendBindings(t, force, chg) ELSE peer.bind[t]]
    BY DEF SyncByParts
  <2> QED BY <1>3, <2>1, <2>2
<1>5. peer'.uniform \in [Techniques -> [Locations -> Values \cup {Junk, Nil}]]
  <2>1. ASSUME NEW t \in Techniques
        PROVE  SendUniforms(t, force) \in [Locations -> Values \cup {Junk, Nil}]
    BY SendUniformsTyped
  <2>2. peer'.uniform = [t \in Techniques |->
           IF t \in ShownOf(O) THEN SendUniforms(t, force) ELSE peer.uniform[t]]
    BY DEF SyncByParts
  <2> QED BY <1>3, <2>1, <2>2
<1>6. peer'.image \in [Textures -> (0..MaxVersion) \cup {Nil}]
  <2>1. peer'.image = [x \in Textures |->
           IF x \in ImagesSent(O, force, texC) THEN texC[x].image ELSE peer.image[x]]
    BY DEF SyncByParts
  <2> QED BY <1>3, <2>1 DEF Texture
<1>7. peer'.mip \in [Textures -> BOOLEAN]
  <2>1. peer'.mip = [x \in Textures |->
              peer.mip[x] \/ (x \in MipmapsSent(O, force, texC) /\ texC[x].mip)]
    BY DEF SyncByParts
  <2> QED BY <2>1
<1>8. peer'.param \in [Samplers -> Params]
  <2>1. ASSUME NEW s \in Samplers PROVE SendParams(s) \in Params
    BY <1>3 DEF SendParams, Params
  <2>2. peer'.param = [s \in Samplers |->
              IF s \in SamplersOf(O) THEN SendParams(s) ELSE peer.param[s]]
    BY DEF SyncByParts
  <2> QED BY <1>3, <2>1, <2>2
<1>9. peer' = [bind |-> peer'.bind, uniform |-> peer'.uniform, image |-> peer'.image,
               mip |-> peer'.mip, param |-> peer'.param]
  BY DEF SyncByParts
<1> QED BY <1>1, <1>2, <1>4, <1>5, <1>6, <1>7, <1>8, <1>9 DEF Peer

----------------------------------------------------------------------------
(* What a commit does                                                      *)

CommittedTex(t) ==
  [x \in Textures |-> IF x \in TexturesIn(CommitBindings(t)) THEN CommitTexture(x) ELSE tex[x]]
DroppedAt(t) ==
  {b \in Points : bindP[t][b] \notin {Nil, bindC[t][b]} /\ ~Alive(bindP[t][b])}

CommitByParts(t) ==
  /\ t \in live /\ (client = "running" \/ t \in app)
  /\ committed' = committed \cup {t}
  /\ bindC' = [bindC EXCEPT ![t] = CommitBindings(t)]
  /\ bindP' = [bindP EXCEPT ![t] = WithoutExpired(bindP[t])]
  /\ rebound' = [rebound EXCEPT ![t] = FALSE]
  /\ \E list \in Merged(uniC[t], uniP[t]) : uniC' = [uniC EXCEPT ![t] = list]
  /\ uniP' = [uniP EXCEPT ![t] = <<>>]
  /\ paramC' = [s \in Samplers |->
       IF s \in SamplersIn(CommitBindings(t)) THEN CommitParams(s) ELSE paramC[s]]
  /\ paramP' = [s \in Samplers |->
       IF s \in SamplersIn(CommitBindings(t)) THEN NoParams ELSE paramP[s]]
  /\ wanted' = [wanted EXCEPT ![t] = Wanted(t)]
  /\ session' = session /\ sessions' = sessions /\ client' = client
  /\ live' = live /\ app' = app
  /\ session = 0 =>
       /\ tex' = CommittedTex(t)
       /\ proxy' = proxy /\ peer' = peer /\ unsynced' = unsynced
       /\ missed' = missed /\ dropped' = dropped
  /\ session # 0 =>
       /\ SyncByParts({t}, FALSE, CommittedTex(t), rebound)
       /\ unsynced' =
            IF t \in app
            THEN unsynced \ (TexturesIn(CommitBindings(t)) \cup SamplersIn(CommitBindings(t)))
            ELSE unsynced \cup {t} \cup TexturesIn(CommitBindings(t))
                          \cup SamplersIn(CommitBindings(t))
       /\ missed' = (missed \ (ImagesSent({t}, FALSE, CommittedTex(t)) \X {"image"}))
                      \ (MipmapsSent({t}, FALSE, CommittedTex(t)) \X {"mipmap"})
       /\ dropped' = IF ~rebound[t] THEN dropped
                     ELSE (dropped \cup ({t} \X DroppedAt(t)))
                            \ ({t} \X {b \in Points : CommitBindings(t)[b] # Nil})

LEMMA CommitFields ==
  ASSUME NEW t \in Techniques, Commit(t)
  PROVE  CommitByParts(t)
<1>1. /\ t \in live /\ (client = "running" \/ t \in app)
      /\ committed' = committed \cup {t}
      /\ bindC' = [bindC EXCEPT ![t] = CommitBindings(t)]
      /\ bindP' = [bindP EXCEPT ![t] = WithoutExpired(bindP[t])]
      /\ rebound' = [rebound EXCEPT ![t] = FALSE]
      /\ uniP' = [uniP EXCEPT ![t] = <<>>]
      /\ wanted' = [wanted EXCEPT ![t] = Wanted(t)]
      /\ session' = session /\ sessions' = sessions /\ client' = client
      /\ live' = live /\ app' = app
  BY DEF Commit, LeftPending
<1>2. \E list \in Merged(uniC[t], uniP[t]) : uniC' = [uniC EXCEPT ![t] = list]
  BY DEF Commit
<1>3. /\ paramC' = [s \in Samplers |->
           IF s \in SamplersIn(CommitBindings(t)) THEN CommitParams(s) ELSE paramC[s]]
      /\ paramP' = [s \in Samplers |->
           IF s \in SamplersIn(CommitBindings(t)) THEN NoParams ELSE paramP[s]]
  BY DEF Commit
<1>4. ASSUME session = 0
      PROVE  /\ tex' = CommittedTex(t)
             /\ proxy' = proxy /\ peer' = peer /\ unsynced' = unsynced
             /\ missed' = missed /\ dropped' = dropped
  BY <1>4 DEF Commit, CommittedTex
<1>5. ASSUME session # 0
      PROVE  /\ Sync({t}, FALSE, CommittedTex(t), rebound)
             /\ unsynced' =
                  IF t \in app
                  THEN unsynced \ (TexturesIn(CommitBindings(t)) \cup SamplersIn(CommitBindings(t)))
                  ELSE unsynced \cup {t} \cup TexturesIn(CommitBindings(t))
                                \cup SamplersIn(CommitBindings(t))
             /\ missed' = (missed \ (ImagesSent({t}, FALSE, CommittedTex(t)) \X {"image"}))
                            \ (MipmapsSent({t}, FALSE, CommittedTex(t)) \X {"mipmap"})
             /\ dropped' = IF ~rebound[t] THEN dropped
                           ELSE (dropped \cup ({t} \X DroppedAt(t)))
                                  \ ({t} \X {b \in Points : CommitBindings(t)[b] # Nil})
  BY <1>5 DEF Commit, CommittedTex, DroppedAt
<1>6. session # 0 => SyncByParts({t}, FALSE, CommittedTex(t), rebound)
  BY <1>5, SyncFields
<1> QED BY <1>1, <1>2, <1>3, <1>4, <1>5, <1>6, Zenon DEF CommitByParts

----------------------------------------------------------------------------
(* Types are kept                                                          *)

LEMMA WantedTyped ==
  ASSUME TypeOK, NEW t \in Techniques
  PROVE  Wanted(t) \in [Locations -> Uniform \cup {Nil}]
<1> DEFINE list == uniP[t]
<1>1. list \in Seq(Uniform) /\ Len(list) \in Nat /\ DOMAIN list = 1..Len(list)
  BY DEF TypeOK
<1>2. ASSUME NEW l \in Locations PROVE Wanted(t)[l] \in Uniform \cup {Nil}
  <2> DEFINE there == {i \in DOMAIN list : Slot(list[i]) = l}
  <2>1. Wanted(t)[l] = IF there = {} THEN wanted[t][l] ELSE list[LastOf(there)]
    BY DEF Wanted
  <2>2. CASE there = {}
    BY <2>1, <2>2 DEF TypeOK
  <2>3. CASE there # {}
    <3>1. LastOf(there) \in there
      <4>1. there \subseteq 1..Len(list)
        BY <1>1
      <4> HIDE DEF there, list
      <4> QED BY <1>1, <2>3, <4>1, LastOfExists
    <3>2. list[LastOf(there)] \in Uniform
      <4> HIDE DEF list
      <4>1. LastOf(there) \in DOMAIN list
        BY <3>1
      <4> HIDE DEF there
      <4> QED BY <1>1, <4>1
    <3> QED BY <2>1, <2>3, <3>2
  <2> QED BY <2>2, <2>3
<1>3. Wanted(t) = [l \in Locations |-> Wanted(t)[l]]
  BY DEF Wanted
<1> QED BY <1>2, <1>3

LEMMA CommitTextureTyped ==
  ASSUME TypeOK, NEW x \in Textures
  PROVE  /\ CommitTexture(x) \in Texture
         /\ ~CommitTexture(x).dataChanged =>
              ~tex[x].dataChanged /\ CommitTexture(x).image = tex[x].image
         /\ ~CommitTexture(x).mipChanged =>
              ~tex[x].mipChanged /\ CommitTexture(x).mip = tex[x].mip
<1> DEFINE c == tex[x]
           p == c.pImage # 0
           image == IF p THEN c.pImage ELSE c.image
           data == c.dataChanged \/ p
           mip == c.mip \/ c.pMip
           mipC == c.mipChanged \/ c.pMip
<1>1. image \in 0..MaxVersion
  BY DEF TypeOK, Texture
<1>2. data \in BOOLEAN /\ mip \in BOOLEAN /\ mipC \in BOOLEAN
  BY DEF TypeOK, Texture
<1>3. CommitTexture(x) = [pImage |-> 0, image |-> image, dataChanged |-> data, pMip |-> FALSE,
                          mip |-> mip, mipChanged |-> mipC]
  BY DEF CommitTexture
<1>4. 0 \in 0..MaxVersion
  BY MaterialsAssumption
<1>5. ~data => ~c.dataChanged /\ image = c.image
  OBVIOUS
<1>6. ~mipC => ~c.mipChanged /\ mip = c.mip
  BY DEF TypeOK, Texture
<1> HIDE DEF image, data, mip, mipC, c
<1>7. /\ CommitTexture(x) \in Texture
      /\ CommitTexture(x).image = image /\ CommitTexture(x).dataChanged = data
      /\ CommitTexture(x).mip = mip /\ CommitTexture(x).mipChanged = mipC
  BY <1>1, <1>2, <1>3, <1>4 DEF Texture
<1> QED BY <1>5, <1>6, <1>7, Zenon DEF c

LEMMA CommittedTexTyped ==
  ASSUME TypeOK, NEW t \in Techniques PROVE CommittedTex(t) \in [Textures -> Texture]
<1>1. \A x \in Textures : CommitTexture(x) \in Texture /\ tex[x] \in Texture
  BY CommitTextureTyped DEF TypeOK
<1> QED BY <1>1 DEF CommittedTex

LEMMA CommitBindingsTyped ==
  ASSUME TypeOK, NEW t \in Techniques PROVE CommitBindings(t) \in Bindings
BY WithoutExpiredTyped DEF TypeOK, CommitBindings

LEMMA CommitTyped ==
  ASSUME TypeOK, NEW t \in Techniques, CommitByParts(t)
  PROVE  TypeOK'
<1>1. bindC' \in [Techniques -> Bindings] /\ bindP' \in [Techniques -> Bindings]
  <2>1. WithoutExpired(bindP[t]) \in Bindings
    BY WithoutExpiredTyped DEF TypeOK
  <2> QED BY <2>1, CommitBindingsTyped DEF TypeOK, CommitByParts
<1>2. rebound' \in [Techniques -> BOOLEAN]
  BY DEF TypeOK, CommitByParts
<1>3. /\ uniC' \in [Techniques -> Seq(Entry)] /\ uniP' \in [Techniques -> Seq(Uniform)]
      /\ \A c \in Techniques : Len(uniP'[c]) + Len(uniC'[c]) <= MaxUniforms
  <2>1. PICK m \in Merged(uniC[t], uniP[t]) : uniC' = [uniC EXCEPT ![t] = m]
    BY DEF CommitByParts
  <2>2. uniC[t] \in Seq(Entry) /\ uniP[t] \in Seq(Uniform)
    BY DEF TypeOK
  <2>3. m \in Seq(Entry) /\ Len(m) <= Len(uniC[t]) + Len(uniP[t])
    BY <2>2, MergedElements
  <2>4. <<>> \in Seq(Uniform) /\ Len(<<>>) = 0
    OBVIOUS
  <2>5. uniC' \in [Techniques -> Seq(Entry)] /\ uniP' \in [Techniques -> Seq(Uniform)]
    BY <2>1, <2>3, <2>4 DEF TypeOK, CommitByParts
  <2>6. ASSUME NEW c \in Techniques PROVE Len(uniP'[c]) + Len(uniC'[c]) <= MaxUniforms
    <3>1. Len(uniP[c]) + Len(uniC[c]) <= MaxUniforms
      BY DEF TypeOK
    <3>2. CASE c = t
      <4>1. uniP'[c] = <<>> /\ uniC'[c] = m
        BY <2>1, <3>2 DEF TypeOK, CommitByParts
      <4>2. Len(m) \in Nat /\ Len(uniC[t]) \in Nat /\ Len(uniP[t]) \in Nat /\ MaxUniforms \in Nat
        BY <2>2, <2>3, MaterialsAssumption
      <4>3. Len(uniP[t]) + Len(uniC[t]) <= MaxUniforms
        BY DEF TypeOK
      <4>4. Len(m) <= MaxUniforms
        <5> DEFINE a == Len(m)
                   b == Len(uniC[t])
                   d == Len(uniP[t])
        <5>1. /\ a \in Nat /\ b \in Nat /\ d \in Nat /\ MaxUniforms \in Nat
              /\ a <= b + d /\ d + b <= MaxUniforms
          BY <2>3, <4>2, <4>3
        <5> HIDE DEF a, b, d
        <5>2. a <= MaxUniforms
          BY <5>1
        <5> QED BY <5>2 DEF a
      <4>5. Len(uniP'[c]) = 0 /\ Len(uniC'[c]) = Len(m)
        BY <2>4, <4>1
      <4> QED BY <4>2, <4>4, <4>5
    <3>3. CASE c # t
      BY <2>1, <3>1, <3>3 DEF TypeOK, CommitByParts
    <3> QED BY <3>2, <3>3
  <2> QED BY <2>5, <2>6
<1>4. paramC' \in [Samplers -> Params] /\ paramP' \in [Samplers -> Params]
  <2>1. NoParams \in Params
    BY DEF NoParams, Params
  <2>2. \A s \in Samplers : CommitParams(s) \in Params
    BY DEF TypeOK, CommitParams, Params
  <2> QED BY <2>1, <2>2 DEF TypeOK, CommitByParts
<1>5. wanted' \in [Techniques -> [Locations -> Uniform \cup {Nil}]]
  BY WantedTyped DEF TypeOK, CommitByParts
<1>6. /\ session' \in 0..MaxSessions /\ sessions' \in 0..MaxSessions
      /\ client' \in {"running", "failed", "gone"}
      /\ live' \subseteq Things /\ app' \subseteq Techniques /\ committed' \subseteq Techniques
  BY DEF TypeOK, CommitByParts
<1>7. CommittedTex(t) \in [Textures -> Texture]
  BY CommittedTexTyped
<1>8. proxy' \in [Things -> 0..MaxSessions] /\ tex' \in [Textures -> Texture] /\ peer' \in Peer
  <2>1. CASE session = 0
    BY <1>7, <2>1 DEF TypeOK, CommitByParts
  <2>2. CASE session # 0
    <3>1. SyncByParts({t}, FALSE, CommittedTex(t), rebound)
      BY <2>2 DEF CommitByParts
    <3> QED BY <1>1, <1>3, <1>4, <1>6, <1>7, <3>1, SyncTyped
  <2> QED BY <2>1, <2>2
<1>9. /\ unsynced' \subseteq Things /\ missed' \subseteq Textures \X {"image", "mipmap"}
      /\ dropped' \subseteq Techniques \X Points
  <2>1. TexturesIn(CommitBindings(t)) \subseteq Things /\ SamplersIn(CommitBindings(t)) \subseteq Things
    BY DEF TexturesIn, SamplersIn, Things
  <2>2. DroppedAt(t) \subseteq Points /\ t \in Things
    BY DEF DroppedAt, Things
  <2> HIDE DEF TypeOK
  <2>3. /\ unsynced \subseteq Things /\ missed \subseteq Textures \X {"image", "mipmap"}
        /\ dropped \subseteq Techniques \X Points
    BY DEF TypeOK
  <2>4. unsynced' \subseteq Things
    BY <2>1, <2>2, <2>3 DEF CommitByParts
  <2>5. missed' \subseteq Textures \X {"image", "mipmap"}
    <3>1. missed' \subseteq missed
      BY DEF CommitByParts
    <3> QED BY <2>3, <3>1
  <2>6. dropped' \subseteq Techniques \X Points
    <3>1. dropped' \subseteq dropped \cup ({t} \X DroppedAt(t))
      BY DEF CommitByParts
    <3> QED BY <2>2, <2>3, <3>1
  <2> QED BY <2>4, <2>5, <2>6
<1> QED BY <1>1, <1>2, <1>3, <1>4, <1>5, <1>6, <1>8, <1>9 DEF TypeOK

LEMMA SetUniformTyped ==
  ASSUME TypeOK, NEW t \in Techniques, NEW u \in Uniform, NEW size, NEW elements,
         SetUniform(t, u, size, elements)
  PROVE  TypeOK'
<1>1. /\ uniP' = uniP \/ uniP' = [uniP EXCEPT ![t] = Append(uniP[t], u)]
      /\ client' = client \/ client' = "failed"
      /\ Len(uniP[t]) + Len(uniC[t]) < MaxUniforms
      /\ UNCHANGED <<session, sessions, live, app, committed, bindVars, uniC, tex, paramP,
                     paramC, proxy, peer, wanted, unsynced, missed, dropped>>
  BY DEF SetUniform
<1>2. uniP[t] \in Seq(Uniform) /\ uniC[t] \in Seq(Entry)
  BY DEF TypeOK
<1>3. Append(uniP[t], u) \in Seq(Uniform) /\ Len(Append(uniP[t], u)) = Len(uniP[t]) + 1
  BY <1>2
<1>4. uniP' \in [Techniques -> Seq(Uniform)]
  BY <1>1, <1>3 DEF TypeOK
<1>5. ASSUME NEW c \in Techniques PROVE Len(uniP'[c]) + Len(uniC'[c]) <= MaxUniforms
  <2>1. Len(uniP[c]) + Len(uniC[c]) <= MaxUniforms /\ uniC'[c] = uniC[c]
    BY <1>1 DEF TypeOK
  <2>2. CASE uniP'[c] = uniP[c]
    BY <2>1, <2>2
  <2>3. CASE uniP'[c] # uniP[c]
    <3>1. c = t /\ uniP'[c] = Append(uniP[t], u)
      BY <1>1, <2>3 DEF TypeOK
    <3> DEFINE n == Len(uniP[t])
               k == Len(uniC[t])
    <3>2. n \in Nat /\ k \in Nat
      BY <1>2
    <3>3. n + k < MaxUniforms /\ MaxUniforms \in Nat
      BY <1>1, MaterialsAssumption
    <3>4. Len(uniP'[c]) = n + 1 /\ Len(uniC'[c]) = k
      BY <1>3, <2>1, <3>1
    <3> HIDE DEF n, k
    <3> QED BY <3>2, <3>3, <3>4
  <2> QED BY <2>2, <2>3
<1> QED BY <1>1, <1>4, <1>5 DEF TypeOK, bindVars

LEMMA UniformExists == (CHOOSE u \in Uniform : TRUE) \in Uniform
<1>1. PICK l \in Locations, v \in Values : TRUE
  BY MaterialsAssumption
<1>2. [at |-> l, v |-> v, count |-> 1] \in Uniform
  BY DEF Uniform
<1> QED BY <1>2

LEMMA DestroyTyped ==
  ASSUME TypeOK, NEW r \in Textures \cup Samplers, Destroy(r)
  PROVE  TypeOK'
<1>1. /\ live' \subseteq Things
      /\ unsynced' \subseteq Things /\ missed' \subseteq Textures \X {"image", "mipmap"}
  <2>1. live' \subseteq live /\ unsynced' \subseteq unsynced /\ missed' \subseteq missed
    BY DEF Destroy
  <2> QED BY <2>1 DEF TypeOK
<1>2. NewTexture \in Texture /\ NoParams \in Params /\ 0 \in 0..MaxSessions
  BY MaterialsAssumption DEF NewTexture, Texture, NoParams, Params
<1>3. /\ tex' \in [Textures -> Texture]
      /\ paramP' \in [Samplers -> Params] /\ paramC' \in [Samplers -> Params]
  BY <1>2 DEF Destroy, TypeOK
<1>4. proxy' \in [Things -> 0..MaxSessions]
  BY <1>2 DEF Destroy, TypeOK
<1>5. peer' \in Peer
  <2>1. /\ peer.bind \in [Techniques -> Bindings]
        /\ peer.uniform \in [Techniques -> [Locations -> Values \cup {Junk, Nil}]]
        /\ peer.image \in [Textures -> (0..MaxVersion) \cup {Nil}]
        /\ peer.mip \in [Textures -> BOOLEAN]
        /\ peer.param \in [Samplers -> Params]
    BY DEF TypeOK, Peer
  <2> DEFINE pi == [x \in Textures |-> IF x = r THEN Nil ELSE peer.image[x]]
             pm == [x \in Textures |-> x # r /\ peer.mip[x]]
             pp == [s \in Samplers |-> IF s = r THEN NoParams ELSE peer.param[s]]
  <2>2. /\ pi \in [Textures -> (0..MaxVersion) \cup {Nil}] /\ pm \in [Textures -> BOOLEAN]
        /\ pp \in [Samplers -> Params]
    BY <1>2, <2>1
  <2>3. peer' = [bind |-> peer.bind, uniform |-> peer.uniform, image |-> pi, mip |-> pm,
                 param |-> pp]
    BY DEF Destroy
  <2> HIDE DEF pi, pm, pp
  <2> QED BY <2>1, <2>2, <2>3 DEF Peer
<1> QED BY <1>1, <1>3, <1>4, <1>5 DEF TypeOK, Destroy, bindVars

LEMMA GoneTyped ==
  ASSUME TypeOK, ClientGone
  PROVE  TypeOK'
<1>1. EmptyPeer \in Peer /\ NewTexture \in Texture /\ Unbound \in Bindings /\ NoParams \in Params
  BY MaterialsAssumption DEF EmptyPeer, Peer, NewTexture, Texture, Unbound, Bindings,
     NoParams, Params
<1>2. <<>> \in Seq(Uniform) /\ <<>> \in Seq(Entry) /\ Len(<<>>) = 0
  OBVIOUS
<1>3. \A t \in Techniques : Len(uniP'[t]) + Len(uniC'[t]) <= MaxUniforms
  <2>1. \A t \in Techniques : uniP'[t] = <<>> /\ uniC'[t] = <<>>
    BY DEF ClientGone
  <2>2. MaxUniforms \in Nat
    BY MaterialsAssumption
  <2>3. ASSUME NEW t \in Techniques PROVE Len(uniP'[t]) + Len(uniC'[t]) <= MaxUniforms
    <3>1. Len(uniP'[t]) = 0 /\ Len(uniC'[t]) = 0
      BY <1>2, <2>1
    <3> QED BY <2>2, <3>1
  <2> QED BY <2>3
<1>4. /\ uniP' \in [Techniques -> Seq(Uniform)] /\ uniC' \in [Techniques -> Seq(Entry)]
  BY <1>2 DEF ClientGone
<1>5. wanted' \in [Techniques -> [Locations -> Uniform \cup {Nil}]]
  BY DEF ClientGone
<1>6. proxy' \in [Things -> 0..MaxSessions] /\ 0 \in 0..MaxSessions
  BY MaterialsAssumption DEF ClientGone
<1>7. /\ session' \in 0..MaxSessions /\ sessions' \in 0..MaxSessions
      /\ client' \in {"running", "failed", "gone"}
      /\ live' \subseteq Things /\ app' \subseteq Techniques /\ committed' \subseteq Techniques
      /\ unsynced' \subseteq Things /\ missed' \subseteq Textures \X {"image", "mipmap"}
      /\ dropped' \subseteq Techniques \X Points
  BY DEF ClientGone, TypeOK
<1>8. /\ bindP' \in [Techniques -> Bindings] /\ bindC' \in [Techniques -> Bindings]
      /\ rebound' \in [Techniques -> BOOLEAN]
      /\ tex' \in [Textures -> Texture] /\ peer' \in Peer
      /\ paramP' \in [Samplers -> Params] /\ paramC' \in [Samplers -> Params]
  BY <1>1 DEF ClientGone
<1> QED BY <1>3, <1>4, <1>5, <1>6, <1>7, <1>8 DEF TypeOK

EstablishByParts ==
  /\ session = 0 /\ session' = sessions + 1 /\ sessions' = sessions + 1
  /\ sessions < MaxSessions
  /\ client' = client /\ live' = live /\ app' = app /\ committed' = committed
  /\ bindP' = bindP /\ rebound' = rebound /\ uniP' = uniP /\ uniC' = uniC
  /\ paramP' = paramP /\ paramC' = paramC /\ wanted' = wanted
  /\ bindC' = [t \in Techniques |-> IF t \in ShownOf(committed)
                                    THEN WithoutExpired(bindC[t]) ELSE bindC[t]]
  /\ SyncByParts(committed, TRUE, tex, rebound)
  /\ unsynced' = committed \ app
  /\ missed' = (Textures \ TexturesOf(committed)) \X {"image", "mipmap"}
  /\ dropped' = {}

LEMMA EstablishFields ==
  ASSUME EstablishSession PROVE EstablishByParts
<1>1. Sync(committed, TRUE, tex, rebound)
  BY DEF EstablishSession
<1>2. SyncByParts(committed, TRUE, tex, rebound)
  BY <1>1, SyncFields
<1>3. /\ session = 0 /\ session' = sessions + 1 /\ sessions' = sessions + 1
      /\ sessions < MaxSessions
      /\ client' = client /\ live' = live /\ app' = app /\ committed' = committed
      /\ bindP' = bindP /\ rebound' = rebound /\ uniP' = uniP /\ uniC' = uniC
      /\ paramP' = paramP /\ paramC' = paramC /\ wanted' = wanted
      /\ bindC' = [t \in Techniques |-> IF t \in ShownOf(committed)
                                        THEN WithoutExpired(bindC[t]) ELSE bindC[t]]
      /\ unsynced' = committed \ app
      /\ missed' = (Textures \ TexturesOf(committed)) \X {"image", "mipmap"}
      /\ dropped' = {}
  BY DEF EstablishSession
<1> QED BY <1>2, <1>3, Zenon DEF EstablishByParts

LEMMA EstablishTyped ==
  ASSUME TypeOK, EstablishByParts
  PROVE  TypeOK'
<1>1. bindC' \in [Techniques -> Bindings]
  BY WithoutExpiredTyped DEF TypeOK, EstablishByParts
<1>2. session' \in 0..MaxSessions /\ sessions' \in 0..MaxSessions
  BY MaterialsAssumption DEF TypeOK, EstablishByParts
<1>3. uniC' \in [Techniques -> Seq(Entry)] /\ paramC' \in [Samplers -> Params]
  BY DEF TypeOK, EstablishByParts
<1>4. tex \in [Textures -> Texture] /\ SyncByParts(committed, TRUE, tex, rebound)
  BY DEF TypeOK, EstablishByParts
<1>5. proxy' \in [Things -> 0..MaxSessions] /\ tex' \in [Textures -> Texture] /\ peer' \in Peer
  BY <1>1, <1>2, <1>3, <1>4, SyncTyped
<1>6. /\ unsynced' \subseteq Things /\ missed' \subseteq Textures \X {"image", "mipmap"}
      /\ dropped' \subseteq Techniques \X Points
  <2>1. committed \subseteq Things
    BY DEF TypeOK, Things
  <2>2. /\ unsynced' \subseteq committed
        /\ missed' = (Textures \ TexturesOf(committed)) \X {"image", "mipmap"}
        /\ dropped' = {}
    BY DEF EstablishByParts
  <2> QED BY <2>1, <2>2
<1>7. /\ client' \in {"running", "failed", "gone"}
      /\ live' \subseteq Things /\ app' \subseteq Techniques /\ committed' \subseteq Techniques
      /\ bindP' \in [Techniques -> Bindings] /\ rebound' \in [Techniques -> BOOLEAN]
      /\ uniP' \in [Techniques -> Seq(Uniform)]
      /\ paramP' \in [Samplers -> Params]
      /\ wanted' \in [Techniques -> [Locations -> Uniform \cup {Nil}]]
  BY DEF TypeOK, EstablishByParts
<1>8. \A t \in Techniques : Len(uniP'[t]) + Len(uniC'[t]) <= MaxUniforms
  BY DEF TypeOK, EstablishByParts
<1> QED BY <1>1, <1>2, <1>3, <1>5, <1>6, <1>7, <1>8 DEF TypeOK

LEMMA DisconnectTyped ==
  ASSUME TypeOK, DisconnectSession
  PROVE  TypeOK'
<1>1. EmptyPeer \in Peer
  BY MaterialsAssumption DEF EmptyPeer, Peer, Unbound, Bindings, NoParams, Params
<1>2. proxy' \in [Things -> 0..MaxSessions] /\ session' \in 0..MaxSessions
  BY MaterialsAssumption DEF DisconnectSession
<1> QED BY <1>1, <1>2 DEF TypeOK, DisconnectSession, bindVars

LEMMA TypeStep ==
  ASSUME TypeOK, [Next]_vars
  PROVE  TypeOK'
<1>1. ASSUME NEW t \in Techniques, Commit(t) PROVE TypeOK'
  BY <1>1, CommitFields, CommitTyped
<1>2. ASSUME NEW t \in Techniques, GetBounded(t) PROVE TypeOK'
  BY <1>2 DEF GetBounded, TypeOK, bindVars
<1>3. ASSUME NEW t \in Techniques, NEW b \in Points, NEW x \in Textures, NEW s \in Samplers,
             BindTexture(t, b, x, s)
      PROVE  TypeOK'
  <2>1. <<x, s>> \in Binding
    BY DEF Binding
  <2>2. bindP' \in [Techniques -> Bindings]
    BY <1>3, <2>1 DEF BindTexture, TypeOK, Bindings
  <2> QED BY <1>3, <2>2 DEF BindTexture, TypeOK
<1>4. ASSUME NEW t \in Techniques, NEW u \in Uniform, SetUniform(t, u, 4, u.count)
      PROVE  TypeOK'
  BY <1>4, SetUniformTyped
<1>5. ASSUME NEW t \in Techniques, NEW size \in {0, 4},
             SetUniform(t, CHOOSE u \in Uniform : TRUE, size, 0)
      PROVE  TypeOK'
  BY <1>5, UniformExists, SetUniformTyped
<1>6. ASSUME NEW s \in Samplers, NEW p \in Pnames \cup {OtherPname}, NEW v \in Values,
             NEW size \in Sizes, SetParameter(s, p, v, size)
      PROVE  TypeOK'
  <2>1. paramP' \in [Samplers -> Params]
    <3>1. CASE p \in Pnames /\ size = ParameterSize[p]
      <4>1. paramP' = [paramP EXCEPT ![s][p] = v]
        BY <1>6, <3>1 DEF SetParameter
      <4> QED BY <3>1, <4>1 DEF TypeOK, Params
    <3>2. CASE ~(p \in Pnames /\ size = ParameterSize[p])
      BY <1>6, <3>2 DEF SetParameter, TypeOK
    <3> QED BY <3>1, <3>2
  <2>2. client' \in {"running", "failed", "gone"}
    BY <1>6 DEF SetParameter, TypeOK
  <2> QED BY <1>6, <2>1, <2>2 DEF SetParameter, TypeOK, bindVars
<1>7. ASSUME NEW x \in Textures, NEW k \in 0..MaxVersion, Image2d(x, k) PROVE TypeOK'
  BY <1>7 DEF Image2d, TypeOK, Texture, bindVars
<1>8. ASSUME NEW x \in Textures, GenerateMipmap(x) PROVE TypeOK'
  BY <1>8 DEF GenerateMipmap, TypeOK, Texture, bindVars
<1>9. ASSUME NEW r \in Textures \cup Samplers, Destroy(r) PROVE TypeOK'
  BY <1>9, DestroyTyped
<1>10. CASE ClientGone
  BY <1>10, GoneTyped
<1>11. CASE EstablishSession
  BY <1>11, EstablishFields, EstablishTyped
<1>12. CASE DisconnectSession
  BY <1>12, DisconnectTyped
<1>13. CASE UNCHANGED vars
  BY <1>13 DEF vars, bindVars, TypeOK
<1> QED BY <1>1, <1>2, <1>3, <1>4, <1>5, <1>6, <1>7, <1>8, <1>9, <1>10, <1>11, <1>12, <1>13
        DEF Next

----------------------------------------------------------------------------
(* What is sent by a sync                                                  *)

LEMMA Disjoint ==
  /\ \A t \in Techniques : t \notin Textures /\ t \notin Samplers
  /\ \A x \in Textures : x \notin Samplers /\ x \notin Techniques
  /\ \A s \in Samplers : s \notin Textures /\ s \notin Techniques
BY MaterialsAssumption

LEMMA InLists ==
  ASSUME NEW list
  PROVE  TexturesIn(list) \subseteq Textures /\ SamplersIn(list) \subseteq Samplers
BY DEF TexturesIn, SamplersIn

LEMMA InSyncs ==
  ASSUME NEW O
  PROVE  TexturesOf(O) \subseteq Textures /\ SamplersOf(O) \subseteq Samplers
BY InLists DEF TexturesOf, SamplersOf

LEMMA ProxyOfTechnique ==
  ASSUME TypeOK, NEW O, NEW force, NEW texC, NEW chg, SyncByParts(O, force, texC, chg),
         NEW t \in Techniques
  PROVE  proxy'[t] = IF t \in ShownOf(O) /\ proxy[t] = 0 THEN session' ELSE proxy[t]
<1>1. t \in SyncedBy(O) <=> t \in ShownOf(O)
  BY Disjoint, InSyncs DEF SyncedBy
<1>2. t \in Things
  BY DEF Things
<1> QED BY <1>1, <1>2 DEF SyncByParts

LEMMA ProxyOfTexture ==
  ASSUME TypeOK, NEW O, NEW force, NEW texC, NEW chg, SyncByParts(O, force, texC, chg),
         NEW x \in Textures
  PROVE  proxy'[x] = IF x \in TexturesOf(O) /\ proxy[x] = 0 THEN session' ELSE proxy[x]
<1>1. x \in SyncedBy(O) <=> x \in TexturesOf(O)
  BY Disjoint, InSyncs DEF SyncedBy, ShownOf, TypeOK
<1>2. x \in Things
  BY DEF Things
<1> QED BY <1>1, <1>2 DEF SyncByParts

LEMMA ProxyOfSampler ==
  ASSUME TypeOK, NEW O, NEW force, NEW texC, NEW chg, SyncByParts(O, force, texC, chg),
         NEW s \in Samplers
  PROVE  proxy'[s] = IF s \in SamplersOf(O) /\ proxy[s] = 0 THEN session' ELSE proxy[s]
<1>1. s \in SyncedBy(O) <=> s \in SamplersOf(O)
  BY Disjoint, InSyncs DEF SyncedBy, ShownOf, TypeOK
<1>2. s \in Things
  BY DEF Things
<1> QED BY <1>1, <1>2 DEF SyncByParts

LEMMA CommittedSynced ==
  ASSUME TypeOK, NEW t \in Techniques, CommitByParts(t)
  PROVE  SyncedBindings(t) = CommitBindings(t) /\ bindC'[t] = CommitBindings(t)
<1>1. bindC'[t] = CommitBindings(t)
  BY DEF CommitByParts, TypeOK
<1>2. WithoutExpired(CommitBindings(t)) = CommitBindings(t)
  BY DEF CommitBindings, WithoutExpired, Alive
<1> QED BY <1>1, <1>2 DEF SyncedBindings

(* A commit syncs all it committed, or nothing, as there is an app or not. *)
LEMMA CommitSyncs ==
  ASSUME TypeOK, NEW t \in Techniques, CommitByParts(t), t \in app
  PROVE  /\ ShownOf({t}) = {t}
         /\ TexturesOf({t}) = TexturesIn(CommitBindings(t))
         /\ SamplersOf({t}) = SamplersIn(CommitBindings(t))
<1>1. ShownOf({t}) = {t}
  BY DEF ShownOf, CommitByParts
<1>2. SyncedBindings(t) = CommitBindings(t)
  BY CommittedSynced
<1> QED BY <1>1, <1>2 DEF TexturesOf, SamplersOf

LEMMA CommitSyncsNothing ==
  ASSUME NEW t, t \notin app
  PROVE  ShownOf({t}) = {} /\ TexturesOf({t}) = {} /\ SamplersOf({t}) = {}
BY DEF ShownOf, TexturesOf, SamplersOf

(* Of the techniques none but the one committed is concerned.              *)
LEMMA CommitLeavesOthers ==
  ASSUME TypeOK, NEW t \in Techniques, CommitByParts(t), NEW c \in Techniques, c # t
  PROVE  /\ proxy'[c] = proxy[c] /\ peer'.bind[c] = peer.bind[c]
         /\ peer'.uniform[c] = peer.uniform[c]
         /\ c \in unsynced' <=> c \in unsynced
         /\ \A b \in Points : <<c, b>> \in dropped' <=> <<c, b>> \in dropped
<1>1. CASE session = 0
  BY <1>1 DEF CommitByParts
<1>2. CASE session # 0
  <2>1. SyncByParts({t}, FALSE, CommittedTex(t), rebound)
    BY <1>2 DEF CommitByParts
  <2>2. c \notin ShownOf({t})
    BY DEF ShownOf
  <2>3. proxy'[c] = proxy[c]
    BY <2>1, <2>2, ProxyOfTechnique
  <2>4. peer'.bind[c] = peer.bind[c] /\ peer'.uniform[c] = peer.uniform[c]
    BY <2>1, <2>2 DEF SyncByParts
  <2>5. c \in unsynced' <=> c \in unsynced
    BY <1>2, InLists, Disjoint DEF CommitByParts
  <2>6. \A b \in Points : <<c, b>> \in dropped' <=> <<c, b>> \in dropped
    BY <1>2 DEF CommitByParts
  <2> QED BY <2>3, <2>4, <2>5, <2>6
<1> QED BY <1>1, <1>2

----------------------------------------------------------------------------
(* What is committed and what was sent                                     *)

LEMMA SessionStep ==
  ASSUME IInv, TypeOK', [Next]_vars
  PROVE  SessionInv'
<1> USE DEF IInv
<1>1. ASSUME NEW t \in Techniques, Commit(t) PROVE SessionInv'
  <2>0. CommitByParts(t)
    BY <1>1, CommitFields
  <2>1. (session = 0 => \A x \in Things : proxy[x] = 0)'
    BY <2>0 DEF SessionInv, CommitByParts
  <2>2. (committed \subseteq live /\ app \subseteq live)'
    BY <2>0 DEF SessionInv, CommitByParts
  <2>3. (\A c \in Techniques \ committed :
           bindC[c] = Unbound /\ uniC[c] = <<>> /\ \A l \in Locations : wanted[c][l] = Nil)'
    <3> SUFFICES ASSUME NEW c \in Techniques, c \notin committed'
                 PROVE  /\ bindC'[c] = Unbound /\ uniC'[c] = <<>>
                        /\ \A l \in Locations : wanted'[c][l] = Nil
      OBVIOUS
    <3>1. c # t /\ c \notin committed
      BY <2>0 DEF CommitByParts
    <3>2. bindC'[c] = bindC[c] /\ uniC'[c] = uniC[c] /\ wanted'[c] = wanted[c]
      BY <2>0, <3>1 DEF CommitByParts, TypeOK
    <3> QED BY <3>1, <3>2 DEF SessionInv
  <2>4. (\A c \in Techniques : proxy[c] = 0 =>
           peer.bind[c] = Unbound /\ \A l \in Locations : peer.uniform[c][l] = Nil)'
    <3> SUFFICES ASSUME NEW c \in Techniques, proxy'[c] = 0
                 PROVE  /\ peer'.bind[c] = Unbound
                        /\ \A l \in Locations : peer'.uniform[c][l] = Nil
      OBVIOUS
    <3>1. CASE session = 0
      BY <2>0, <3>1 DEF CommitByParts, SessionInv
    <3>2. CASE session # 0
      <4>1. SyncByParts({t}, FALSE, CommittedTex(t), rebound) /\ session' # 0
        BY <2>0, <3>2 DEF CommitByParts
      <4>2. c \notin ShownOf({t}) /\ proxy[c] = 0
        BY <4>1, ProxyOfTechnique
      <4>3. peer'.bind[c] = peer.bind[c] /\ peer'.uniform[c] = peer.uniform[c]
        BY <4>1, <4>2 DEF SyncByParts
      <4> QED BY <4>2, <4>3 DEF SessionInv
    <3> QED BY <3>1, <3>2
  <2>5. (session # 0 => \A c \in committed \ unsynced : proxy[c] # 0)'
    <3> SUFFICES ASSUME session' # 0, NEW c \in committed', c \notin unsynced'
                 PROVE  proxy'[c] # 0
      OBVIOUS
    <3>0. session # 0 /\ session' = session /\ c \in Techniques
      BY <2>0 DEF CommitByParts, TypeOK
    <3>1. CASE c = t
      <4>1. t \in app
        BY <2>0, <3>0, <3>1 DEF CommitByParts
      <4>2. t \in ShownOf({t})
        BY <2>0, <4>1, CommitSyncs
      <4>3. SyncByParts({t}, FALSE, CommittedTex(t), rebound)
        BY <2>0, <3>0 DEF CommitByParts
      <4>4. proxy'[t] = IF t \in ShownOf({t}) /\ proxy[t] = 0 THEN session' ELSE proxy[t]
        BY <4>3, ProxyOfTechnique
      <4> QED BY <3>0, <3>1, <4>2, <4>4
    <3>2. CASE c # t
      <4>1. c \in committed
        BY <2>0, <3>2 DEF CommitByParts
      <4>2. proxy'[c] = proxy[c] /\ (c \in unsynced' <=> c \in unsynced)
        BY <2>0, <3>0, <3>2, CommitLeavesOthers
      <4> QED BY <3>0, <4>1, <4>2 DEF SessionInv
    <3> QED BY <3>1, <3>2
  <2> QED BY <2>1, <2>2, <2>3, <2>4, <2>5 DEF SessionInv
<1>2. ASSUME NEW r \in Textures \cup Samplers, Destroy(r) PROVE SessionInv'
  <2>0. /\ live' = live \ {r} /\ r \notin Techniques
        /\ unsynced' = unsynced \ {r} /\ proxy' = [proxy EXCEPT ![r] = 0]
        /\ session' = session /\ app' = app /\ committed' = committed
        /\ bindC' = bindC /\ uniC' = uniC /\ wanted' = wanted
        /\ peer'.bind = peer.bind /\ peer'.uniform = peer.uniform
    BY <1>2, Disjoint DEF Destroy, bindVars
  <2>1. \A c \in Techniques : proxy'[c] = proxy[c] /\ c \in Things
    BY <2>0 DEF TypeOK, Things
  <2>2. \A x \in Things : proxy'[x] = proxy[x] \/ proxy'[x] = 0
    BY <2>0 DEF TypeOK
  <2>3. committed \subseteq Techniques /\ app \subseteq Techniques
    BY DEF TypeOK
  <2> HIDE DEF IInv
  <2> QED BY <2>0, <2>1, <2>2, <2>3 DEF SessionInv, IInv
<1>3. CASE ClientGone
  BY <1>3 DEF ClientGone, SessionInv, EmptyPeer, Things
<1>4. CASE EstablishSession
  <2>0. EstablishByParts
    BY <1>4, EstablishFields
  <2>1. SyncByParts(committed, TRUE, tex, rebound)
    BY <2>0 DEF EstablishByParts
  <2>2. session = 0 /\ session' # 0
    BY <2>0 DEF EstablishByParts, TypeOK
  <2>3. ASSUME NEW c \in Techniques
        PROVE  proxy'[c] = IF c \in ShownOf(committed) THEN session' ELSE 0
    <3>1. proxy[c] = 0
      BY <2>2 DEF SessionInv, Things
    <3> QED BY <2>1, <3>1, ProxyOfTechnique
  <2>4. (\A c \in Techniques \ committed :
           bindC[c] = Unbound /\ uniC[c] = <<>> /\ \A l \in Locations : wanted[c][l] = Nil)'
    BY <2>0 DEF EstablishByParts, SessionInv, ShownOf
  <2>5. (\A c \in Techniques : proxy[c] = 0 =>
           peer.bind[c] = Unbound /\ \A l \in Locations : peer.uniform[c][l] = Nil)'
    <3> SUFFICES ASSUME NEW c \in Techniques, proxy'[c] = 0
                 PROVE  /\ peer'.bind[c] = Unbound
                        /\ \A l \in Locations : peer'.uniform[c][l] = Nil
      OBVIOUS
    <3>1. c \notin ShownOf(committed)
      BY <2>2, <2>3
    <3>2. peer'.bind[c] = peer.bind[c] /\ peer'.uniform[c] = peer.uniform[c]
      BY <2>1, <3>1 DEF SyncByParts
    <3>3. proxy[c] = 0
      BY <2>2 DEF SessionInv, Things
    <3> QED BY <3>2, <3>3 DEF SessionInv
  <2>6. (session # 0 => \A c \in committed \ unsynced : proxy[c] # 0)'
    <3> SUFFICES ASSUME NEW c \in committed', c \notin unsynced' PROVE proxy'[c] # 0
      OBVIOUS
    <3>1. c \in Techniques /\ c \in app /\ c \in committed /\ c \in live
      BY <2>0 DEF EstablishByParts, TypeOK, SessionInv
    <3> QED BY <2>2, <2>3, <3>1 DEF ShownOf
  <2>7. (committed \subseteq live /\ app \subseteq live)'
    BY <2>0 DEF EstablishByParts, SessionInv
  <2> QED BY <2>2, <2>4, <2>5, <2>6, <2>7 DEF SessionInv
<1>5. CASE DisconnectSession
  BY <1>5 DEF DisconnectSession, SessionInv, EmptyPeer, Things, bindVars
<1>6. ASSUME NEW t \in Techniques, GetBounded(t) PROVE SessionInv'
  BY <1>6 DEF GetBounded, SessionInv, bindVars
<1>7. CASE UNCHANGED <<session, live, app, committed, bindC, uniC, wanted, proxy, peer, unsynced>>
  BY <1>7 DEF SessionInv
<1>8. ASSUME NEW t \in Techniques, NEW b \in Points, NEW x \in Textures, NEW s \in Samplers,
             BindTexture(t, b, x, s)
      PROVE  SessionInv'
  BY <1>7, <1>8 DEF BindTexture
<1>9. ASSUME NEW t \in Techniques, NEW u, NEW size, NEW n, SetUniform(t, u, size, n)
      PROVE  SessionInv'
  BY <1>7, <1>9 DEF SetUniform, bindVars
<1>10. ASSUME NEW s \in Samplers, NEW p, NEW v, NEW size, SetParameter(s, p, v, size)
       PROVE  SessionInv'
  BY <1>7, <1>10 DEF SetParameter, bindVars
<1>11. ASSUME NEW x \in Textures, NEW k, Image2d(x, k) PROVE SessionInv'
  BY <1>7, <1>11 DEF Image2d, bindVars
<1>12. ASSUME NEW x \in Textures, GenerateMipmap(x) PROVE SessionInv'
  BY <1>7, <1>12 DEF GenerateMipmap, bindVars
<1>13. CASE UNCHANGED vars
  BY <1>7, <1>13 DEF vars, bindVars
<1> QED BY <1>1, <1>2, <1>3, <1>4, <1>5, <1>6, <1>8, <1>9, <1>10, <1>11, <1>12, <1>13
        DEF Next

----------------------------------------------------------------------------
(* Bindings                                                                *)

LEMMA WithoutExpiredAt ==
  ASSUME NEW list, NEW b \in Points
  PROVE  WithoutExpired(list)[b] = IF Alive(list[b]) THEN list[b] ELSE Nil
BY DEF WithoutExpired

LEMMA PendingStep ==
  ASSUME IInv, TypeOK', [Next]_vars
  PROVE  PendingInv'
<1> USE DEF IInv
<1>1. ASSUME NEW t \in Techniques, Commit(t) PROVE PendingInv'
  <2>0. CommitByParts(t)
    BY <1>1, CommitFields
  <2>1. \A z : Alive(z)' <=> Alive(z)
    BY <2>0 DEF CommitByParts, Alive
  <2>2. ASSUME NEW c \in Techniques, NEW b \in Points
        PROVE  /\ Alive(bindC'[c][b]) => bindP'[c][b] # Nil
               /\ ~rebound'[c] /\ (Alive(bindC'[c][b]) \/ Alive(bindP'[c][b])) =>
                    bindP'[c][b] = bindC'[c][b]
    <3>1. CASE c = t
      <4>1. bindC'[c] = CommitBindings(t) /\ bindP'[c] = WithoutExpired(bindP[t])
        BY <2>0, <3>1 DEF CommitByParts, TypeOK
      <4>2. bindP'[c][b] = IF Alive(bindP[t][b]) THEN bindP[t][b] ELSE Nil
        BY <4>1, WithoutExpiredAt
      <4>3. CASE rebound[t]
        BY <4>1, <4>2, <4>3 DEF CommitBindings, Alive
      <4>4. CASE ~rebound[t]
        <5>1. bindC'[c][b] = IF Alive(bindC[t][b]) THEN bindC[t][b] ELSE Nil
          BY <4>1, <4>4, WithoutExpiredAt DEF CommitBindings
        <5>2. Alive(bindC[t][b]) \/ Alive(bindP[t][b]) => bindP[t][b] = bindC[t][b]
          BY <4>4 DEF PendingInv
        <5> QED BY <4>2, <5>1, <5>2 DEF Alive
      <4> QED BY <4>3, <4>4
    <3>2. CASE c # t
      <4>1. bindC'[c] = bindC[c] /\ bindP'[c] = bindP[c] /\ rebound'[c] = rebound[c]
        BY <2>0, <3>2 DEF CommitByParts, TypeOK
      <4> QED BY <4>1 DEF PendingInv
    <3> QED BY <3>1, <3>2
  <2> QED BY <2>1, <2>2 DEF PendingInv
<1>2. ASSUME NEW t \in Techniques, NEW b \in Points, NEW x \in Textures, NEW s \in Samplers,
             BindTexture(t, b, x, s)
      PROVE  PendingInv'
  <2>0. /\ bindP' = [bindP EXCEPT ![t][b] = <<x, s>>] /\ rebound' = [rebound EXCEPT ![t] = TRUE]
        /\ bindC' = bindC /\ live' = live
    BY <1>2 DEF BindTexture
  <2>1. \A z : Alive(z)' <=> Alive(z)
    BY <2>0 DEF Alive
  <2>2. <<x, s>> # Nil
    BY NilAssumption DEF Binding
  <2>3. ASSUME NEW c \in Techniques, NEW d \in Points
        PROVE  /\ Alive(bindC'[c][d]) => bindP'[c][d] # Nil
               /\ ~rebound'[c] /\ (Alive(bindC'[c][d]) \/ Alive(bindP'[c][d])) =>
                    bindP'[c][d] = bindC'[c][d]
    <3>1. CASE c = t
      <4>1. rebound'[c] = TRUE
        BY <2>0, <3>1 DEF TypeOK
      <4>2. bindP'[c][d] = <<x, s>> \/ bindP'[c][d] = bindP[c][d]
        BY <2>0, <3>1 DEF TypeOK, Bindings
      <4> QED BY <2>0, <2>2, <4>1, <4>2 DEF PendingInv
    <3>2. CASE c # t
      <4>1. bindP'[c] = bindP[c] /\ rebound'[c] = rebound[c]
        BY <2>0, <3>2 DEF TypeOK
      <4> QED BY <2>0, <4>1 DEF PendingInv
    <3> QED BY <3>1, <3>2
  <2> QED BY <2>1, <2>3 DEF PendingInv
<1>3. ASSUME NEW r \in Textures \cup Samplers, Destroy(r) PROVE PendingInv'
  <2>1. bindP' = bindP /\ bindC' = bindC /\ rebound' = rebound /\ live' \subseteq live
    BY <1>3 DEF Destroy, bindVars
  <2>2. \A z : Alive(z)' => Alive(z)
    BY <2>1 DEF Alive
  <2> QED BY <2>1, <2>2 DEF PendingInv
<1>4. CASE ClientGone
  BY <1>4 DEF ClientGone, PendingInv, Unbound, Alive
<1>5. CASE EstablishSession
  <2>0. EstablishByParts
    BY <1>5, EstablishFields
  <2>1. \A z : Alive(z)' <=> Alive(z)
    BY <2>0 DEF EstablishByParts, Alive
  <2>2. ASSUME NEW c \in Techniques, NEW b \in Points
        PROVE  /\ Alive(bindC'[c][b]) => bindP'[c][b] # Nil
               /\ ~rebound'[c] /\ (Alive(bindC'[c][b]) \/ Alive(bindP'[c][b])) =>
                    bindP'[c][b] = bindC'[c][b]
    <3>1. bindP' = bindP /\ rebound' = rebound
      BY <2>0 DEF EstablishByParts
    <3>2. bindC'[c] = bindC[c] \/ bindC'[c] = WithoutExpired(bindC[c])
      BY <2>0 DEF EstablishByParts
    <3>3. \/ bindC'[c][b] = bindC[c][b]
          \/ bindC'[c][b] = Nil /\ ~Alive(bindC[c][b])
      BY <3>2, WithoutExpiredAt
    <3> QED BY <3>1, <3>3 DEF PendingInv, Alive
  <2> QED BY <2>1, <2>2 DEF PendingInv
<1>6. CASE UNCHANGED <<bindP, bindC, rebound, live>>
  BY <1>6 DEF PendingInv, Alive
<1>7. CASE DisconnectSession
  BY <1>6, <1>7 DEF DisconnectSession, bindVars
<1>8. ASSUME NEW t \in Techniques, GetBounded(t) PROVE PendingInv'
  BY <1>6, <1>8 DEF GetBounded, bindVars
<1>9. ASSUME NEW t \in Techniques, NEW u, NEW size, NEW n, SetUniform(t, u, size, n)
      PROVE  PendingInv'
  BY <1>6, <1>9 DEF SetUniform, bindVars
<1>10. ASSUME NEW s \in Samplers, NEW p, NEW v, NEW size, SetParameter(s, p, v, size)
       PROVE  PendingInv'
  BY <1>6, <1>10 DEF SetParameter, bindVars
<1>11. ASSUME NEW x \in Textures, NEW k, Image2d(x, k) PROVE PendingInv'
  BY <1>6, <1>11 DEF Image2d, bindVars
<1>12. ASSUME NEW x \in Textures, GenerateMipmap(x) PROVE PendingInv'
  BY <1>6, <1>12 DEF GenerateMipmap, bindVars
<1>13. CASE UNCHANGED vars
  BY <1>6, <1>13 DEF vars, bindVars
<1> QED BY <1>1, <1>2, <1>3, <1>4, <1>5, <1>7, <1>8, <1>9, <1>10, <1>11, <1>12, <1>13
        DEF Next

LEMMA BindingsStep ==
  ASSUME IInv, TypeOK', [Next]_vars
  PROVE  BindingsMirrored'
<1> USE DEF IInv
<1>1. ASSUME NEW t \in Techniques, Commit(t) PROVE BindingsMirrored'
  <2>0. CommitByParts(t)
    BY <1>1, CommitFields
  <2>1. \A z : Alive(z)' <=> Alive(z)
    BY <2>0 DEF CommitByParts, Alive
  <2>2. ASSUME NEW c \in Techniques, NEW b \in Points,
               proxy'[c] # 0, c \notin unsynced', <<c, b>> \notin dropped'
        PROVE  (IF Alive(peer'.bind[c][b]) THEN peer'.bind[c][b] ELSE Nil) =
               (IF Alive(bindC'[c][b]) THEN bindC'[c][b] ELSE Nil)
    <3> DEFINE at == peer.bind[c][b]
    <3>1. CASE c # t
      <4>1. /\ proxy[c] # 0 /\ c \notin unsynced /\ <<c, b>> \notin dropped
            /\ peer'.bind[c] = peer.bind[c]
        BY <2>0, <2>2, <3>1, CommitLeavesOthers
      <4>2. bindC'[c] = bindC[c]
        BY <2>0, <3>1 DEF CommitByParts, TypeOK
      <4> QED BY <4>1, <4>2, WithoutExpiredAt DEF BindingsMirrored
    <3>2. CASE c = t
      <4>0. session # 0
        <5>1. c \in Things
          BY DEF Things
        <5> QED BY <2>0, <2>2, <5>1 DEF CommitByParts, SessionInv
      <4>1. t \in app
        BY <2>0, <2>2, <3>2, <4>0 DEF CommitByParts
      <4>2. t \in ShownOf({t}) /\ SyncByParts({t}, FALSE, CommittedTex(t), rebound)
        BY <2>0, <4>0, <4>1, CommitSyncs DEF CommitByParts
      <4>3. bindC'[t] = CommitBindings(t) /\ SyncedBindings(t) = CommitBindings(t)
        BY <2>0, CommittedSynced
      <4>4. peer'.bind[t] = SendBindings(t, FALSE, rebound)
        BY <4>2 DEF SyncByParts
      <4>5. peer'.bind[t][b] = IF CommitBindings(t)[b] # Nil /\ rebound[t]
                               THEN CommitBindings(t)[b] ELSE peer.bind[t][b]
        BY <4>3, <4>4 DEF SendBindings
      <4>6. t \notin unsynced
        BY <2>0, <2>2, <3>2, <4>0, <4>1, Disjoint, InLists DEF CommitByParts
      <4>7. proxy[t] = 0 => peer.bind[t][b] = Nil /\ bindC[t][b] = Nil
        BY <4>0, <4>6 DEF SessionInv, Unbound
      <4>8. ~Alive(Nil)
        BY DEF Alive
      <4>9. CASE ~rebound[t]
        <5>1. <<t, b>> \notin dropped
          BY <2>0, <2>2, <3>2, <4>0, <4>9 DEF CommitByParts
        <5>2. bindC'[t][b] = IF Alive(bindC[t][b]) THEN bindC[t][b] ELSE Nil
          BY <4>3, <4>9, WithoutExpiredAt DEF CommitBindings
        <5>3. (IF Alive(peer.bind[t][b]) THEN peer.bind[t][b] ELSE Nil) =
              (IF Alive(bindC[t][b]) THEN bindC[t][b] ELSE Nil)
          <6>1. CASE proxy[t] = 0
            BY <4>7, <4>8, <6>1
          <6>2. CASE proxy[t] # 0
            BY <4>6, <5>1, <6>2, WithoutExpiredAt DEF BindingsMirrored
          <6> QED BY <6>1, <6>2
        <5> QED BY <3>2, <4>5, <4>8, <4>9, <5>2, <5>3
      <4>10. CASE rebound[t]
        <5>1. CommitBindings(t)[b] = IF Alive(bindP[t][b]) THEN bindP[t][b] ELSE Nil
          BY <4>10, WithoutExpiredAt DEF CommitBindings
        <5>2. CASE CommitBindings(t)[b] # Nil
          BY <3>2, <4>3, <4>5, <4>10, <5>2
        <5>3. CASE CommitBindings(t)[b] = Nil
          <6>1. ~Alive(bindP[t][b])
            BY <5>1, <5>3 DEF Alive
          <6>2. <<t, b>> \notin dropped /\ b \notin DroppedAt(t)
            BY <2>0, <2>2, <3>2, <4>0, <4>10, <5>3 DEF CommitByParts
          <6>3. bindP[t][b] = Nil \/ bindP[t][b] = bindC[t][b]
            BY <6>1, <6>2 DEF DroppedAt
          <6>4. ~Alive(bindC[t][b])
            BY <6>1, <6>3 DEF PendingInv
          <6>5. ~Alive(peer.bind[t][b])
            <7>1. CASE proxy[t] = 0
              BY <4>7, <4>8, <7>1
            <7>2. CASE proxy[t] # 0
              <8>1. (IF Alive(peer.bind[t][b]) THEN peer.bind[t][b] ELSE Nil) =
                    (IF Alive(bindC[t][b]) THEN bindC[t][b] ELSE Nil)
                BY <4>6, <6>2, <7>2, WithoutExpiredAt DEF BindingsMirrored
              <8> QED BY <6>4, <8>1 DEF Alive
            <7> QED BY <7>1, <7>2
          <6> QED BY <3>2, <4>3, <4>5, <4>8, <5>3, <6>5
        <5> QED BY <5>2, <5>3
      <4> QED BY <4>9, <4>10
    <3> QED BY <3>1, <3>2
  <2>3. \A list : \A b \in Points :
          WithoutExpired(list)'[b] = IF Alive(list'[b]) THEN list'[b] ELSE Nil
    BY <2>1 DEF WithoutExpired
  <2> QED BY <2>1, <2>2, WithoutExpiredAt DEF BindingsMirrored, WithoutExpired
<1>2. ASSUME NEW r \in Textures \cup Samplers, Destroy(r) PROVE BindingsMirrored'
  <2>0. /\ live' = live \ {r} /\ r \notin Techniques
        /\ unsynced' = unsynced \ {r} /\ proxy' = [proxy EXCEPT ![r] = 0]
        /\ dropped' = dropped /\ bindC' = bindC /\ peer'.bind = peer.bind
    BY <1>2, Disjoint DEF Destroy, bindVars
  <2>1. \A z : Alive(z)' => Alive(z)
    BY <2>0 DEF Alive
  <2>2. ASSUME NEW c \in Techniques, NEW b \in Points,
               proxy'[c] # 0, c \notin unsynced', <<c, b>> \notin dropped'
        PROVE  (IF Alive(peer.bind[c][b])' THEN peer'.bind[c][b] ELSE Nil) =
               (IF Alive(bindC[c][b])' THEN bindC'[c][b] ELSE Nil)
    <3>1. proxy[c] # 0 /\ c \notin unsynced /\ <<c, b>> \notin dropped
      BY <2>0, <2>2 DEF TypeOK, Things
    <3>2. (IF Alive(peer.bind[c][b]) THEN peer.bind[c][b] ELSE Nil) =
          (IF Alive(bindC[c][b]) THEN bindC[c][b] ELSE Nil)
      BY <3>1, WithoutExpiredAt DEF BindingsMirrored
    <3>3. /\ Alive(peer.bind[c][b])' => Alive(peer.bind[c][b])
          /\ Alive(bindC[c][b])' => Alive(bindC[c][b])
      BY <2>0 DEF Alive
    <3> QED BY <2>0, <3>2, <3>3 DEF Alive
  <2> QED BY <2>2 DEF BindingsMirrored, WithoutExpired
<1>3. CASE ClientGone
  BY <1>3 DEF ClientGone, BindingsMirrored, Things
<1>4. CASE EstablishSession
  <2>0. EstablishByParts
    BY <1>4, EstablishFields
  <2>1. \A z : Alive(z)' <=> Alive(z)
    BY <2>0 DEF EstablishByParts, Alive
  <2>2. SyncByParts(committed, TRUE, tex, rebound) /\ session = 0
    BY <2>0 DEF EstablishByParts
  <2>3. ASSUME NEW c \in Techniques, NEW b \in Points, proxy'[c] # 0
        PROVE  (IF Alive(peer'.bind[c][b]) THEN peer'.bind[c][b] ELSE Nil) =
               (IF Alive(bindC'[c][b]) THEN bindC'[c][b] ELSE Nil)
    <3>1. proxy[c] = 0
      BY <2>2 DEF SessionInv, Things
    <3>2. c \in ShownOf(committed)
      BY <2>2, <2>3, <3>1, ProxyOfTechnique
    <3>3. peer'.bind[c] = SendBindings(c, TRUE, rebound)
      BY <2>2, <3>2 DEF SyncByParts
    <3>4. peer.bind[c][b] = Nil
      BY <3>1 DEF SessionInv, Unbound
    <3>5. SyncedBindings(c)[b] = IF Alive(bindC'[c][b]) THEN bindC'[c][b] ELSE Nil
      BY WithoutExpiredAt DEF SyncedBindings
    <3>6. peer'.bind[c][b] = SyncedBindings(c)[b]
      BY <3>3, <3>4 DEF SendBindings
    <3> QED BY <3>5, <3>6 DEF Alive
  <2> QED BY <2>1, <2>3 DEF BindingsMirrored, WithoutExpired
<1>5. CASE DisconnectSession
  BY <1>5 DEF DisconnectSession, BindingsMirrored, Things
<1>6. CASE UNCHANGED <<bindC, live, proxy, peer, unsynced, dropped>>
  BY <1>6 DEF BindingsMirrored, WithoutExpired, Alive
<1>7. ASSUME NEW t \in Techniques, NEW b \in Points, NEW x \in Textures, NEW s \in Samplers,
             BindTexture(t, b, x, s)
      PROVE  BindingsMirrored'
  BY <1>6, <1>7 DEF BindTexture
<1>8. ASSUME NEW t \in Techniques, GetBounded(t) PROVE BindingsMirrored'
  BY <1>6, <1>8 DEF GetBounded, bindVars
<1>9. ASSUME NEW t \in Techniques, NEW u, NEW size, NEW n, SetUniform(t, u, size, n)
      PROVE  BindingsMirrored'
  BY <1>6, <1>9 DEF SetUniform, bindVars
<1>10. ASSUME NEW s \in Samplers, NEW p, NEW v, NEW size, SetParameter(s, p, v, size)
       PROVE  BindingsMirrored'
  BY <1>6, <1>10 DEF SetParameter, bindVars
<1>11. ASSUME NEW x \in Textures, NEW k, Image2d(x, k) PROVE BindingsMirrored'
  BY <1>6, <1>11 DEF Image2d, bindVars
<1>12. ASSUME NEW x \in Textures, GenerateMipmap(x) PROVE BindingsMirrored'
  BY <1>6, <1>12 DEF GenerateMipmap, bindVars
<1>13. CASE UNCHANGED vars
  BY <1>6, <1>13 DEF vars, bindVars
<1> QED BY <1>1, <1>2, <1>3, <1>4, <1>5, <1>7, <1>8, <1>9, <1>10, <1>11, <1>12, <1>13
        DEF Next

----------------------------------------------------------------------------
(* Textures and samplers                                                   *)

(* A texture after a sync, where it was sent and where it was not          *)
TextureSynced(x, O, force, texC) ==
  /\ x \in TexturesOf(O) =>
       /\ (force \/ texC[x].dataChanged) => peer'.image[x] = texC[x].image
       /\ (force \/ texC[x].mipChanged) /\ texC[x].mip => peer'.mip[x]
       /\ ~tex'[x].dataChanged /\ ~tex'[x].mipChanged
  /\ x \notin TexturesOf(O) =>
       /\ tex'[x].dataChanged = texC[x].dataChanged
       /\ tex'[x].mipChanged = texC[x].mipChanged
  /\ x \notin ImagesSent(O, force, texC) => peer'.image[x] = peer.image[x]
  /\ peer.mip[x] => peer'.mip[x]
  /\ tex'[x].image = texC[x].image /\ tex'[x].mip = texC[x].mip

LEMMA TextureSyncs ==
  ASSUME TypeOK, NEW O, NEW force \in BOOLEAN, NEW texC \in [Textures -> Texture],
         NEW chg, SyncByParts(O, force, texC, chg), NEW x \in Textures
  PROVE  TextureSynced(x, O, force, texC)
<1> DEFINE i == x \in ImagesSent(O, force, texC)
           m == x \in MipmapsSent(O, force, texC)
<1>1. tex'[x] = Cleared(texC[x], i, m)
  BY DEF SyncByParts
<1>2. i \in BOOLEAN /\ m \in BOOLEAN /\ texC[x] \in Texture
  OBVIOUS
<1>3. /\ i <=> x \in TexturesOf(O) /\ (force \/ texC[x].dataChanged)
      /\ m <=> x \in TexturesOf(O) /\ (force \/ texC[x].mipChanged)
  BY DEF ImagesSent, MipmapsSent
<1>4. /\ peer'.image[x] = IF i THEN texC[x].image ELSE peer.image[x]
      /\ peer'.mip[x] = (peer.mip[x] \/ (m /\ texC[x].mip))
  BY DEF SyncByParts
<1>5. texC[x].dataChanged \in BOOLEAN /\ texC[x].mipChanged \in BOOLEAN
  BY <1>2 DEF Texture
<1>6. ~i => peer'.image[x] = peer.image[x]
  BY <1>4
<1> DEFINE ii == x \in ImagesSent(O, force, texC)
<1>7. ii <=> i
  OBVIOUS
<1> HIDE DEF i, m
<1>8. /\ tex'[x].image = texC[x].image /\ tex'[x].mip = texC[x].mip
      /\ tex'[x].dataChanged <=> texC[x].dataChanged /\ ~i
      /\ tex'[x].mipChanged <=> texC[x].mipChanged /\ ~m
      /\ tex'[x] \in Texture
  BY <1>1, <1>2, ClearedTyped
<1>9. tex'[x].dataChanged \in BOOLEAN /\ tex'[x].mipChanged \in BOOLEAN
  BY <1>8 DEF Texture
<1> QED BY <1>3, <1>4, <1>5, <1>6, <1>7, <1>8, <1>9 DEF TextureSynced

LEMMA TextureStep ==
  ASSUME IInv, TypeOK', [Next]_vars
  PROVE  TextureInv'
<1> USE DEF IInv
<1>1. ASSUME NEW t \in Techniques, Commit(t) PROVE TextureInv'
  <2>0. CommitByParts(t)
    BY <1>1, CommitFields
  <2>1. CASE session = 0
    BY <2>0, <2>1 DEF CommitByParts, SessionInv, TextureInv, Things
  <2>2. CASE session # 0
    <3> DEFINE texC == CommittedTex(t)
               X == TexturesIn(CommitBindings(t))
    <3>1. SyncByParts({t}, FALSE, texC, rebound) /\ texC \in [Textures -> Texture]
      BY <2>0, <2>2, CommittedTexTyped DEF CommitByParts
    <3>2. ASSUME NEW x \in Textures
          PROVE  /\ proxy'[x] # 0 /\ x \notin unsynced' => ~tex'[x].dataChanged /\ ~tex'[x].mipChanged
                 /\ ~tex'[x].dataChanged /\ tex'[x].image # 0 /\ <<x, "image">> \notin missed' =>
                      peer'.image[x] = tex'[x].image
                 /\ ~tex'[x].mipChanged /\ tex'[x].mip /\ <<x, "mipmap">> \notin missed' =>
                      peer'.mip[x]
      <4>1. TextureSynced(x, {t}, FALSE, texC)
        <5> HIDE DEF texC
        <5> QED BY <3>1, TextureSyncs
      <4>2. x \notin X => texC[x] = tex[x]
        BY DEF CommittedTex
      <4>3. /\ ~texC[x].dataChanged => ~tex[x].dataChanged /\ texC[x].image = tex[x].image
            /\ ~texC[x].mipChanged => ~tex[x].mipChanged /\ texC[x].mip = tex[x].mip
        <5>1. tex[x].mip \in BOOLEAN /\ tex[x].pMip \in BOOLEAN
          BY DEF TypeOK, Texture
        <5>2. CASE x \in X
          <6>1. texC[x] = CommitTexture(x)
            BY <5>2 DEF CommittedTex
          <6> HIDE DEF texC, X
          <6>2. /\ ~CommitTexture(x).dataChanged =>
                     ~tex[x].dataChanged /\ CommitTexture(x).image = tex[x].image
                /\ ~CommitTexture(x).mipChanged =>
                     ~tex[x].mipChanged /\ CommitTexture(x).mip = tex[x].mip
            BY CommitTextureTyped
          <6> QED BY <6>1, <6>2
        <5>3. CASE x \notin X
          BY <4>2, <5>3
        <5> QED BY <5>2, <5>3
      <4>4. /\ <<x, "image">> \notin missed' =>
                 <<x, "image">> \notin missed \/ x \in ImagesSent({t}, FALSE, texC)
            /\ <<x, "mipmap">> \notin missed' =>
                 <<x, "mipmap">> \notin missed \/ x \in MipmapsSent({t}, FALSE, texC)
        <5>1. missed' = (missed \ (ImagesSent({t}, FALSE, texC) \X {"image"}))
                          \ (MipmapsSent({t}, FALSE, texC) \X {"mipmap"})
          BY <2>0, <2>2 DEF CommitByParts
        <5>2. "image" # "mipmap"
          OBVIOUS
        <5> HIDE DEF texC
        <5> QED BY <5>1, <5>2
      <4>5. /\ x \in ImagesSent({t}, FALSE, texC) => x \in TexturesOf({t}) /\ texC[x].dataChanged
            /\ x \in MipmapsSent({t}, FALSE, texC) => x \in TexturesOf({t}) /\ texC[x].mipChanged
        BY DEF ImagesSent, MipmapsSent
      <4>6. proxy'[x] # 0 /\ x \notin unsynced' /\ x \notin TexturesOf({t}) =>
              proxy[x] # 0 /\ x \notin unsynced /\ x \notin X
        <5> SUFFICES ASSUME proxy'[x] # 0, x \notin unsynced', x \notin TexturesOf({t})
                     PROVE  proxy[x] # 0 /\ x \notin unsynced /\ x \notin X
          OBVIOUS
        <5>1. proxy[x] # 0
          BY <3>1, ProxyOfTexture
        <5>2. CASE t \in app
          <6>1. x \notin X
            BY <2>0, <5>2, CommitSyncs
          <6>2. x \notin SamplersIn(CommitBindings(t))
            BY Disjoint, InLists
          <6> QED BY <2>0, <2>2, <5>1, <5>2, <6>1, <6>2 DEF CommitByParts
        <5>3. CASE t \notin app
          BY <2>0, <2>2, <5>1, <5>3 DEF CommitByParts
        <5> QED BY <5>2, <5>3
      <4>7. proxy[x] # 0 /\ x \notin unsynced => ~tex[x].dataChanged /\ ~tex[x].mipChanged
        BY DEF TextureInv
      <4>8. ~tex[x].dataChanged /\ tex[x].image # 0 /\ <<x, "image">> \notin missed =>
              peer.image[x] = tex[x].image
        BY <2>2 DEF TextureInv
      <4>9. ~tex[x].mipChanged /\ tex[x].mip /\ <<x, "mipmap">> \notin missed => peer.mip[x]
        BY <2>2 DEF TextureInv
      <4> HIDE DEF texC, X, IInv
      <4>10. /\ proxy'[x] # 0 /\ x \notin unsynced' => ~tex'[x].dataChanged /\ ~tex'[x].mipChanged
        BY <4>1, <4>2, <4>6, <4>7 DEF TextureSynced
      <4>11. ~tex'[x].dataChanged /\ tex'[x].image # 0 /\ <<x, "image">> \notin missed' =>
               peer'.image[x] = tex'[x].image
        BY <4>1, <4>3, <4>4, <4>5, <4>8 DEF TextureSynced, ImagesSent
      <4>12. ~tex'[x].mipChanged /\ tex'[x].mip /\ <<x, "mipmap">> \notin missed' => peer'.mip[x]
        BY <4>1, <4>3, <4>4, <4>5, <4>9 DEF TextureSynced
      <4> QED BY <4>10, <4>11, <4>12
    <3> QED BY <3>2 DEF TextureInv
  <2> QED BY <2>1, <2>2
<1>2. ASSUME NEW r \in Textures \cup Samplers, Destroy(r) PROVE TextureInv'
  <2>1. ASSUME NEW x \in Textures, x # r
        PROVE  /\ proxy'[x] = proxy[x] /\ tex'[x] = tex[x]
               /\ peer'.image[x] = peer.image[x] /\ peer'.mip[x] = peer.mip[x]
               /\ x \in unsynced' <=> x \in unsynced
               /\ <<x, "image">> \in missed' <=> <<x, "image">> \in missed
               /\ <<x, "mipmap">> \in missed' <=> <<x, "mipmap">> \in missed
    <3>1. missed' = missed \ ({r} \X {"image", "mipmap"}) /\ unsynced' = unsynced \ {r}
      BY <1>2 DEF Destroy
    <3>2. proxy'[x] = proxy[x] /\ tex'[x] = tex[x]
      BY <1>2, <2>1 DEF Destroy, TypeOK, Things
    <3>3. peer'.image[x] = peer.image[x]
      BY <1>2, <2>1 DEF Destroy
    <3>4. peer'.mip[x] = peer.mip[x]
      <4>1. peer'.mip = [y \in Textures |-> y # r /\ peer.mip[y]]
        BY <1>2 DEF Destroy
      <4>2. peer.mip[x] \in BOOLEAN
        BY DEF TypeOK, Peer
      <4> QED BY <2>1, <4>1, <4>2
    <3>5. <<x, "image">> \notin {r} \X {"image", "mipmap"}
      BY <2>1
    <3>6. <<x, "mipmap">> \notin {r} \X {"image", "mipmap"}
      BY <2>1
    <3> HIDE DEF IInv
    <3> QED BY <2>1, <3>1, <3>2, <3>3, <3>4, <3>5, <3>6
  <2>2. r \in Textures => tex'[r] = NewTexture
    BY <1>2 DEF Destroy
  <2>3. session' = session
    BY <1>2 DEF Destroy
  <2>4. ASSUME NEW x \in Textures
        PROVE  /\ proxy'[x] # 0 /\ x \notin unsynced' => ~tex'[x].dataChanged /\ ~tex'[x].mipChanged
               /\ session' # 0 /\ ~tex'[x].dataChanged /\ tex'[x].image # 0
                  /\ <<x, "image">> \notin missed' => peer'.image[x] = tex'[x].image
               /\ session' # 0 /\ ~tex'[x].mipChanged /\ tex'[x].mip
                  /\ <<x, "mipmap">> \notin missed' => peer'.mip[x]
    <3>1. CASE x = r
      BY <2>2, <3>1 DEF NewTexture
    <3>2. CASE x # r
      BY <2>1, <2>3, <3>2 DEF TextureInv
    <3> QED BY <3>1, <3>2
  <2> QED BY <2>4 DEF TextureInv
<1>3. CASE ClientGone
  BY <1>3 DEF ClientGone, TextureInv, NewTexture, Things
<1>4. CASE EstablishSession
  <2>0. EstablishByParts
    BY <1>4, EstablishFields
  <2>1. SyncByParts(committed, TRUE, tex, rebound) /\ tex \in [Textures -> Texture] /\ session = 0
    BY <2>0 DEF EstablishByParts, TypeOK
  <2>2. ASSUME NEW x \in Textures
        PROVE  /\ proxy'[x] # 0 => ~tex'[x].dataChanged /\ ~tex'[x].mipChanged
               /\ <<x, "image">> \notin missed' => peer'.image[x] = tex'[x].image
               /\ tex'[x].mip /\ <<x, "mipmap">> \notin missed' => peer'.mip[x]
    <3>1. TextureSynced(x, committed, TRUE, tex)
      BY <2>1, TextureSyncs
    <3>2. proxy[x] = 0
      BY <2>1 DEF SessionInv, Things
    <3>3. proxy'[x] # 0 => x \in TexturesOf(committed)
      BY <2>1, <3>2, ProxyOfTexture
    <3>4. /\ <<x, "image">> \notin missed' => x \in TexturesOf(committed)
          /\ <<x, "mipmap">> \notin missed' => x \in TexturesOf(committed)
      BY <2>0 DEF EstablishByParts
    <3> QED BY <3>1, <3>3, <3>4 DEF TextureSynced
  <2> QED BY <2>2 DEF TextureInv
<1>5. CASE DisconnectSession
  BY <1>5 DEF DisconnectSession, TextureInv, Things
<1>6. ASSUME NEW x \in Textures, NEW k \in 0..MaxVersion, Image2d(x, k) PROVE TextureInv'
  <2>1. \A y \in Textures :
          /\ tex'[y].dataChanged = tex[y].dataChanged /\ tex'[y].mipChanged = tex[y].mipChanged
          /\ tex'[y].image = tex[y].image /\ tex'[y].mip = tex[y].mip
    <3>1. tex' = [tex EXCEPT ![x] = [tex[x] EXCEPT !.pImage = k]]
      BY <1>6 DEF Image2d
    <3> DEFINE new == [tex[x] EXCEPT !.pImage = k]
    <3>2. /\ new.dataChanged = tex[x].dataChanged /\ new.mipChanged = tex[x].mipChanged
          /\ new.image = tex[x].image /\ new.mip = tex[x].mip
      BY DEF TypeOK, Texture
    <3> HIDE DEF new
    <3> QED BY <3>1, <3>2 DEF TypeOK
  <2>2. UNCHANGED <<session, proxy, peer, unsynced, missed>>
    BY <1>6 DEF Image2d
  <2> HIDE DEF IInv
  <2> QED BY <2>1, <2>2 DEF TextureInv, IInv
<1>7. ASSUME NEW x \in Textures, GenerateMipmap(x) PROVE TextureInv'
  <2>1. \A y \in Textures :
          /\ tex'[y].dataChanged = tex[y].dataChanged /\ tex'[y].mipChanged = tex[y].mipChanged
          /\ tex'[y].image = tex[y].image /\ tex'[y].mip = tex[y].mip
    <3>1. tex' = [tex EXCEPT ![x] = [tex[x] EXCEPT !.pMip = TRUE]]
      BY <1>7 DEF GenerateMipmap
    <3> DEFINE new == [tex[x] EXCEPT !.pMip = TRUE]
    <3>2. /\ new.dataChanged = tex[x].dataChanged /\ new.mipChanged = tex[x].mipChanged
          /\ new.image = tex[x].image /\ new.mip = tex[x].mip
      BY DEF TypeOK, Texture
    <3> HIDE DEF new
    <3> QED BY <3>1, <3>2 DEF TypeOK
  <2>2. UNCHANGED <<session, proxy, peer, unsynced, missed>>
    BY <1>7 DEF GenerateMipmap
  <2> HIDE DEF IInv
  <2> QED BY <2>1, <2>2 DEF TextureInv, IInv
<1>8. CASE UNCHANGED <<session, tex, proxy, peer, unsynced, missed>>
  BY <1>8 DEF TextureInv
<1>9. ASSUME NEW t \in Techniques, NEW b \in Points, NEW x \in Textures, NEW s \in Samplers,
             BindTexture(t, b, x, s)
      PROVE  TextureInv'
  BY <1>8, <1>9 DEF BindTexture
<1>10. ASSUME NEW t \in Techniques, GetBounded(t) PROVE TextureInv'
  BY <1>8, <1>10 DEF GetBounded, bindVars
<1>11. ASSUME NEW t \in Techniques, NEW u, NEW size, NEW n, SetUniform(t, u, size, n)
       PROVE  TextureInv'
  BY <1>8, <1>11 DEF SetUniform, bindVars
<1>12. ASSUME NEW s \in Samplers, NEW p, NEW v, NEW size, SetParameter(s, p, v, size)
       PROVE  TextureInv'
  BY <1>8, <1>12 DEF SetParameter, bindVars
<1>13. CASE UNCHANGED vars
  BY <1>8, <1>13 DEF vars, bindVars
<1> QED BY <1>1, <1>2, <1>3, <1>4, <1>5, <1>6, <1>7, <1>9, <1>10, <1>11, <1>12, <1>13
        DEF Next

LEMMA SamplerStep ==
  ASSUME IInv, TypeOK', [Next]_vars
  PROVE  SamplerInv'
<1> USE DEF IInv
<1> DEFINE Sent(s, p) ==
      /\ paramC[s][p] = Nil => peer.param[s][p] = Nil
      /\ proxy[s] # 0 /\ s \notin unsynced => peer.param[s][p] = paramC[s][p]
<1>0. /\ \A s \in Samplers, p \in Pnames : Sent(s, p)
      /\ (\A s \in Samplers, p \in Pnames : Sent(s, p)') => SamplerInv'
  BY DEF SamplerInv, SamplersMirrored
<1>1. ASSUME NEW t \in Techniques, Commit(t) PROVE SamplerInv'
  <2>0. CommitByParts(t)
    BY <1>1, CommitFields
  <2> SUFFICES ASSUME NEW s \in Samplers, NEW p \in Pnames
               PROVE  /\ paramC'[s][p] = Nil => peer'.param[s][p] = Nil
                      /\ proxy'[s] # 0 /\ s \notin unsynced' => peer'.param[s][p] = paramC'[s][p]
    BY <1>0
  <2> DEFINE S == SamplersIn(CommitBindings(t))
  <2>1. paramC'[s] = IF s \in S THEN CommitParams(s) ELSE paramC[s]
    BY <2>0 DEF CommitByParts
  <2>2. paramC'[s][p] = Nil => paramC[s][p] = Nil
    BY <2>1 DEF CommitParams
  <2>3. CASE session = 0
    <3>1. peer' = peer /\ proxy' = proxy /\ proxy[s] = 0
      BY <2>0, <2>3 DEF CommitByParts, SessionInv, Things
    <3> QED BY <1>0, <2>2, <3>1
  <2>4. CASE session # 0
    <3>1. SyncByParts({t}, FALSE, CommittedTex(t), rebound)
      BY <2>0, <2>4 DEF CommitByParts
    <3>2. CASE s \in SamplersOf({t})
      <4>1. peer'.param[s][p] = IF paramC'[s][p] # Nil THEN paramC'[s][p] ELSE peer.param[s][p]
        BY <3>1, <3>2 DEF SyncByParts, SendParams
      <4> QED BY <1>0, <2>2, <4>1
    <3>3. CASE s \notin SamplersOf({t})
      <4>1. peer'.param[s] = peer.param[s] /\ proxy'[s] = proxy[s]
        <5>1. proxy'[s] = proxy[s]
          BY <3>1, <3>3, ProxyOfSampler
        <5>2. peer'.param[s] = peer.param[s]
          BY <3>1, <3>3 DEF SyncByParts
        <5> QED BY <5>1, <5>2
      <4>2. s \notin unsynced' => s \notin S /\ s \notin unsynced
        <5>1. CASE t \in app
          <6>1. s \notin S
            BY <2>0, <3>3, <5>1, CommitSyncs
          <6>2. s \notin TexturesIn(CommitBindings(t))
            BY Disjoint, InLists
          <6> QED BY <2>0, <2>4, <5>1, <6>1, <6>2 DEF CommitByParts
        <5>2. CASE t \notin app
          BY <2>0, <2>4, <5>2 DEF CommitByParts
        <5> QED BY <5>1, <5>2
      <4> HIDE DEF S
      <4> QED BY <1>0, <2>1, <2>2, <4>1, <4>2
    <3> QED BY <3>2, <3>3
  <2> QED BY <2>3, <2>4
<1>2. ASSUME NEW r \in Textures \cup Samplers, Destroy(r) PROVE SamplerInv'
  <2> SUFFICES ASSUME NEW s \in Samplers, NEW p \in Pnames
               PROVE  /\ paramC'[s][p] = Nil => peer'.param[s][p] = Nil
                      /\ proxy'[s] # 0 /\ s \notin unsynced' => peer'.param[s][p] = paramC'[s][p]
    BY <1>0
  <2>1. CASE s = r
    <3>1. paramC'[s] = NoParams /\ peer'.param[s] = NoParams
      BY <1>2, <2>1 DEF Destroy
    <3> QED BY <3>1 DEF NoParams
  <2>2. CASE s # r
    <3>1. paramC'[s] = paramC[s] /\ peer'.param[s] = peer.param[s]
      BY <1>2, <2>2 DEF Destroy
    <3>2. proxy'[s] = proxy[s] /\ (s \in unsynced' <=> s \in unsynced)
      BY <1>2, <2>2 DEF Destroy, TypeOK, Things
    <3> QED BY <1>0, <3>1, <3>2
  <2> QED BY <2>1, <2>2
<1>3. CASE ClientGone
  BY <1>0, <1>3 DEF ClientGone, EmptyPeer, NoParams, Things
<1>4. CASE EstablishSession
  <2>0. EstablishByParts
    BY <1>4, EstablishFields
  <2>1. SyncByParts(committed, TRUE, tex, rebound) /\ session = 0 /\ paramC' = paramC
    BY <2>0 DEF EstablishByParts
  <2> SUFFICES ASSUME NEW s \in Samplers, NEW p \in Pnames
               PROVE  /\ paramC'[s][p] = Nil => peer'.param[s][p] = Nil
                      /\ proxy'[s] # 0 /\ s \notin unsynced' => peer'.param[s][p] = paramC'[s][p]
    BY <1>0
  <2>2. proxy[s] = 0
    BY <2>1 DEF SessionInv, Things
  <2>3. CASE s \in SamplersOf(committed)
    <3>1. peer'.param[s][p] = IF paramC'[s][p] # Nil THEN paramC'[s][p] ELSE peer.param[s][p]
      BY <2>1, <2>3 DEF SyncByParts, SendParams
    <3> QED BY <1>0, <2>1, <3>1
  <2>4. CASE s \notin SamplersOf(committed)
    <3>1. peer'.param[s] = peer.param[s] /\ proxy'[s] = 0
      <4>1. proxy'[s] = 0
        BY <2>1, <2>2, <2>4, ProxyOfSampler
      <4>2. peer'.param[s] = peer.param[s]
        BY <2>1, <2>4 DEF SyncByParts
      <4> QED BY <4>1, <4>2
    <3> QED BY <1>0, <2>1, <3>1
  <2> QED BY <2>3, <2>4
<1>5. CASE DisconnectSession
  BY <1>0, <1>5 DEF DisconnectSession, EmptyPeer, NoParams, Things
<1>6. CASE UNCHANGED <<paramC, proxy, peer, unsynced>>
  BY <1>6 DEF SamplerInv, SamplersMirrored
<1>7. ASSUME NEW t \in Techniques, NEW b \in Points, NEW x \in Textures, NEW s \in Samplers,
             BindTexture(t, b, x, s)
      PROVE  SamplerInv'
  BY <1>6, <1>7 DEF BindTexture
<1>8. ASSUME NEW t \in Techniques, GetBounded(t) PROVE SamplerInv'
  BY <1>6, <1>8 DEF GetBounded, bindVars
<1>9. ASSUME NEW t \in Techniques, NEW u, NEW size, NEW n, SetUniform(t, u, size, n)
      PROVE  SamplerInv'
  BY <1>6, <1>9 DEF SetUniform, bindVars
<1>10. ASSUME NEW s \in Samplers, NEW p, NEW v, NEW size, SetParameter(s, p, v, size)
       PROVE  SamplerInv'
  BY <1>6, <1>10 DEF SetParameter, bindVars
<1>11. ASSUME NEW x \in Textures, NEW k, Image2d(x, k) PROVE SamplerInv'
  BY <1>6, <1>11 DEF Image2d, bindVars
<1>12. ASSUME NEW x \in Textures, GenerateMipmap(x) PROVE SamplerInv'
  BY <1>6, <1>12 DEF GenerateMipmap, bindVars
<1>13. CASE UNCHANGED vars
  BY <1>6, <1>13 DEF vars, bindVars
<1> QED BY <1>1, <1>2, <1>3, <1>4, <1>5, <1>7, <1>8, <1>9, <1>10, <1>11, <1>12, <1>13
        DEF Next

----------------------------------------------------------------------------
(* Uniforms                                                                *)

LEMMA NamedStep ==
  ASSUME TypeOK, NamedOnce, [Next]_vars
  PROVE  NamedOnce'
<1>1. ASSUME NEW t \in Techniques, Commit(t) PROVE NamedOnce'
  <2>0. CommitByParts(t)
    BY <1>1, CommitFields
  <2>1. PICK m \in Merged(uniC[t], uniP[t]) : uniC' = [uniC EXCEPT ![t] = m]
    BY <2>0 DEF CommitByParts
  <2>2. uniC[t] \in Seq(Entry) /\ uniP[t] \in Seq(Uniform)
    BY DEF TypeOK
  <2>3. \A i, j \in DOMAIN uniC[t] :
          uniC[t][i].u.at = uniC[t][j].u.at /\ uniC[t][i].u.at \in Names => i = j
    BY DEF NamedOnce
  <2>4. \A i, j \in DOMAIN m : m[i].u.at = m[j].u.at /\ m[i].u.at \in Names => i = j
    BY <2>2, <2>3, MergedOnce
  <2>5. \A c \in Techniques : uniC'[c] = IF c = t THEN m ELSE uniC[c]
    BY <2>1 DEF TypeOK
  <2> QED BY <2>4, <2>5 DEF NamedOnce
<1>2. CASE ClientGone
  BY <1>2 DEF ClientGone, NamedOnce
<1>3. CASE UNCHANGED uniC
  BY <1>3 DEF NamedOnce
<1>4. ASSUME ~(\E t \in Techniques : Commit(t)), ~ClientGone PROVE UNCHANGED uniC
  BY <1>4 DEF Next, GetBounded, BindTexture, SetUniform, SetParameter, Image2d, GenerateMipmap,
     Destroy, EstablishSession, DisconnectSession, vars, bindVars
<1> QED BY <1>1, <1>2, <1>3, <1>4

(* What is committed for a location when t is: the last that was pending   *)
(* for it, at the end of what the list has for it and new, or else what    *)
(* there was.                                                              *)
LEMMA WantedAt ==
  ASSUME TypeOK, NEW t \in Techniques, NEW l \in Locations
  PROVE  \/ /\ \A p \in DOMAIN uniP[t] : Slot(uniP[t][p]) # l
            /\ Wanted(t)[l] = wanted[t][l]
         \/ \E p \in DOMAIN uniP[t] : IsLast(uniP[t], l, p) /\ Wanted(t)[l] = uniP[t][p]
<1> DEFINE list == uniP[t]
           there == {i \in DOMAIN list : Slot(list[i]) = l}
<1>1. list \in Seq(Uniform) /\ Len(list) \in Nat /\ DOMAIN list = 1..Len(list)
  BY DEF TypeOK
<1>2. Wanted(t)[l] = IF there = {} THEN wanted[t][l] ELSE list[LastOf(there)]
  BY DEF Wanted
<1>3. CASE there = {}
  BY <1>2, <1>3
<1>4. CASE there # {}
  <2>1. LastOf(there) \in there /\ \A j \in there : j <= LastOf(there)
    <3>1. there \subseteq 1..Len(list)
      BY <1>1
    <3> HIDE DEF there, list
    <3> QED BY <1>1, <1>4, <3>1, LastOfExists
  <2>2. IsLast(list, l, LastOf(there))
    BY <2>1 DEF IsLast
  <2>3. LastOf(there) \in DOMAIN list /\ Wanted(t)[l] = list[LastOf(there)]
    BY <1>2, <1>4, <2>1
  <2> HIDE DEF there
  <2> QED BY <2>2, <2>3
<1> QED BY <1>3, <1>4

(* The uniform sent for a location is the last of the list, if it is sent. *)
LEMMA SentLast ==
  ASSUME NEW t \in Techniques, NEW force, NEW l \in Locations, uniC'[t] \in Seq(Entry),
         NEW i \in DOMAIN uniC'[t], IsLastCommitted(uniC'[t], l, i), force \/ uniC'[t][i].new
  PROVE  SendUniforms(t, force)[l] = SentValue(uniC'[t][i].u)
<1> DEFINE list == uniC'[t]
           there == {k \in {j \in DOMAIN list : force \/ list[j].new} : Slot(list[k].u) = l}
<1>1. SendUniforms(t, force)[l] =
        IF there = {} THEN peer.uniform[t][l] ELSE SentValue(list[LastOf(there)].u)
  BY DEF SendUniforms, SendEach
<1>2. i \in there /\ \A j \in there : j <= i
  BY DEF IsLastCommitted
<1>3. there \subseteq Nat
  OBVIOUS
<1>4. LastOf(there) = i
  <2> HIDE DEF there, list
  <2> QED BY <1>2, <1>3, LastOfIs
<1> HIDE DEF there
<1> QED BY <1>1, <1>2, <1>4

LEMMA SentNothing ==
  ASSUME NEW t \in Techniques, NEW force, NEW l \in Locations,
         \A i \in DOMAIN uniC'[t] : Slot(uniC'[t][i].u) = l => ~(force \/ uniC'[t][i].new)
  PROVE  SendUniforms(t, force)[l] = peer.uniform[t][l]
<1> DEFINE list == uniC'[t]
           there == {k \in {j \in DOMAIN list : force \/ list[j].new} : Slot(list[k].u) = l}
<1>1. SendUniforms(t, force)[l] =
        IF there = {} THEN peer.uniform[t][l] ELSE SentValue(list[LastOf(there)].u)
  BY DEF SendUniforms, SendEach
<1>2. there = {}
  OBVIOUS
<1> HIDE DEF there
<1> QED BY <1>1, <1>2

UniformAt(t, l) ==
  /\ wanted[t][l] = Nil => \A i \in DOMAIN uniC[t] : Slot(uniC[t][i].u) # l
  /\ wanted[t][l] # Nil =>
       \E i \in DOMAIN uniC[t] : IsLastCommitted(uniC[t], l, i) /\ uniC[t][i].u = wanted[t][l]
  /\ proxy[t] # 0 /\ t \notin unsynced =>
       peer.uniform[t][l] =
         IF wanted[t][l] = Nil THEN Nil ELSE SentValue(wanted[t][l])

LEMMA UniformCommit ==
  ASSUME IInv, TypeOK', NEW t \in Techniques, CommitByParts(t), NEW l \in Locations
  PROVE  UniformAt(t, l)'
<1>1. PICK m \in Merged(uniC[t], uniP[t]) : uniC' = [uniC EXCEPT ![t] = m]
  BY DEF CommitByParts
<1>2. uniC[t] \in Seq(Entry) /\ uniP[t] \in Seq(Uniform) /\ uniC'[t] = m
  BY <1>1 DEF IInv, TypeOK
<1>3. uniC'[t] \in Seq(Entry)
  BY DEF TypeOK
<1>4. wanted'[t][l] = Wanted(t)[l]
  BY DEF CommitByParts, IInv, TypeOK
<1>5. /\ wanted[t][l] = Nil => \A i \in DOMAIN uniC[t] : Slot(uniC[t][i].u) # l
      /\ wanted[t][l] # Nil =>
           \E i \in DOMAIN uniC[t] : IsLastCommitted(uniC[t], l, i) /\ uniC[t][i].u = wanted[t][l]
  BY DEF IInv, UniformInv
(* what is asked of the peer                                               *)
<1>6. ASSUME proxy'[t] # 0, t \notin unsynced'
      PROVE  /\ peer'.uniform[t] = SendUniforms(t, FALSE)
             /\ \/ proxy[t] # 0 /\ t \notin unsynced
                \/ wanted[t][l] = Nil /\ peer.uniform[t][l] = Nil
  <2>1. session # 0
    <3>1. t \in Things
      BY DEF Things
    <3> QED BY <1>6, <3>1 DEF CommitByParts, IInv, SessionInv
  <2>2. t \in app
    BY <1>6, <2>1 DEF CommitByParts
  <2>3. t \in ShownOf({t})
    BY <2>2, CommitSyncs DEF IInv
  <2>4. SyncByParts({t}, FALSE, CommittedTex(t), rebound)
    BY <2>1 DEF CommitByParts
  <2>5. peer'.uniform[t] = SendUniforms(t, FALSE)
    BY <2>3, <2>4 DEF SyncByParts
  <2>6. t \notin unsynced
    BY <1>6, <2>1, <2>2, Disjoint, InLists DEF CommitByParts
  <2>7. CASE proxy[t] # 0
    BY <2>5, <2>6, <2>7
  <2>8. CASE proxy[t] = 0
    BY <2>1, <2>5, <2>6, <2>8 DEF IInv, SessionInv
  <2> QED BY <2>7, <2>8
<1>7. CASE /\ \A p \in DOMAIN uniP[t] : Slot(uniP[t][p]) # l
           /\ Wanted(t)[l] = wanted[t][l]
  <2>1. /\ \A i \in DOMAIN m : Slot(m[i].u) = l =>
             m[i].new = FALSE /\ \E k \in DOMAIN uniC[t] : m[i].u = uniC[t][k].u
        /\ \A k \in DOMAIN uniC[t] : IsLastCommitted(uniC[t], l, k) =>
             \E i \in DOMAIN m : IsLastCommitted(m, l, i) /\ m[i].u = uniC[t][k].u
    <3>1. NothingFor(uniP[t], l)
      BY <1>7 DEF NothingFor
    <3>2. IsAsBefore(m, uniC[t], l)
      BY <1>1, <1>2, <3>1, MergedAsBefore
    <3> QED BY <3>2 DEF IsAsBefore
  <2>2. wanted'[t][l] = Nil => \A i \in DOMAIN uniC'[t] : Slot(uniC'[t][i].u) # l
    BY <1>2, <1>4, <1>5, <1>7, <2>1
  <2>3. wanted'[t][l] # Nil =>
          \E i \in DOMAIN uniC'[t] :
            IsLastCommitted(uniC'[t], l, i) /\ uniC'[t][i].u = wanted'[t][l]
    BY <1>2, <1>4, <1>5, <1>7, <2>1
  <2>4. ASSUME proxy'[t] # 0, t \notin unsynced'
        PROVE  peer'.uniform[t][l] =
                 IF wanted'[t][l] = Nil THEN Nil ELSE SentValue(wanted'[t][l])
    <3>1. \A i \in DOMAIN uniC'[t] : Slot(uniC'[t][i].u) = l => ~(FALSE \/ uniC'[t][i].new)
      BY <1>2, <2>1
    <3>2. SendUniforms(t, FALSE)[l] = peer.uniform[t][l]
      BY <3>1, SentNothing
    <3>3. peer'.uniform[t][l] = peer.uniform[t][l]
      BY <1>6, <2>4, <3>2
    <3>4. CASE proxy[t] # 0 /\ t \notin unsynced
      BY <1>4, <1>7, <3>3, <3>4 DEF IInv, UniformInv
    <3>5. CASE wanted[t][l] = Nil /\ peer.uniform[t][l] = Nil
      BY <1>4, <1>7, <3>3, <3>5
    <3> QED BY <1>6, <2>4, <3>4, <3>5
  <2> QED BY <2>2, <2>3, <2>4 DEF UniformAt
<1>8. ASSUME NEW p \in DOMAIN uniP[t], IsLast(uniP[t], l, p), Wanted(t)[l] = uniP[t][p]
      PROVE  UniformAt(t, l)'
  <2>1. PICK i \in DOMAIN m : IsLastCommitted(m, l, i) /\ m[i].u = uniP[t][p] /\ m[i].new = TRUE
    <3>1. EndsWithNew(m, l, uniP[t][p])
      BY <1>1, <1>2, <1>8, MergedPending
    <3> QED BY <3>1 DEF EndsWithNew
  <2>2. wanted'[t][l] # Nil
    <3>1. uniP[t][p] \in Uniform
      BY <1>2
    <3> QED BY <1>4, <1>8, <3>1, NilAssumption
  <2>3. uniC'[t][i].u = wanted'[t][l] /\ i \in DOMAIN uniC'[t] /\ IsLastCommitted(uniC'[t], l, i)
    BY <1>2, <1>4, <1>8, <2>1
  <2>4. ASSUME proxy'[t] # 0, t \notin unsynced'
        PROVE  peer'.uniform[t][l] = SentValue(wanted'[t][l])
    <3>1. FALSE \/ uniC'[t][i].new
      BY <1>2, <2>1
    <3>2. SendUniforms(t, FALSE)[l] = SentValue(uniC'[t][i].u)
      BY <1>3, <2>3, <3>1, SentLast
    <3> QED BY <1>6, <2>3, <2>4, <3>2
  <2> QED BY <2>2, <2>3, <2>4 DEF UniformAt
<1> QED BY <1>7, <1>8, WantedAt DEF IInv

LEMMA UniformStep ==
  ASSUME IInv, TypeOK', [Next]_vars
  PROVE  UniformInv'
<1>0. /\ \A t \in Techniques, l \in Locations : UniformAt(t, l)
      /\ NamedOnce'
      /\ NamedOnce' /\ (\A t \in Techniques, l \in Locations : UniformAt(t, l)') => UniformInv'
  <2>1. NamedOnce'
    BY NamedStep DEF IInv, UniformInv
  <2> QED BY <2>1 DEF IInv, UniformInv, UniformAt
<1>1. ASSUME NEW t \in Techniques, Commit(t) PROVE UniformInv'
  <2>0. CommitByParts(t)
    BY <1>1, CommitFields
  <2>1. ASSUME NEW c \in Techniques, NEW l \in Locations PROVE UniformAt(c, l)'
    <3>1. CASE c = t
      BY <2>0, <3>1, UniformCommit
    <3>2. CASE c # t
      <4>1. /\ proxy'[c] = proxy[c] /\ peer'.uniform[c] = peer.uniform[c]
            /\ c \in unsynced' <=> c \in unsynced
        BY <2>0, <3>2, CommitLeavesOthers DEF IInv
      <4>2. uniC'[c] = uniC[c] /\ wanted'[c] = wanted[c]
        BY <2>0, <3>2 DEF CommitByParts, IInv, TypeOK
      <4> QED BY <1>0, <4>1, <4>2 DEF UniformAt
    <3> QED BY <3>1, <3>2
  <2> QED BY <1>0, <2>1
<1>2. ASSUME NEW r \in Textures \cup Samplers, Destroy(r) PROVE UniformInv'
  <2>0. /\ r \notin Techniques /\ unsynced' = unsynced \ {r} /\ proxy' = [proxy EXCEPT ![r] = 0]
        /\ uniC' = uniC /\ wanted' = wanted /\ peer'.uniform = peer.uniform
    BY <1>2, Disjoint DEF Destroy
  <2>1. ASSUME NEW c \in Techniques, NEW l \in Locations PROVE UniformAt(c, l)'
    <3>1. proxy'[c] = proxy[c] /\ (c \in unsynced' <=> c \in unsynced)
      BY <2>0 DEF IInv, TypeOK, Things
    <3> QED BY <1>0, <2>0, <3>1 DEF UniformAt
  <2> QED BY <1>0, <2>1
<1>3. CASE ClientGone
  <2>1. ASSUME NEW c \in Techniques, NEW l \in Locations PROVE UniformAt(c, l)'
    <3>1. wanted'[c][l] = Nil /\ uniC'[c] = <<>> /\ proxy'[c] = 0
      BY <1>3 DEF ClientGone, Things
    <3> QED BY <3>1 DEF UniformAt
  <2> QED BY <1>0, <2>1
<1>4. CASE EstablishSession
  <2>0. EstablishByParts
    BY <1>4, EstablishFields
  <2>1. /\ SyncByParts(committed, TRUE, tex, rebound) /\ session = 0
        /\ uniC' = uniC /\ wanted' = wanted
    BY <2>0 DEF EstablishByParts
  <2>2. ASSUME NEW c \in Techniques, NEW l \in Locations PROVE UniformAt(c, l)'
    <3>1. proxy[c] = 0 /\ peer.uniform[c][l] = Nil
      BY <2>1 DEF IInv, SessionInv, Things
    <3>2. ASSUME proxy'[c] # 0
          PROVE  peer'.uniform[c][l] =
                   IF wanted'[c][l] = Nil THEN Nil ELSE SentValue(wanted'[c][l])
      <4>1. c \in ShownOf(committed)
        BY <2>1, <3>1, <3>2, ProxyOfTechnique DEF IInv
      <4>2. peer'.uniform[c] = SendUniforms(c, TRUE)
        BY <2>1, <4>1 DEF SyncByParts
      <4>3. CASE wanted[c][l] = Nil
        <5>1. \A i \in DOMAIN uniC'[c] : Slot(uniC'[c][i].u) = l => ~(TRUE \/ uniC'[c][i].new)
          BY <1>0, <2>1, <4>3 DEF UniformAt
        <5>2. SendUniforms(c, TRUE)[l] = peer.uniform[c][l]
          BY <5>1, SentNothing
        <5> QED BY <2>1, <3>1, <4>2, <4>3, <5>2
      <4>4. CASE wanted[c][l] # Nil
        <5>1. PICK i \in DOMAIN uniC'[c] :
                IsLastCommitted(uniC'[c], l, i) /\ uniC'[c][i].u = wanted[c][l]
          BY <1>0, <2>1, <4>4 DEF UniformAt
        <5>2. uniC'[c] \in Seq(Entry)
          BY DEF TypeOK
        <5>3. SendUniforms(c, TRUE)[l] = SentValue(uniC'[c][i].u)
          BY <5>1, <5>2, SentLast
        <5> QED BY <2>1, <4>2, <4>4, <5>1, <5>3
      <4> QED BY <4>3, <4>4
    <3>3. UniformAt(c, l)
      BY <1>0
    <3> QED BY <2>1, <3>2, <3>3 DEF UniformAt
  <2> QED BY <1>0, <2>2
<1>5. CASE DisconnectSession
  <2>1. proxy' = [x \in Things |-> 0] /\ uniC' = uniC /\ wanted' = wanted
    BY <1>5 DEF DisconnectSession
  <2>2. ASSUME NEW c \in Techniques, NEW l \in Locations PROVE UniformAt(c, l)'
    BY <1>0, <2>1 DEF UniformAt, Things
  <2> QED BY <1>0, <2>2
<1>6. CASE UNCHANGED <<uniC, wanted, proxy, peer, unsynced>>
  BY <1>0, <1>6 DEF UniformAt
<1>7. ASSUME NEW t \in Techniques, NEW b \in Points, NEW x \in Textures, NEW s \in Samplers,
             BindTexture(t, b, x, s)
      PROVE  UniformInv'
  BY <1>6, <1>7 DEF BindTexture
<1>8. ASSUME NEW t \in Techniques, GetBounded(t) PROVE UniformInv'
  BY <1>6, <1>8 DEF GetBounded
<1>9. ASSUME NEW t \in Techniques, NEW u, NEW size, NEW n, SetUniform(t, u, size, n)
      PROVE  UniformInv'
  BY <1>6, <1>9 DEF SetUniform
<1>10. ASSUME NEW s \in Samplers, NEW p, NEW v, NEW size, SetParameter(s, p, v, size)
       PROVE  UniformInv'
  BY <1>6, <1>10 DEF SetParameter
<1>11. ASSUME NEW x \in Textures, NEW k, Image2d(x, k) PROVE UniformInv'
  BY <1>6, <1>11 DEF Image2d
<1>12. ASSUME NEW x \in Textures, GenerateMipmap(x) PROVE UniformInv'
  BY <1>6, <1>12 DEF GenerateMipmap
<1>13. CASE UNCHANGED vars
  BY <1>6, <1>13 DEF vars
<1> QED BY <1>1, <1>2, <1>3, <1>4, <1>5, <1>7, <1>8, <1>9, <1>10, <1>11, <1>12, <1>13
        DEF Next

----------------------------------------------------------------------------
(* The theorems                                                            *)

(* What the peer was sent, the lists and the flags agree at all times.     *)
LEMMA IInvCorrect == Spec => []IInv
<1>1. IInv /\ [Next]_vars => IInv'
  <2> SUFFICES ASSUME IInv, [Next]_vars PROVE IInv'
    OBVIOUS
  <2>1. TypeOK'
    BY TypeStep DEF IInv
  <2> QED BY <2>1, SessionStep, PendingStep, BindingsStep, TextureStep, SamplerStep, UniformStep
          DEF IInv
<1> QED BY InitIInv, <1>1, PTL DEF Spec

(* Every variable has its type in every reachable state; the lists of      *)
(* uniforms are never longer than what was set.                            *)
THEOREM TypesOK == Spec => []TypeOK
<1>1. IInv => TypeOK
  BY DEF IInv
<1> QED BY <1>1, IInvCorrect, PTL

(* UniformVariableList::commit keeps one uniform of a name, the one last   *)
(* committed, whatever is committed how often.                             *)
THEOREM NamesAreKeptOnce == Spec => []NamedOnce
<1>1. IInv => NamedOnce
  BY DEF IInv, UniformInv
<1> QED BY <1>1, IInvCorrect, PTL

(* The peer has the uniforms last committed, of names and of locations.    *)
THEOREM UniformsAreMirrored == Spec => []UniformsMirrored
<1>1. IInv => UniformsMirrored
  BY DEF IInv, UniformInv, UniformsMirrored, SentValue
<1> QED BY <1>1, IInvCorrect, PTL

(* The peer has the bindings whose texture and sampler still exist.        *)
THEOREM BindingsAreMirrored == Spec => []BindingsMirrored
<1>1. IInv => BindingsMirrored
  BY DEF IInv
<1> QED BY <1>1, IInvCorrect, PTL

(* The peer has the image and the mipmap of a texture it draws with.       *)
THEOREM TexturesAreMirrored == Spec => []TexturesMirrored
<1>1. IInv => TexturesMirrored
  <2> SUFFICES ASSUME IInv, NEW x \in Textures, proxy[x] # 0, x \notin unsynced
               PROVE  /\ tex[x].image # 0 /\ <<x, "image">> \notin missed => peer.image[x] = tex[x].image
                      /\ tex[x].mip /\ <<x, "mipmap">> \notin missed => peer.mip[x]
    BY DEF TexturesMirrored
  <2>1. session # 0
    BY DEF IInv, SessionInv, Things
  <2> QED BY <2>1 DEF IInv, TextureInv
<1> QED BY <1>1, IInvCorrect, PTL

(* The peer has the parameters committed of a sampler it draws with.       *)
THEOREM SamplersAreMirrored == Spec => []SamplersMirrored
<1>1. IInv => SamplersMirrored
  BY DEF IInv, SamplerInv
<1> QED BY <1>1, IInvCorrect, PTL
=============================================================================
