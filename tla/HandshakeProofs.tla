--------------------------- MODULE HandshakeProofs ---------------------------
(***************************************************************************)
(* Proofs about Handshake, for every set of connections and addresses,     *)
(* every number of ids and relays and every channel capacity: Inv is an    *)
(* invariant of Spec, with the properties that are its parts, and so is    *)
(* PatientInv, with those that hold when an address runs one handshake at  *)
(* a time.                                                                 *)
(***************************************************************************)
EXTENDS HandshakeInv, TLAPS

\* An id is in the range of UserIDType, and a counter below its end is the id.
LEMMA IdModulo ==
    ASSUME NEW x \in Nat
    PROVE  x % IdSpace \in Ids /\ (x < IdSpace => x % IdSpace = x)
BY SizeAssumption DEF Ids

\* What identifies a session stays as it is.
Kept(s) ==
    /\ pc'[s] = pc[s] /\ ident'[s] = ident[s] /\ addr'[s] = addr[s]
    /\ utype'[s] = utype[s] /\ known'[s] = known[s]

\* A step of one task leaves the others alone.
LEMMA OthersKept ==
    ASSUME TaskTypeOK, NEW c \in Conns, ServerStep(c) \/ ClientStep(c),
           NEW s \in Conns, s # c
    PROVE  Kept(s) /\ held'[s] = held[s] /\ roster'[s] = roster[s]
<1> USE DEF TaskTypeOK, Kept, Goto, task
<1>1. CASE Lookup(c) \/ Gather(c) \/ Fetch(c) \/ Announce(c)
  BY <1>1 DEF Lookup, Gather, Fetch, Announce
<1>2. CASE DropById(c) \/ DropByIp(c) \/ InsertById(c) \/ InsertByIp(c)
  BY <1>2 DEF DropById, DropByIp, InsertById, InsertByIp
<1>3. CASE Unsubscribe(c) \/ Subscribe(c)
  BY <1>3 DEF Unsubscribe, Subscribe, SendUpdate
<1>4. CASE ClientStep(c)
  BY <1>4 DEF ClientStep, Accept, SynAck, SynAckFails
<1> QED BY <1>1, <1>2, <1>3, <1>4 DEF ServerStep

\* A task that is done takes no step.
LEMMA DoneTakesNoStep ==
    ASSUME TaskTypeOK, NEW c \in Conns, ServerStep(c) \/ ClientStep(c)
    PROVE  pc[c] # "done"
BY DEF ServerStep, ClientStep, Lookup, DropById, DropByIp, Unsubscribe, Gather,
   Fetch, Subscribe, Announce, InsertById, InsertByIp, Accept, SynAck, SynAckFails

\* The relays touch the channels only.
LEMMA RelaysKeep ==
    ASSUME RelayStep \/ Quiet \/ UNCHANGED vars
    PROVE  UNCHANGED <<pc, addr, ident, known, utype, held, step, roster, issued, byId, byIp>>
BY DEF RelayStep, TakeEvent, TakeUpdate, Quiet, vars, task, maps

LEMMA DoneKept ==
    ASSUME TaskTypeOK, [Next]_vars, NEW s \in Conns, pc[s] = "done"
    PROVE  Kept(s)
<1>1. ASSUME NEW c \in Conns, ServerStep(c) \/ ClientStep(c) PROVE Kept(s)
  BY <1>1, OthersKept, DoneTakesNoStep
<1>2. CASE RelayStep \/ Quiet \/ UNCHANGED vars
  BY <1>2, RelaysKeep DEF Kept
<1> QED BY <1>1, <1>2 DEF Next

-----------------------------------------------------------------------------
(* Shape is inductive. *)

LEMMA TypesStep ==
    ASSUME Shape, NEW c \in Conns, ServerStep(c) \/ ClientStep(c)
    PROVE  TaskTypeOK' /\ MapsTypeOK'
<1> USE DEF Goto, task, maps, TaskTypeOK, MapsTypeOK
<1>0. TaskTypeOK /\ MapsTypeOK
  BY DEF Shape
<1>1. CASE Lookup(c)
  <2>1. addr[c] \in Addrs /\ byIp[addr[c]] \in Conns \union {None}
    BY <1>1 DEF Lookup, Shape, LabelsOK
  <2>2. pc' \in [Conns -> Labels]
    BY <1>0, <1>1 DEF Lookup, Labels
  <2>3. ident' \in [Conns -> Ids] /\ issued' \in Nat
    BY <1>0, <1>1, <2>1, IdModulo DEF Lookup
  <2>4. known' \in [Conns -> Types \union {None}]
    BY <1>0, <1>1, <2>1 DEF Lookup, Shape, ByIpOK
  <2> QED BY <1>0, <1>1, <2>2, <2>3, <2>4 DEF Lookup
<1>2. CASE DropById(c)
  <2>1. byId[ident[c]] \in Conns \union {None}
    BY <1>0
  <2>2. pc' \in [Conns -> Labels]
    BY <1>0, <1>2 DEF DropById, Labels
  <2>3. held' \in [Conns -> Conns \union {None}] /\ MapsTypeOK'
    BY <1>0, <1>2, <2>1 DEF DropById
  <2> QED BY <1>0, <1>2, <2>2, <2>3 DEF DropById
<1>3. CASE Fetch(c)
  <2>1. byId[ident[c]] \in Conns \union {None}
    BY <1>0
  <2>2. pc' \in [Conns -> Labels]
    BY <1>0, <1>3 DEF Fetch, Labels, Final
  <2>3. held' \in [Conns -> Conns \union {None}]
    BY <1>0, <1>3, <2>1 DEF Fetch
  <2> QED BY <1>0, <1>3, <2>2, <2>3 DEF Fetch
<1>4. CASE Unsubscribe(c) \/ Subscribe(c)
  <2>1. pc' \in [Conns -> Labels]
    BY <1>0, <1>4 DEF Unsubscribe, Subscribe, SendUpdate, Labels
  <2>2. step' \in [Conns -> Relays]
    BY SMTT(20), <1>0, <1>4, SizeAssumption DEF Unsubscribe, Subscribe, SendUpdate, Relays
  <2> QED BY <1>0, <1>4, <2>1, <2>2 DEF Unsubscribe, Subscribe
<1>5. CASE Gather(c) \/ Announce(c)
  <2>1. pc' \in [Conns -> Labels]
    BY <1>0, <1>5 DEF Gather, Announce, Labels, Final
  <2>2. roster' \in [Conns -> SUBSET Conns]
    BY <1>0, <1>5 DEF Gather, Announce
  <2> QED BY <1>0, <1>5, <2>1, <2>2 DEF Gather, Announce
<1>6. CASE DropByIp(c) \/ InsertById(c) \/ InsertByIp(c)
  BY <1>0, <1>6 DEF DropByIp, InsertById, InsertByIp, Labels, Final
<1>7. CASE ClientStep(c)
  <2>1. pc' \in [Conns -> Labels]
    BY <1>0, <1>7 DEF ClientStep, Accept, SynAck, SynAckFails, Labels, Final
  <2> QED BY <1>0, <1>7, <2>1 DEF ClientStep, Accept, SynAck, SynAckFails
<1> QED BY <1>1, <1>2, <1>3, <1>4, <1>5, <1>6, <1>7 DEF ServerStep

LEMMA LabelsStep ==
    ASSUME Shape, NEW c \in Conns, ServerStep(c) \/ ClientStep(c)
    PROVE  LabelsOK'
<1> USE NoneAssumption DEF Goto, task, maps, TaskTypeOK, LabelsOK, Reconnecting, ChangesType, Types
<1>0. TaskTypeOK /\ LabelsOK
  BY DEF Shape
<1>1. CASE Lookup(c)
  BY <1>0, <1>1 DEF Lookup
<1>2. CASE DropById(c) \/ DropByIp(c)
  BY <1>0, <1>2 DEF DropById, DropByIp
<1>3. CASE Unsubscribe(c)
  BY <1>0, <1>3 DEF Unsubscribe, SendUpdate
<1>4. CASE Gather(c)
  BY <1>0, <1>4 DEF Gather
<1>5. CASE Fetch(c)
  BY <1>0, <1>5 DEF Fetch
<1>6. CASE Subscribe(c)
  BY <1>0, <1>6 DEF Subscribe, SendUpdate
<1>7. CASE Announce(c)
  BY <1>0, <1>7 DEF Announce
<1>8. CASE InsertById(c) \/ InsertByIp(c)
  BY <1>0, <1>8 DEF InsertById, InsertByIp
<1>9. CASE ClientStep(c)
  BY <1>0, <1>9 DEF ClientStep, Accept, SynAck, SynAckFails
<1> QED BY <1>1, <1>2, <1>3, <1>4, <1>5, <1>6, <1>7, <1>8, <1>9 DEF ServerStep

LEMMA RegistriesStep ==
    ASSUME Shape, NEW c \in Conns, ServerStep(c) \/ ClientStep(c)
    PROVE  ByIdOK' /\ ByIpOK'
<1> USE NoneAssumption DEF Goto, task, maps, TaskTypeOK, MapsTypeOK, ByIdOK, ByIpOK
<1>0. TaskTypeOK /\ MapsTypeOK /\ LabelsOK /\ ByIdOK /\ ByIpOK /\ HeldOK
  BY DEF Shape
<1>1. CASE Lookup(c)
  BY <1>0, <1>1 DEF Lookup
<1>2. CASE DropById(c) \/ DropByIp(c)
  BY <1>0, <1>2 DEF DropById, DropByIp
<1>3. CASE Unsubscribe(c) \/ Subscribe(c)
  BY <1>0, <1>3 DEF Unsubscribe, Subscribe, SendUpdate
<1>4. CASE Gather(c) \/ Fetch(c) \/ Announce(c)
  BY <1>0, <1>4 DEF Gather, Fetch, Announce
<1>5. CASE InsertById(c) \/ InsertByIp(c)
  BY <1>0, <1>5 DEF InsertById, InsertByIp, LabelsOK
<1>6. CASE ClientStep(c)
  BY <1>0, <1>6 DEF ClientStep, Accept, SynAck, SynAckFails
<1> QED BY <1>1, <1>2, <1>3, <1>4, <1>5, <1>6 DEF ServerStep

LEMMA HeldStep ==
    ASSUME Shape, NEW c \in Conns, ServerStep(c) \/ ClientStep(c)
    PROVE  HeldOK'
<1> USE NoneAssumption DEF Goto, task, maps, TaskTypeOK, HeldOK, Reconnecting
<1>0. TaskTypeOK /\ HeldOK
  BY DEF Shape
<1>1. CASE Lookup(c)
  BY <1>0, <1>1 DEF Lookup
<1>2. CASE DropById(c) \/ Fetch(c)
  <2> DEFINE s == byId[ident[c]]
  <2>1. s # None => s \in Conns /\ pc[s] = "done" /\ ident[s] = ident[c]
    BY <1>0, <1>2 DEF DropById, Fetch, IdLockFree, Shape, ByIdOK, MapsTypeOK
  <2>2. /\ pc[c] \in {"dropId", "fetch"}
        /\ pc'[c] \notin {"idle", "lookup"}
        /\ held'[c] = held[c] \/ held'[c] = s
        /\ pc'[c] \in {"dropIp", "announce"} => s # None /\ held'[c] = s
        /\ UNCHANGED <<ident, known, utype>>
    BY <1>0, <1>2 DEF DropById, Fetch
  <2>3. \A d \in Conns : d # c => pc'[d] = pc[d] /\ held'[d] = held[d]
    BY <1>0, <1>2 DEF DropById, Fetch
  <2> HIDE DEF s
  <2> QED BY <1>0, <2>1, <2>2, <2>3
<1>3. CASE Unsubscribe(c) \/ Subscribe(c)
  BY <1>0, <1>3 DEF Unsubscribe, Subscribe, SendUpdate, Shape, LabelsOK
<1>4. CASE Gather(c) \/ Announce(c)
  BY <1>0, <1>4 DEF Gather, Announce
<1>5. CASE DropByIp(c) \/ InsertById(c) \/ InsertByIp(c)
  BY <1>0, <1>5 DEF DropByIp, InsertById, InsertByIp
<1>6. CASE ClientStep(c)
  BY <1>0, <1>6 DEF ClientStep, Accept, SynAck, SynAckFails
<1> QED BY <1>1, <1>2, <1>3, <1>4, <1>5, <1>6 DEF ServerStep

LEMMA LockStep ==
    ASSUME Shape, NEW c \in Conns, ServerStep(c) \/ ClientStep(c)
    PROVE  LockOK'
<1> USE DEF Goto, task, maps, TaskTypeOK, MapsTypeOK, LockOK
<1>0. TaskTypeOK /\ MapsTypeOK /\ LockOK
  BY DEF Shape
<1>1. CASE Lookup(c) \/ Gather(c) \/ Fetch(c) \/ Announce(c)
  BY <1>0, <1>1 DEF Lookup, Gather, Fetch, Announce
<1>2. CASE DropById(c) \/ DropByIp(c)
  BY <1>0, <1>2 DEF DropById, DropByIp, IdLockFree
<1>3. CASE Unsubscribe(c) \/ Subscribe(c)
  BY <1>0, <1>3 DEF Unsubscribe, Subscribe, SendUpdate
<1>4. CASE InsertById(c) \/ InsertByIp(c)
  BY <1>0, <1>4 DEF InsertById, InsertByIp, IdLockFree
<1>5. CASE ClientStep(c)
  BY <1>0, <1>5 DEF ClientStep, Accept, SynAck, SynAckFails
<1> QED BY <1>1, <1>2, <1>3, <1>4, <1>5 DEF ServerStep

LEMMA RosterStep ==
    ASSUME Shape, NEW c \in Conns, ServerStep(c) \/ ClientStep(c)
    PROVE  RosterOK'
<1>0. TaskTypeOK /\ MapsTypeOK /\ RosterOK /\ ByIpOK
  BY DEF Shape
<1>1. \A s \in Conns : pc[s] = "done" => pc'[s] = "done"
  BY <1>0, OthersKept, DoneTakesNoStep DEF Kept
<1>2. \A d \in Conns : \A s \in roster'[d] : s \in Conns /\ pc[s] = "done"
  <2> SUFFICES ASSUME NEW d \in Conns PROVE \A s \in roster'[d] : s \in Conns /\ pc[s] = "done"
    OBVIOUS
  <2>1. CASE roster'[d] = roster[d]
    BY <1>0, <2>1 DEF TaskTypeOK, RosterOK
  <2>2. CASE d = c /\ Gather(c)
    BY <1>0, <2>2 DEF Gather, TaskTypeOK, MapsTypeOK, ByIpOK
  <2>3. CASE d = c /\ ~Gather(c)
    <3>1. roster' = roster
      BY <2>3 DEF ServerStep, ClientStep, Lookup, DropById, DropByIp, Unsubscribe,
         Fetch, Subscribe, Announce, InsertById, InsertByIp, Accept, SynAck,
         SynAckFails, task
    <3> QED BY <3>1, <2>1
  <2> QED BY <1>0, <2>1, <2>2, <2>3, OthersKept
<1> QED BY <1>1, <1>2 DEF RosterOK

LEMMA ShapeStep == Shape /\ [Next]_vars => Shape'
<1> SUFFICES ASSUME Shape, [Next]_vars PROVE Shape'
  OBVIOUS
<1>1. ASSUME NEW c \in Conns, ServerStep(c) \/ ClientStep(c) PROVE Shape'
  BY <1>1, TypesStep, LabelsStep, RegistriesStep, HeldStep, LockStep, RosterStep DEF Shape
<1>2. CASE RelayStep \/ Quiet \/ UNCHANGED vars
  BY <1>2, RelaysKeep DEF Shape, TaskTypeOK, MapsTypeOK, LabelsOK, ByIdOK, ByIpOK,
     HeldOK, LockOK, RosterOK, Reconnecting, ChangesType
<1> QED BY <1>1, <1>2 DEF Next

-----------------------------------------------------------------------------
(* The channels hold messages of registered users. *)

LEMMA ChansStep == Shape /\ ChansTypeOK /\ [Next]_vars => ChansTypeOK'
<1> SUFFICES ASSUME Shape, ChansTypeOK, [Next]_vars PROVE ChansTypeOK'
  OBVIOUS
<1>0. TaskTypeOK
  BY DEF Shape
<1>1. ASSUME NEW c \in Conns, NEW msg \in Update, NEW after, SendUpdate(c, msg, after)
      PROVE  updates' \in [Relays -> Seq(Update)]
  BY <1>0, <1>1 DEF TaskTypeOK, ChansTypeOK, SendUpdate
<1>2. ASSUME NEW c \in Conns, Unsubscribe(c) \/ Subscribe(c) PROVE ChansTypeOK'
  <2>1. Unsub(ident[c], None) \in Update /\ Sub(ident[c], c) \in Update
    BY <1>0 DEF TaskTypeOK, Unsub, Sub, Update
  <2> QED BY <1>1, <1>2, <2>1 DEF Unsubscribe, Subscribe, ChansTypeOK
<1>3. ASSUME NEW c \in Conns, Announce(c) PROVE ChansTypeOK'
  <2>1. Session(c) \in Conns /\ utype[Session(c)] \in Types
    BY <1>0, <1>3 DEF Session, Announce, Shape, HeldOK, LabelsOK, TaskTypeOK
  <2>2. Added(Session(c)) \in Announcement
    BY <1>0, <2>1 DEF Added, Announcement, TaskTypeOK
  <2> QED BY <1>3, <2>2 DEF Announce, ChansTypeOK
<1>4. ASSUME NEW c \in Conns,
             ServerStep(c) \/ ClientStep(c), ~Unsubscribe(c), ~Subscribe(c), ~Announce(c)
      PROVE  ChansTypeOK'
  BY <1>4 DEF ServerStep, ClientStep, Lookup, DropById, DropByIp, Gather, Fetch,
     InsertById, InsertByIp, Accept, SynAck, SynAckFails, chans, ChansTypeOK
<1>5. CASE TakeEvent
  BY <1>5 DEF TakeEvent, ChansTypeOK
<1>6. ASSUME NEW r \in Relays, TakeUpdate(r) PROVE ChansTypeOK'
  <2>1. updates[r] \in Seq(Update) /\ updates[r] # <<>>
    BY <1>6 DEF TakeUpdate, ChansTypeOK
  <2>2. Tail(updates[r]) \in Seq(Update)
    BY <2>1
  <2> QED BY <1>6, <2>2 DEF TakeUpdate, ChansTypeOK
<1>7. CASE Quiet \/ UNCHANGED vars
  BY <1>7 DEF Quiet, vars, chans, ChansTypeOK
<1> QED BY <1>2, <1>3, <1>4, <1>5, <1>6, <1>7 DEF Next, RelayStep

-----------------------------------------------------------------------------
(* Ids are not shared, and the registries agree. *)

\* Only a lookup gives a task an id; no other step changes who has which.
LEMMA NamesKept ==
    ASSUME TaskTypeOK, [Next]_vars, \A c \in Conns : ~Lookup(c)
    PROVE  /\ ident' = ident /\ issued' = issued
           /\ \A d \in Conns : Named(d)' => Named(d) /\ addr'[d] = addr[d]
<1> USE DEF Named, Goto, task, maps, TaskTypeOK
<1>1. ASSUME NEW c \in Conns, ServerStep(c)
      PROVE  UNCHANGED <<ident, issued, addr>> /\ \A d \in Conns : Named(d)' => Named(d)
  <2>1. UNCHANGED <<ident, issued, addr>>
    BY <1>1 DEF ServerStep, DropById, DropByIp, Unsubscribe, Gather, Fetch, Subscribe,
       Announce, InsertById, InsertByIp
  <2>2. pc[c] \notin {"idle", "lookup"}
    BY <1>1 DEF ServerStep, DropById, DropByIp, Unsubscribe, Gather, Fetch, Subscribe,
       Announce, InsertById, InsertByIp
  <2> QED BY <1>1, <2>1, <2>2, OthersKept DEF Kept
<1>2. ASSUME NEW c \in Conns, ClientStep(c)
      PROVE  /\ ident' = ident /\ issued' = issued
             /\ \A d \in Conns : Named(d)' => Named(d) /\ addr'[d] = addr[d]
  BY <1>2 DEF ClientStep, Accept, SynAck, SynAckFails
<1>3. CASE RelayStep \/ Quiet \/ UNCHANGED vars
  BY <1>3, RelaysKeep
<1> QED BY <1>1, <1>2, <1>3 DEF Next

LEMMA IdsStep == Shape /\ IssuedOK /\ IdOwned /\ [Next]_vars => IssuedOK' /\ IdOwned'
<1> SUFFICES ASSUME Shape, IssuedOK, IdOwned, [Next]_vars PROVE IssuedOK' /\ IdOwned'
  OBVIOUS
<1>0. TaskTypeOK /\ MapsTypeOK
  BY DEF Shape
<1>1. ASSUME NEW c \in Conns, Lookup(c), NoWrap' PROVE IssuedOK' /\ IdOwned'
  <2> DEFINE s == byIp[addr[c]]
  <2>1. /\ pc[c] = "lookup" /\ addr[c] \in Addrs /\ s \in Conns \union {None}
        /\ addr' = addr
    BY <1>0, <1>1 DEF Lookup, Shape, LabelsOK, MapsTypeOK
  <2>2. \A d \in Conns : d # c => (Named(d)' <=> Named(d)) /\ ident'[d] = ident[d]
    BY <1>0, <1>1 DEF Lookup, Named, Goto, TaskTypeOK
  <2>3. CASE s = None
    <3>1. issued' = issued + 1 /\ issued \in Nat /\ issued < IdSpace
      BY <1>0, <1>1, <2>3, SizeAssumption DEF Lookup, NoWrap, TaskTypeOK
    <3>2. ident'[c] = issued
      BY <1>0, <1>1, <2>3, <3>1, IdModulo DEF Lookup, TaskTypeOK
    <3>3. \A d \in Conns : Named(d) => ident[d] \in Nat /\ ident[d] < issued
      BY <1>0, <3>1, SizeAssumption DEF IssuedOK, NoWrap, TaskTypeOK, Ids
    <3>4. IssuedOK'
      BY <3>1, <3>2, <3>3, <2>2 DEF IssuedOK
    <3>5. \A d \in Conns : d # c /\ Named(d)' => ident'[d] # ident'[c]
      BY <3>1, <3>2, <3>3, <2>2
    <3>6. IdOwned'
      BY <3>1, <3>5, <2>1, <2>2, SizeAssumption DEF IdOwned, NoWrap
    <3> QED BY <3>4, <3>6
  <2>4. CASE s # None
    <3>1. s \in Conns /\ s # c /\ Named(s) /\ addr[s] = addr[c]
      BY <2>1, <2>4 DEF Shape, ByIpOK, Named
    <3>2. ident'[c] = ident[s] /\ issued' = issued
      BY <1>0, <1>1, <2>4 DEF Lookup, TaskTypeOK
    <3>3. IssuedOK'
      BY <1>1, <3>1, <3>2, <2>2 DEF IssuedOK, NoWrap
    <3>4. IdOwned'
      BY <1>1, <3>1, <3>2, <2>1, <2>2 DEF IdOwned, NoWrap
    <3> QED BY <3>3, <3>4
  <2> QED BY <2>3, <2>4
<1>2. CASE \A c \in Conns : ~Lookup(c)
  BY <1>0, <1>2, NamesKept DEF IssuedOK, IdOwned, NoWrap
<1>3. CASE ~NoWrap'
  BY <1>3 DEF IssuedOK, IdOwned
<1> QED BY <1>1, <1>2, <1>3

\* A step that changes no registry and ends no stay between them keeps their
\* agreement: what is registered is done, so its id stays.
LEMMA AgreeFrame ==
    ASSUME Shape, MapsAgree, [Next]_vars, UNCHANGED maps, issued' >= issued,
           \A a \in Addrs : InBetween(a) => InBetween(a)'
    PROVE  MapsAgree'
<1>1. \A a \in Addrs : byIp[a] # None =>
          byIp[a] \in Conns /\ ident'[byIp[a]] = ident[byIp[a]]
  BY DoneKept DEF Shape, ByIpOK, MapsTypeOK, Kept
<1>2. NoWrap' => NoWrap
  BY ShapeStep, SizeAssumption DEF NoWrap, Shape, TaskTypeOK
<1>3. UNCHANGED <<byId, byIp>>
  BY DEF maps
<1> QED BY <1>1, <1>2, <1>3 DEF MapsAgree

LEMMA AgreeStep ==
    ASSUME Shape, IdOwned, MapsAgree, NEW c \in Conns, ServerStep(c) \/ ClientStep(c)
    PROVE  MapsAgree'
<1>0. TaskTypeOK /\ MapsTypeOK /\ Next
  BY DEF Shape, Next
<1>1. CASE DropById(c)
  <2>1. /\ pc[c] = "dropId" /\ UNCHANGED <<addr, ident, byIp, issued>>
    BY <1>1 DEF DropById
  <2>2. \A d \in Conns : d # c => pc'[d] = pc[d]
    BY <1>0, <1>1 DEF DropById, Goto, TaskTypeOK
  <2>3. \A a \in Addrs : InBetween(a) => InBetween(a)'
    BY <2>1, <2>2 DEF InBetween
  <2>4. CASE byId' = byId
    BY <1>0, <2>1, <2>3, <2>4, AgreeFrame DEF maps, TaskTypeOK
  <2>5. CASE byId' = [byId EXCEPT ![ident[c]] = None] /\ pc'[c] = "dropIp"
    <3>1. ASSUME NoWrap, NEW a \in Addrs, byIp[a] # None, ident[byIp[a]] = ident[c]
          PROVE  InBetween(a)'
      <4>1. addr[c] = a
        BY <2>1, <3>1 DEF IdOwned, Shape, ByIpOK, MapsTypeOK, Named
      <4> QED BY <2>1, <2>5, <4>1 DEF InBetween
    <3>2. \A a \in Addrs : byIp[a] # None => ident[byIp[a]] \in Ids
      BY <1>0 DEF MapsTypeOK, TaskTypeOK
    <3> QED BY <1>0, <2>1, <2>3, <2>5, <3>1, <3>2 DEF MapsAgree, NoWrap, MapsTypeOK
  <2> QED BY <1>0, <1>1, <2>4, <2>5 DEF DropById, Goto, TaskTypeOK
<1>2. CASE DropByIp(c)
  <2>1. /\ pc[c] = "dropIp" /\ held[c] \in Conns /\ pc[held[c]] = "done"
        /\ ident[held[c]] = ident[c]
        /\ UNCHANGED <<addr, ident, byId, issued>>
    BY <1>0, <1>2 DEF DropByIp, task, Shape, HeldOK, TaskTypeOK
  <2>2. NoWrap => addr[held[c]] = addr[c]
    BY <2>1 DEF IdOwned, Named
  <2>3. \A d \in Conns : d # c => pc'[d] = pc[d]
    BY <1>0, <1>2 DEF DropByIp, Goto, TaskTypeOK
  <2>4. \A a \in Addrs : a # addr[c] => (InBetween(a) => InBetween(a)')
    BY <2>1, <2>3 DEF InBetween
  <2>5. byIp' = [byIp EXCEPT ![addr[held[c]]] = None]
    BY <1>2 DEF DropByIp
  <2> QED BY <1>0, <2>1, <2>2, <2>4, <2>5 DEF MapsAgree, NoWrap, MapsTypeOK
<1>3. CASE InsertById(c)
  <2>1. /\ pc[c] = "insertId" /\ pc'[c] = "insertIp"
        /\ UNCHANGED <<addr, ident, byIp, issued>>
        /\ byId' = [byId EXCEPT ![ident[c]] = c]
    BY <1>0, <1>3 DEF InsertById, Goto, task, TaskTypeOK
  <2>2. \A d \in Conns : d # c => pc'[d] = pc[d]
    BY <1>0, <1>3 DEF InsertById, Goto, TaskTypeOK
  <2>3. \A a \in Addrs : InBetween(a) => InBetween(a)'
    BY <2>1, <2>2 DEF InBetween
  <2>4. ASSUME NoWrap, NEW a \in Addrs, byIp[a] # None, ident[byIp[a]] = ident[c]
        PROVE  InBetween(a)'
    <3>1. addr[c] = a
      BY <2>1, <2>4 DEF IdOwned, Shape, ByIpOK, MapsTypeOK, Named
    <3> QED BY <2>1, <3>1 DEF InBetween
  <2>5. \A a \in Addrs : byIp[a] # None => ident[byIp[a]] \in Ids
    BY <1>0 DEF MapsTypeOK, TaskTypeOK
  <2> QED BY <1>0, <2>1, <2>3, <2>4, <2>5 DEF MapsAgree, NoWrap, MapsTypeOK
<1>4. CASE InsertByIp(c)
  <2>1. /\ pc[c] = "insertIp" /\ byId[ident[c]] = c
        /\ UNCHANGED <<addr, ident, byId, issued>>
        /\ byIp' = [byIp EXCEPT ![addr[c]] = c]
    BY <1>4 DEF InsertByIp, task, Shape, LockOK
  <2>2. \A d \in Conns : d # c => pc'[d] = pc[d]
    BY <1>0, <1>4 DEF InsertByIp, Goto, TaskTypeOK
  <2>3. \A a \in Addrs : a # addr[c] => (InBetween(a) => InBetween(a)')
    BY <2>1, <2>2 DEF InBetween
  <2> QED BY <1>0, <2>1, <2>3 DEF MapsAgree, NoWrap, MapsTypeOK
<1>5. CASE ~DropById(c) /\ ~DropByIp(c) /\ ~InsertById(c) /\ ~InsertByIp(c)
  <2>1. UNCHANGED maps /\ issued' >= issued
    BY <1>0, <1>5 DEF ServerStep, ClientStep, Lookup, Unsubscribe, Gather, Fetch,
       Subscribe, Announce, Accept, SynAck, SynAckFails, task, TaskTypeOK
  <2>2. pc[c] \notin {"dropIp", "insertIp"}
    BY <1>5 DEF ServerStep, ClientStep, Lookup, Unsubscribe, Gather, Fetch,
       Subscribe, Announce, Accept, SynAck, SynAckFails
  <2>3. \A a \in Addrs : InBetween(a) => InBetween(a)'
    BY <1>0, <2>2, OthersKept DEF InBetween, Kept
  <2> QED BY <1>0, <2>1, <2>3, AgreeFrame
<1> QED BY <1>1, <1>2, <1>3, <1>4, <1>5

-----------------------------------------------------------------------------
(* The theorems for handshakes that interleave in any way. *)

LEMMA InvInit == Init => Inv
<1> SUFFICES ASSUME Init PROVE Inv
  OBVIOUS
<1> USE NoneAssumption, SizeAssumption DEF Init
<1>1. TaskTypeOK /\ MapsTypeOK /\ ChansTypeOK
  BY DEF TaskTypeOK, MapsTypeOK, ChansTypeOK, Labels, Final, Ids, Relays
<1>2. LabelsOK /\ ByIdOK /\ ByIpOK /\ HeldOK /\ LockOK /\ RosterOK
  BY DEF LabelsOK, ByIdOK, ByIpOK, HeldOK, LockOK, RosterOK
<1>3. IssuedOK /\ IdOwned /\ MapsAgree
  BY DEF IssuedOK, IdOwned, MapsAgree, Named
<1> QED BY <1>1, <1>2, <1>3 DEF Inv, Shape

LEMMA InvStep == Inv /\ [Next]_vars => Inv'
<1> SUFFICES ASSUME Inv, [Next]_vars PROVE Inv'
  OBVIOUS
<1>1. MapsAgree'
  <2>1. ASSUME NEW c \in Conns, ServerStep(c) \/ ClientStep(c) PROVE MapsAgree'
    BY <2>1, AgreeStep DEF Inv
  <2>2. CASE RelayStep \/ Quiet \/ UNCHANGED vars
    BY <2>2, RelaysKeep DEF Inv, MapsAgree, NoWrap, InBetween
  <2> QED BY <2>1, <2>2 DEF Next
<1> QED BY <1>1, ShapeStep, ChansStep, IdsStep DEF Inv

\* The inductive invariant holds of every behavior of the handshakes.
THEOREM Invariance == Spec => []Inv
BY InvInit, InvStep, PTL DEF Spec

\* Every variable of the handshakes keeps its type.
THEOREM TypeInvariance == Spec => []TypeOK
<1>1. Inv => TypeOK
  BY DEF Inv, Shape, TypeOK
<1> QED BY <1>1, Invariance, PTL

\* Until the id counter wraps, no two addresses ever share a user id.
THEOREM IdOwnership == Spec => []IdOwned
<1>1. Inv => IdOwned
  BY DEF Inv
<1> QED BY <1>1, Invariance, PTL

\* Whatever handshakes run into each other, a session found by its address is
\* found by its id, except while a task is between the two registries.
THEOREM RegistryAgreement == Spec => []MapsAgree
<1>1. Inv => MapsAgree
  BY DEF Inv
<1> QED BY <1>1, Invariance, PTL

------------------------------------------------------------------------------
(* Handshakes of which an address runs one at a time: the invariant         *)
(* PatientInv, and the properties of Handshake that rest on it.             *)

\* The steps of an active task.
TaskStep(c) ==
    \/ ServerStep(c)
    \/ SynAckFails(c)
    \/ \E t \in Types \union {"other"} : SynAck(c, t)

LEMMA TaskStepActive ==
    ASSUME TaskTypeOK, NEW c \in Conns, TaskStep(c)
    PROVE  Active(c) /\ addr' = addr /\ (ServerStep(c) \/ ClientStep(c))
<1>1. pc[c] \notin {"idle"} \union Final
  BY DEF TaskStep, ServerStep, Lookup, DropById, DropByIp, Unsubscribe, Gather, Fetch,
     Subscribe, Announce, InsertById, InsertByIp, SynAck, SynAckFails, Final
<1>2. addr' = addr
  BY DEF TaskStep, ServerStep, Lookup, DropById, DropByIp, Unsubscribe, Gather, Fetch,
     Subscribe, Announce, InsertById, InsertByIp, SynAck, SynAckFails, task
<1> QED BY <1>1, <1>2 DEF Active, TaskStep, ClientStep

\* While ids do not wrap, a task touches the registries at its own address only.
LEMMA LocalEffect ==
    ASSUME Shape, IdOwned, NoWrap, NEW c \in Conns, TaskStep(c)
    PROVE  /\ \A a \in Addrs : a # addr[c] => byIp'[a] = byIp[a]
           /\ \A i \in Ids, s \in Conns :
                  addr[s] # addr[c] => (byId'[i] = s <=> byId[i] = s)
<1>0. TaskTypeOK /\ MapsTypeOK
  BY DEF Shape
<1>1. CASE DropById(c) \/ InsertById(c)
  <2>1. byIp' = byIp /\ Named(c)
    BY <1>1 DEF DropById, InsertById, Named
  <2>2. \A i \in Ids : byId'[i] # byId[i] => i = ident[c] /\ byId'[i] \in {None, c}
    BY <1>0, <1>1 DEF DropById, InsertById, MapsTypeOK
  <2>3. byId[ident[c]] # None => addr[byId[ident[c]]] = addr[c]
    BY <1>0, <2>1 DEF Shape, ByIdOK, MapsTypeOK, TaskTypeOK, IdOwned, Named
  <2> QED BY <2>1, <2>2, <2>3, NoneAssumption
<1>2. CASE DropByIp(c)
  <2>1. held[c] \in Conns /\ addr[held[c]] = addr[c]
    BY <1>0, <1>2 DEF DropByIp, Shape, HeldOK, IdOwned, Named, TaskTypeOK
  <2> QED BY <1>0, <1>2, <2>1 DEF DropByIp, MapsTypeOK
<1>3. CASE InsertByIp(c)
  BY <1>0, <1>3 DEF InsertByIp, MapsTypeOK
<1>4. CASE ~DropById(c) /\ ~InsertById(c) /\ ~DropByIp(c) /\ ~InsertByIp(c)
  <2>1. UNCHANGED maps
    BY <1>4 DEF TaskStep, ServerStep, Lookup, Unsubscribe, Gather, Fetch, Subscribe,
       Announce, SynAck, SynAckFails, task
  <2> QED BY <2>1 DEF maps
<1> QED BY <1>1, <1>2, <1>3, <1>4

-----------------------------------------------------------------------------
(* What a task's own step does at its address. *)

LEMMA LookupLocal ==
    ASSUME Shape, MapsAgree, NoWrap, OneAtATimeOK, NEW c \in Conns, Lookup(c)
    PROVE  FreshAt(c)' /\ FoundAt(c)' /\ MirrorAt(addr[c])'
<1>0. TaskTypeOK /\ MapsTypeOK
  BY DEF Shape
<1> DEFINE s == byIp[addr[c]]
<1>1. /\ pc[c] = "lookup" /\ pc'[c] = "synack" /\ addr[c] \in Addrs
      /\ UNCHANGED <<addr, utype, byId, byIp>>
  BY <1>0 DEF Lookup, Goto, maps, Shape, LabelsOK, TaskTypeOK
<1>2. \A d \in Conns : addr[d] = addr[c] /\ Active(d) => d = c
  BY <1>1 DEF OneAtATimeOK, Alone, Active, Final
<1>3. ~InBetween(addr[c])
  BY <1>1, <1>2 DEF InBetween, Active, Final
<1>4. s # None => s \in Conns /\ s # c /\ byId[ident[s]] = s /\ utype[s] # None
  BY <1>0, <1>1, <1>3, NoneAssumption DEF MapsAgree, Shape, ByIpOK, MapsTypeOK, Types
<1>5. s = None => Absent(addr[c])
  <2> SUFFICES ASSUME s = None, NEW i \in Ids, byId[i] # None, addr[byId[i]] = addr[c]
               PROVE  FALSE
    BY DEF Absent
  <2>1. byId[i] \in Conns /\ pc[byId[i]] # "done"
    BY <1>0, <1>1 DEF OneAtATimeOK, MirrorAt, MapsTypeOK
  <2>2. pc[byId[i]] = "insertIp"
    BY <2>1 DEF Shape, ByIdOK
  <2> QED BY <1>1, <1>2, <2>1, <2>2 DEF Active, Final
<1>6. \A d \in Conns : d # c => pc'[d] = pc[d] /\ ident'[d] = ident[d]
  BY <1>0 DEF Lookup, Goto, TaskTypeOK
<1>7. s = None => known'[c] = None
  BY <1>0 DEF Lookup, Shape, LabelsOK
<1>8. MirrorAt(addr[c])'
  BY <1>0, <1>1, <1>6 DEF OneAtATimeOK, MirrorAt, Shape, ByIdOK, MapsTypeOK
<1>9. CASE s = None
  <2>1. ~Found(c)' /\ pc'[c] \notin {"dropIp", "insertIp"}
    BY <1>1, <1>7, <1>9 DEF Found
  <2>2. Absent(addr[c])' /\ byIp'[addr'[c]] = None
    BY <1>1, <1>5, <1>9 DEF Absent
  <2> QED BY <1>8, <2>1, <2>2 DEF FreshAt, FoundAt
<1>10. CASE s # None
  <2>1. known'[c] # None /\ ident'[c] = ident[s] /\ ident'[s] = ident[s]
    BY <1>0, <1>4, <1>6, <1>10 DEF Lookup, TaskTypeOK
  <2>2. ~Fresh(c)' /\ pc'[c] \notin {"dropIp", "insertIp"}
    BY <1>1, <2>1 DEF Fresh
  <2>3. byIp'[addr'[c]] = s
    BY <1>1
  <2>4. byId'[ident'[c]] = s
    BY <1>1, <1>4, <1>10, <2>1
  <2> HIDE DEF s
  <2> QED BY <1>8, <1>10, <2>1, <2>2, <2>3, <2>4 DEF FreshAt, FoundAt
<1> QED BY <1>9, <1>10

\* Steps between the registries' changes: what the task knew it still knows.
LEMMA StayLocal ==
    ASSUME Shape, OneAtATimeOK, NEW c \in Conns, TaskStep(c), ~Lookup(c),
           ~DropById(c), ~DropByIp(c), ~InsertById(c), ~InsertByIp(c)
    PROVE  FreshAt(c)' /\ FoundAt(c)' /\ MirrorAt(addr[c])'
<1>0. TaskTypeOK /\ MapsTypeOK /\ LabelsOK /\ ByIdOK
  BY DEF Shape
<1>1. UNCHANGED <<addr, ident, byId, byIp>>
  BY DEF TaskStep, ServerStep, Unsubscribe, Gather, Fetch, Subscribe, Announce, SynAck,
     SynAckFails, task, maps
<1>2. (Fresh(c)' => Fresh(c)) /\ (Found(c)' => Found(c))
  <2> USE NoneAssumption DEF Fresh, Found, Goto, TaskTypeOK, task, Reconnecting, ChangesType, Types, LabelsOK
  <2>1. CASE SynAckFails(c) \/ \E t \in Types \union {"other"} : SynAck(c, t)
    BY <1>0, <2>1 DEF SynAck, SynAckFails
  <2>2. CASE Unsubscribe(c) \/ Subscribe(c)
    BY <1>0, <2>2 DEF Unsubscribe, Subscribe, SendUpdate
  <2>3. CASE Gather(c) \/ Fetch(c) \/ Announce(c)
    BY <1>0, <2>3 DEF Gather, Fetch, Announce
  <2> QED BY <2>1, <2>2, <2>3 DEF TaskStep, ServerStep
<1>7. pc[c] # "insertIp" /\ pc'[c] \notin {"insertIp", "dropIp"}
  BY <1>0 DEF TaskStep, ServerStep, Unsubscribe, Gather, Fetch, Subscribe, Announce, SynAck,
     SynAckFails, SendUpdate, Goto, TaskTypeOK
<1>3. FreshAt(c)' /\ FoundAt(c)'
  BY <1>1, <1>2, <1>7 DEF OneAtATimeOK, FreshAt, FoundAt, Absent
<1>4. \A d \in Conns : d # c => pc'[d] = pc[d]
  BY <1>0, TaskStepActive, OthersKept DEF Kept
<1>5. \A i \in Ids : byId[i] # None => byId[i] \in Conns /\ byId[i] # c
  BY <1>0, <1>7, TaskStepActive DEF ByIdOK, MapsTypeOK, Active, Final
<1>6. MirrorAt(addr[c])'
  BY <1>0, <1>1, <1>4, <1>5 DEF OneAtATimeOK, MirrorAt, LabelsOK, Active, Final
<1> QED BY <1>3, <1>6

LEMMA DropLocal ==
    ASSUME Shape, NoWrap, IdOwned, OneAtATimeOK, NEW c \in Conns, DropById(c) \/ DropByIp(c)
    PROVE  FreshAt(c)' /\ FoundAt(c)' /\ MirrorAt(addr[c])'
<1>0. TaskTypeOK /\ MapsTypeOK /\ ByIdOK /\ FreshAt(c) /\ FoundAt(c) /\ addr[c] \in Addrs
  BY DEF Shape, OneAtATimeOK, LabelsOK, DropById, DropByIp
<1>1. MirrorAt(addr[c])
  BY <1>0 DEF OneAtATimeOK
<1>2. CASE DropById(c)
  <2> DEFINE t == byIp[addr[c]]
  <2>1. t # None /\ ident[t] = ident[c] /\ byId[ident[c]] = t
    BY <1>0, <1>2 DEF FoundAt, Found, DropById
  <2>2. /\ pc'[c] = "dropIp" /\ UNCHANGED <<addr, ident, byIp>>
        /\ byId' = [byId EXCEPT ![ident[c]] = None]
    BY <1>0, <1>2, <2>1 DEF DropById, Goto, TaskTypeOK
  <2>3. \A i \in Ids : byId'[i] # None => i # ident[c] /\ byId'[i] = byId[i]
    BY <1>0, <2>2 DEF MapsTypeOK, TaskTypeOK
  <2>4. \A i \in Ids : byId[i] # None => ident[byId[i]] = i /\ pc[byId[i]] = "done"
    BY <1>0, <1>2 DEF DropById, IdLockFree, ByIdOK, MapsTypeOK
  <2>5. Absent(addr[c])'
    BY <1>1, <2>1, <2>2, <2>3, <2>4 DEF Absent, MirrorAt
  <2> QED BY <2>1, <2>2, <2>5 DEF FreshAt, FoundAt, Fresh, Found, MirrorAt, Absent
<1>3. CASE DropByIp(c)
  <2>1. held[c] \in Conns /\ addr[held[c]] = addr[c]
    BY <1>0, <1>3 DEF DropByIp, Shape, HeldOK, IdOwned, Named, TaskTypeOK
  <2>2. /\ pc'[c] = "unsub" /\ UNCHANGED <<addr, ident, byId>>
        /\ byIp'[addr[c]] = None
    BY <1>0, <1>3, <2>1 DEF DropByIp, Goto, task, TaskTypeOK, MapsTypeOK
  <2>3. Absent(addr[c])'
    BY <1>0, <1>3, <2>2 DEF DropByIp, FoundAt, Absent
  <2> QED BY <2>2, <2>3 DEF FreshAt, FoundAt, Fresh, Found, MirrorAt, Absent
<1> QED BY <1>2, <1>3

LEMMA InsertLocal ==
    ASSUME Shape, OneAtATimeOK, NEW c \in Conns, InsertById(c) \/ InsertByIp(c)
    PROVE  FreshAt(c)' /\ FoundAt(c)' /\ MirrorAt(addr[c])'
<1>0. TaskTypeOK /\ MapsTypeOK /\ FreshAt(c) /\ addr[c] \in Addrs
  BY DEF Shape, OneAtATimeOK, LabelsOK, InsertById, InsertByIp
<1>1. CASE InsertById(c)
  <2>1. /\ pc'[c] = "insertIp" /\ UNCHANGED <<addr, byIp>>
        /\ byId' = [byId EXCEPT ![ident[c]] = c]
    BY <1>0, <1>1 DEF InsertById, Goto, task, TaskTypeOK
  <2>2. byIp[addr[c]] = None /\ Absent(addr[c])
    BY <1>0, <1>1 DEF InsertById, FreshAt, Fresh
  <2>3. \A i \in Ids : byId'[i] # None /\ addr[byId'[i]] = addr[c] => byId'[i] = c
    BY <1>0, <2>1, <2>2 DEF Absent, MapsTypeOK
  <2> QED BY <2>1, <2>2, <2>3 DEF FreshAt, FoundAt, Fresh, Found, MirrorAt
<1>2. CASE InsertByIp(c)
  <2>1. pc'[c] = "done" /\ UNCHANGED <<addr, byId>> /\ byIp'[addr[c]] = c
    BY <1>0, <1>2 DEF InsertByIp, Goto, task, TaskTypeOK, MapsTypeOK
  <2>2. \A i \in Ids : byId[i] # None /\ addr[byId[i]] = addr[c] => byId[i] = c
    BY <1>0, <1>2 DEF InsertByIp, FreshAt
  <2> QED BY <2>1, <2>2 DEF FreshAt, FoundAt, Fresh, Found, MirrorAt
<1> QED BY <1>1, <1>2

LEMMA TaskLocal ==
    ASSUME Shape, NoWrap, IdOwned, MapsAgree, OneAtATimeOK, NEW c \in Conns, TaskStep(c)
    PROVE  FreshAt(c)' /\ FoundAt(c)' /\ MirrorAt(addr[c])'
<1>1. CASE Lookup(c)
  BY <1>1, LookupLocal
<1>2. CASE DropById(c) \/ DropByIp(c)
  BY <1>2, DropLocal
<1>3. CASE InsertById(c) \/ InsertByIp(c)
  BY <1>3, InsertLocal
<1>4. CASE /\ ~Lookup(c) /\ ~DropById(c) /\ ~DropByIp(c)
           /\ ~InsertById(c) /\ ~InsertByIp(c)
  BY <1>4, StayLocal
<1> QED BY <1>1, <1>2, <1>3, <1>4

-----------------------------------------------------------------------------
(* One handshake per address at a time is preserved. *)

\* A task's step leaves the tasks and the registries of other addresses alone.
LEMMA ElsewhereKept ==
    ASSUME Shape, NoWrap, IdOwned, OneAtATimeOK, NEW c \in Conns, TaskStep(c),
           NEW d \in Conns, d # c
    PROVE  FreshAt(d)' /\ FoundAt(d)'
<1>0. TaskTypeOK /\ MapsTypeOK /\ ByIdOK /\ ByIpOK /\ FreshAt(d) /\ FoundAt(d)
  BY DEF Shape, OneAtATimeOK
<1>1. Kept(d) /\ addr' = addr /\ Active(c) /\ (ServerStep(c) \/ ClientStep(c))
  BY <1>0, TaskStepActive, OthersKept
<1>2. CASE addr[d] = addr[c]
  <2>1. ~Active(d)
    BY <1>1, <1>2 DEF OneAtATimeOK, Alone
  <2> QED BY <1>1, <2>1 DEF Active, Final, Kept, FreshAt, FoundAt, Fresh, Found
<1>3. CASE addr[d] # addr[c] /\ Active(d)
  <2>1. addr[d] \in Addrs /\ byIp'[addr[d]] = byIp[addr[d]]
    BY <1>0, <1>3, LocalEffect DEF Shape, LabelsOK, Active
  <2>2. byIp[addr[d]] # None =>
            /\ byIp[addr[d]] \in Conns /\ addr[byIp[addr[d]]] = addr[d]
            /\ ident'[byIp[addr[d]]] = ident[byIp[addr[d]]]
    <3>1. byIp[addr[d]] # None =>
              byIp[addr[d]] \in Conns /\ addr[byIp[addr[d]]] = addr[d]
      BY <1>0, <2>1 DEF ByIpOK, MapsTypeOK
    <3> QED BY <1>0, <1>1, <1>3, <3>1, OthersKept DEF Kept
  <2>3. \A i \in Ids, s \in Conns : addr[s] = addr[d] => (byId'[i] = s <=> byId[i] = s)
    BY <1>0, <1>3, LocalEffect
  <2>4. MapsTypeOK'
    BY <1>1, TypesStep
  <2>5. Absent(addr[d]) => Absent(addr[d])'
    BY <1>0, <1>1, <2>3, <2>4 DEF Absent, MapsTypeOK
  <2>6. (Fresh(d)' <=> Fresh(d)) /\ (Found(d)' <=> Found(d))
    BY <1>1 DEF Kept, Fresh, Found, Reconnecting
  <2>7. FoundAt(d)'
    <3>1. ident[d] \in Ids
      BY <1>0 DEF TaskTypeOK
    <3> QED BY <1>0, <1>1, <2>1, <2>2, <2>3, <2>5, <2>6, <3>1 DEF FoundAt, Kept
  <2>8. FreshAt(d)'
    <3>1. ASSUME pc[d] = "insertIp", NEW i \in Ids, byId'[i] # None, addr[byId'[i]] = addr[d]
          PROVE  byId'[i] = d
      BY <1>0, <2>3, <2>4, <3>1 DEF FreshAt, MapsTypeOK
    <3> QED BY <1>0, <1>1, <2>1, <2>5, <2>6, <3>1 DEF FreshAt, Kept
  <2> QED BY <2>7, <2>8
<1>4. CASE ~Active(d)
  BY <1>1, <1>4 DEF Active, Final, Kept, FreshAt, FoundAt, Fresh, Found
<1> QED BY <1>2, <1>3, <1>4

LEMMA MirrorStep ==
    ASSUME Shape, NoWrap, IdOwned, MapsAgree, OneAtATimeOK, NEW c \in Conns, TaskStep(c),
           NEW a \in Addrs
    PROVE  MirrorAt(a)'
<1>0. TaskTypeOK /\ MapsTypeOK /\ MirrorAt(a)
  BY DEF Shape, OneAtATimeOK
<1>1. CASE a = addr[c]
  BY <1>0, <1>1, TaskLocal, TaskStepActive DEF MirrorAt
<1>2. CASE a # addr[c]
  <2>1. addr' = addr /\ byIp'[a] = byIp[a]
    BY <1>0, <1>2, LocalEffect, TaskStepActive
  <2>2. MapsTypeOK'
    BY <1>0, TaskStepActive, TypesStep
  <2> SUFFICES ASSUME NEW i \in Ids, byId'[i] # None, addr[byId'[i]] = a,
                      pc'[byId'[i]] = "done"
               PROVE  byIp[a] = byId'[i]
    BY <2>1 DEF MirrorAt
  <2>3. byId'[i] \in Conns /\ byId'[i] # c /\ byId[i] = byId'[i]
    BY <1>0, <1>2, <2>2, LocalEffect DEF MapsTypeOK
  <2>4. pc[byId[i]] = "done"
    BY <1>0, <2>3, TaskStepActive, OthersKept DEF Kept
  <2> QED BY <1>0, <2>3, <2>4 DEF MirrorAt
<1> QED BY <1>1, <1>2

LEMMA OneAtATimeStep ==
    ASSUME Inv, NoWrap, OneAtATime, OneAtATimeOK, [Next]_vars
    PROVE  OneAtATimeOK'
<1>0. Shape /\ IdOwned /\ MapsAgree /\ TaskTypeOK /\ MapsTypeOK
  BY DEF Inv, Shape
<1>1. ASSUME NEW c \in Conns, TaskStep(c) PROVE OneAtATimeOK'
  <2>1. \A d \in Conns : FreshAt(d)' /\ FoundAt(d)'
    BY <1>0, <1>1, TaskLocal, ElsewhereKept
  <2>2. \A a \in Addrs : MirrorAt(a)'
    BY <1>0, <1>1, MirrorStep
  <2>3. \A d \in Conns : Active(d)' => Active(d)
    BY <1>0, <1>1, TaskStepActive, OthersKept DEF Active, Kept
  <2>4. Alone'
    BY <1>0, <1>1, <2>3, TaskStepActive DEF OneAtATimeOK, Alone
  <2> QED BY <2>1, <2>2, <2>4 DEF OneAtATimeOK
<1>2. ASSUME NEW c \in Conns, NEW a \in Addrs, Accept(c, a) PROVE OneAtATimeOK'
  <2>1. /\ pc[c] = "idle" /\ pc'[c] = "lookup" /\ addr'[c] = a
        /\ UNCHANGED <<ident, known, utype, byId, byIp>>
        /\ \A d \in Conns : Active(d) => addr[d] # a
    BY <1>0, <1>2 DEF Accept, Goto, maps, TaskTypeOK
  <2>2. \A d \in Conns : d # c => pc'[d] = pc[d] /\ addr'[d] = addr[d]
    BY <1>0, <1>2 DEF Accept, Goto, TaskTypeOK
  <2>3. \A i \in Ids : byId[i] # None => byId[i] \in Conns /\ byId[i] # c
    BY <1>0, <2>1 DEF Shape, ByIdOK, MapsTypeOK
  <2>4. Alone'
    BY <2>1, <2>2 DEF OneAtATimeOK, Alone, Active
  <2>5. ASSUME NEW d \in Conns, d # c PROVE FreshAt(d)' /\ FoundAt(d)'
    BY <2>1, <2>2, <2>3, <2>5
       DEF OneAtATimeOK, FreshAt, FoundAt, Fresh, Found, Reconnecting, Absent
  <2>6. FreshAt(c)' /\ FoundAt(c)'
    BY <2>1 DEF FreshAt, FoundAt, Fresh, Found
  <2>7. \A b \in Addrs : MirrorAt(b)'
    BY <2>1, <2>2, <2>3 DEF OneAtATimeOK, MirrorAt
  <2> QED BY <2>4, <2>5, <2>6, <2>7 DEF OneAtATimeOK
<1>3. CASE RelayStep \/ Quiet \/ UNCHANGED vars
  BY <1>3, RelaysKeep DEF OneAtATimeOK, Alone, Active, FreshAt, FoundAt, Fresh, Found,
     Reconnecting, Absent, MirrorAt
<1> QED BY <1>1, <1>2, <1>3 DEF Next, ClientStep, TaskStep

-----------------------------------------------------------------------------
(* The id of an address, the unwrap and the list of users. *)

\* A finished user of the address has the id of the registered session or of
\* the session the only active task of the address will register.
LEMMA KeepsIdStep ==
    ASSUME Inv, NoWrap, OneAtATimeOK, KeepsIdOK, NEW c \in Conns, TaskStep(c)
    PROVE  KeepsIdOK'
<1>0. /\ Shape /\ IdOwned /\ TaskTypeOK /\ MapsTypeOK /\ ByIpOK /\ LabelsOK
      /\ FreshAt(c) /\ FoundAt(c)
  BY DEF Inv, Shape, OneAtATimeOK
<1>1. Active(c) /\ addr' = addr /\ addr[c] \in Addrs /\ (ServerStep(c) \/ ClientStep(c))
  BY <1>0, TaskStepActive DEF LabelsOK, Active
<1>2. \A s \in Conns : s # c => Kept(s)
  BY <1>0, <1>1, OthersKept
<1> DEFINE t == byIp[addr[c]]
           Has(u) == \/ t # None /\ ident[t] = ident[u]
                     \/ Replacing(c) /\ ident[c] = ident[u]
<1>3. ASSUME NEW d \in Conns, pc[d] = "done", addr[d] = addr[c] PROVE Has(d)
  <2>1. ASSUME NEW e \in Conns, Replacing(e), addr[e] = addr[c] PROVE e = c
    BY <1>1, <2>1 DEF OneAtATimeOK, Alone, Replacing, Active, Final
  <2> QED BY <1>3, <2>1 DEF KeepsIdOK
<1>4. t # None => t \in Conns /\ t # c /\ ident'[t] = ident[t]
  BY <1>0, <1>1, <1>2 DEF ByIpOK, MapsTypeOK, Active, Final, Kept
\* The task's own step keeps what its address has.
<1>5. ASSUME NEW d \in Conns, d # c, Has(d)
      PROVE  \/ byIp'[addr[c]] # None /\ ident'[byIp'[addr[c]]] = ident[d]
             \/ Replacing(c)' /\ ident'[c] = ident[d]
  <2>1. CASE DropByIp(c)
    <3>1. t # None /\ ident[t] = ident[c] /\ Replacing(c)' /\ ident' = ident
      BY <1>0, <2>1
         DEF DropByIp, FoundAt, LabelsOK, Replacing, ChangesType, Goto, task, TaskTypeOK
    <3>2. ~Replacing(c)
      BY <2>1 DEF DropByIp, Replacing
    <3> QED BY <1>5, <3>1, <3>2
  <2>2. CASE InsertByIp(c)
    <3>1. t = None
      BY <1>0, <2>2 DEF InsertByIp, FreshAt
    <3>2. byIp'[addr[c]] = c /\ ident' = ident
      BY <1>0, <1>1, <2>2 DEF InsertByIp, task, MapsTypeOK
    <3> QED BY <1>5, <3>1, <3>2, NoneAssumption
  <2>3. CASE ~DropByIp(c) /\ ~InsertByIp(c)
    <3>1. byIp' = byIp
      BY <2>3 DEF TaskStep, ServerStep, Lookup, DropById, Unsubscribe, Gather, Fetch,
         Subscribe, Announce, InsertById, SynAck, SynAckFails, maps
    <3>2. Replacing(c) => Replacing(c)' /\ ident' = ident
      <4> USE DEF Replacing, ChangesType, Goto, task, TaskTypeOK
      <4>1. CASE Unsubscribe(c) \/ Subscribe(c)
        BY <1>0, <4>1 DEF Unsubscribe, Subscribe, SendUpdate
      <4>2. CASE Gather(c) \/ Announce(c) \/ InsertById(c)
        BY <1>0, <4>2 DEF Gather, Announce, InsertById, LabelsOK, Reconnecting, Types
      <4>3. CASE ~Unsubscribe(c) /\ ~Subscribe(c) /\ ~Gather(c) /\ ~Announce(c) /\ ~InsertById(c)
        BY <2>3, <4>3 DEF TaskStep, ServerStep, Lookup, DropById, Fetch, SynAck, SynAckFails
      <4> QED BY <4>1, <4>2, <4>3
    <3> QED BY <1>4, <1>5, <3>1, <3>2
  <2> QED BY <2>1, <2>2, <2>3
\* A handshake that has just finished left a session of its id registered.
<1>6. ASSUME pc'[c] = "done"
      PROVE  byIp'[addr[c]] # None /\ ident'[byIp'[addr[c]]] = ident'[c]
  <2>1. CASE InsertByIp(c)
    BY <1>0, <1>1, <2>1, NoneAssumption DEF InsertByIp, task, MapsTypeOK
  <2>2. CASE Announce(c)
    <3>1. Found(c) /\ ident' = ident /\ byIp' = byIp
      BY <1>0, <1>6, <2>2 DEF Announce, Found, Goto, maps, TaskTypeOK
    <3> QED BY <1>0, <3>1 DEF FoundAt
  <2> QED BY <1>0, <1>6, <2>1, <2>2 DEF TaskStep, ServerStep, Lookup, DropById, DropByIp,
       Unsubscribe, Gather, Fetch, Subscribe, InsertById, SynAck, SynAckFails,
       SendUpdate, Goto, Final, TaskTypeOK
<1> SUFFICES ASSUME NEW d \in Conns, pc'[d] = "done"
             PROVE  \/ byIp'[addr[d]] # None /\ ident'[byIp'[addr[d]]] = ident'[d]
                    \/ \E e \in Conns : Replacing(e)' /\ addr[e] = addr[d] /\ ident'[e] = ident'[d]
  BY <1>1 DEF KeepsIdOK
<1>7. CASE d = c
  BY <1>6, <1>7
<1>8. CASE d # c /\ addr[d] = addr[c]
  BY <1>2, <1>3, <1>5, <1>8 DEF Kept
<1>9. CASE d # c /\ addr[d] # addr[c]
  <2>1. pc[d] = "done" /\ ident'[d] = ident[d]
    BY <1>2, <1>9 DEF Kept
  <2>2. CASE byIp[addr[d]] # None /\ ident[byIp[addr[d]]] = ident[d]
    <3>1. addr[d] \in Addrs
      BY <1>0, <2>1 DEF LabelsOK
    <3>2. byIp'[addr[d]] = byIp[addr[d]] /\ byIp[addr[d]] \in Conns /\ byIp[addr[d]] # c
      BY <1>0, <1>9, <2>2, <3>1, LocalEffect DEF ByIpOK, MapsTypeOK
    <3> QED BY <1>2, <2>1, <2>2, <3>2 DEF Kept
  <2>3. ASSUME NEW e \in Conns, Replacing(e), addr[e] = addr[d], ident[e] = ident[d]
        PROVE  Replacing(e)' /\ ident'[e] = ident[e]
    BY <1>2, <1>9, <2>3 DEF Replacing, ChangesType, Kept
  <2> QED BY <2>1, <2>2, <2>3 DEF KeepsIdOK
<1> QED BY <1>7, <1>8, <1>9

LEMMA UnwrapStep ==
    ASSUME Inv, OneAtATimeOK, NEW c \in Conns, TaskStep(c),
           \A d \in Conns : pc[d] # "unwrapPanic"
    PROVE  \A d \in Conns : pc'[d] # "unwrapPanic"
<1>0. TaskTypeOK /\ (ServerStep(c) \/ ClientStep(c)) /\ FoundAt(c)
  BY TaskStepActive DEF Inv, Shape, OneAtATimeOK
<1>1. pc'[c] # "unwrapPanic"
  <2>1. CASE Fetch(c)
    BY <1>0, <2>1 DEF Fetch, FoundAt, Found, Goto, TaskTypeOK
  <2> QED BY <1>0, <2>1 DEF TaskStep, ServerStep, Lookup, DropById, DropByIp, Unsubscribe,
       Gather, Subscribe, Announce, InsertById, InsertByIp, SynAck, SynAckFails,
       SendUpdate, Goto, TaskTypeOK
<1> QED BY <1>0, <1>1, OthersKept DEF Kept

Completing == {"fetch", "sub", "announce", "insertId", "insertIp", "done"}

ListsSelf(c) ==
    pc[c] \in Completing => ((\E s \in roster[c] : ident[s] = ident[c]) <=> Reconnecting(c))

LEMMA ListStep ==
    ASSUME Inv, NoWrap, OneAtATimeOK, NEW c \in Conns, TaskStep(c),
           \A d \in Conns : ListsSelf(d)
    PROVE  \A d \in Conns : ListsSelf(d)'
<1>0. /\ Shape /\ TaskTypeOK /\ MapsTypeOK /\ RosterOK /\ ByIpOK /\ IdOwned
      /\ FreshAt(c) /\ FoundAt(c)
  BY DEF Inv, Shape, OneAtATimeOK
<1>1. (ServerStep(c) \/ ClientStep(c)) /\ Active(c)
  BY <1>0, TaskStepActive
<1>2. \A d \in Conns : \A s \in roster[d] : s \in Conns /\ ident'[s] = ident[s]
  BY <1>0, <1>1, OthersKept DEF RosterOK, TaskTypeOK, Kept, Active, Final
<1>3. ASSUME NEW d \in Conns, d # c PROVE ListsSelf(d)'
  BY <1>0, <1>1, <1>2, <1>3, OthersKept DEF ListsSelf, Kept, Reconnecting
<1>4. ASSUME Gather(c) PROVE ListsSelf(c)'
  <2>1. UNCHANGED <<ident, known, utype>> /\ pc[c] = "gather"
        /\ roster'[c] = {byIp[a] : a \in Addrs} \ {None}
    BY <1>0, <1>4 DEF Gather, TaskTypeOK
  <2>2. CASE Reconnecting(c)
    <3>1. byIp[addr[c]] # None /\ ident[byIp[addr[c]]] = ident[c] /\ addr[c] \in Addrs
      BY <1>0, <2>1, <2>2 DEF FoundAt, Found, Shape, LabelsOK
    <3>2. byIp[addr[c]] \in roster'[c] /\ ident'[byIp[addr[c]]] = ident'[c]
      BY <2>1, <3>1
    <3> QED BY <2>1, <2>2, <3>2 DEF ListsSelf, Reconnecting
  <2>3. CASE ~Reconnecting(c)
    <3>1. byIp[addr[c]] = None
      BY <1>0, <2>1, <2>3 DEF FreshAt, Fresh
    <3>2. ASSUME NEW a \in Addrs, byIp[a] # None, ident[byIp[a]] = ident[c] PROVE FALSE
      <4>1. byIp[a] \in Conns /\ addr[byIp[a]] = a /\ Named(byIp[a]) /\ Named(c)
        BY <1>0, <2>1, <3>2 DEF ByIpOK, MapsTypeOK, Named
      <4> QED BY <1>0, <3>1, <3>2, <4>1 DEF IdOwned
    <3>3. \A s \in roster'[c] : ident'[s] # ident'[c]
      BY <2>1, <3>2
    <3> QED BY <2>1, <2>3, <3>3 DEF ListsSelf, Reconnecting
  <2> QED BY <2>2, <2>3
<1>5. ASSUME ~Gather(c) PROVE ListsSelf(c)'
  <2>1. roster' = roster
    BY <1>5 DEF TaskStep, ServerStep, Lookup, DropById, DropByIp, Unsubscribe, Fetch,
       Subscribe, Announce, InsertById, InsertByIp, SynAck, SynAckFails, task
  <2>2. pc'[c] \in Completing =>
            pc[c] \in Completing /\ UNCHANGED <<ident, known, utype>>
    <3> USE DEF Goto, Completing, Final, task, TaskTypeOK
    <3>1. CASE Lookup(c) \/ DropById(c) \/ DropByIp(c) \/ SynAckFails(c)
               \/ \E u \in Types \union {"other"} : SynAck(c, u)
      BY <1>0, <3>1 DEF Lookup, DropById, DropByIp, SynAck, SynAckFails
    <3>2. CASE Unsubscribe(c) \/ Subscribe(c)
      BY <1>0, <3>2 DEF Unsubscribe, Subscribe, SendUpdate
    <3>3. CASE Fetch(c) \/ Announce(c) \/ InsertById(c) \/ InsertByIp(c)
      BY <1>0, <3>3 DEF Fetch, Announce, InsertById, InsertByIp
    <3> QED BY <1>5, <3>1, <3>2, <3>3 DEF TaskStep, ServerStep
  <2> QED BY <2>1, <2>2 DEF ListsSelf, Reconnecting
<1> QED BY <1>3, <1>4, <1>5

-----------------------------------------------------------------------------
(* PatientInv is an invariant, and what follows from it. *)

LEMMA PatientStep == Inv /\ PatientInv /\ [Next]_vars => PatientInv'
<1> SUFFICES ASSUME Inv, PatientInv, [Next]_vars, OneAtATime, NoWrap'
             PROVE  (OneAtATimeOK /\ KeepsIdOK /\ UnwrapSafe /\ RosterListsSelf)'
  BY DEF PatientInv
<1>0. Shape /\ TaskTypeOK /\ MapsTypeOK
  BY DEF Inv, Shape
<1>1. NoWrap
  <2>1. issued' = issued \/ issued' = issued + 1
    BY RelaysKeep DEF Next, ServerStep, ClientStep, Lookup, DropById, DropByIp, Unsubscribe,
       Gather, Fetch, Subscribe, Announce, InsertById, InsertByIp, Accept, SynAck, SynAckFails
  <2> QED BY <1>0, <2>1, SizeAssumption DEF NoWrap, TaskTypeOK
<1>2. /\ OneAtATimeOK /\ KeepsIdOK
      /\ \A c \in Conns : pc[c] # "unwrapPanic" /\ ListsSelf(c)
  BY <1>1 DEF PatientInv, UnwrapSafe, RosterListsSelf, ListsSelf, Completing
<1>3. OneAtATimeOK'
  BY <1>1, <1>2, OneAtATimeStep
<1>4. KeepsIdOK' /\ \A c \in Conns : (pc[c] # "unwrapPanic")' /\ ListsSelf(c)'
  <2>1. ASSUME NEW c \in Conns, TaskStep(c)
        PROVE  KeepsIdOK' /\ \A d \in Conns : (pc[d] # "unwrapPanic")' /\ ListsSelf(d)'
    BY <1>1, <1>2, <2>1, KeepsIdStep, UnwrapStep, ListStep
  <2>2. ASSUME NEW c \in Conns, NEW a \in Addrs, Accept(c, a)
        PROVE  KeepsIdOK' /\ \A d \in Conns : (pc[d] # "unwrapPanic")' /\ ListsSelf(d)'
    <3>1. /\ pc[c] = "idle" /\ pc'[c] = "lookup"
          /\ UNCHANGED <<ident, known, utype, roster, byId, byIp>>
          /\ \A d \in Conns : d # c => pc'[d] = pc[d] /\ addr'[d] = addr[d]
      BY <1>0, <2>2 DEF Accept, Goto, maps, TaskTypeOK
    <3>2. ASSUME NEW e \in Conns, Replacing(e) PROVE e # c /\ Replacing(e)'
      BY <3>1, <3>2 DEF Replacing, ChangesType
    <3>3. KeepsIdOK'
      BY <1>2, <3>1, <3>2 DEF KeepsIdOK
    <3> QED BY <1>2, <3>1, <3>3 DEF ListsSelf, Completing, Reconnecting
  <2>3. CASE RelayStep \/ Quiet \/ UNCHANGED vars
    BY <1>2, <2>3, RelaysKeep DEF KeepsIdOK, Replacing, ChangesType, ListsSelf, Reconnecting
  <2> QED BY <2>1, <2>2, <2>3 DEF Next, ClientStep, TaskStep
<1> QED BY <1>3, <1>4 DEF UnwrapSafe, RosterListsSelf, ListsSelf, Completing

LEMMA PatientInit == Init => PatientInv
<1> SUFFICES ASSUME Init PROVE OneAtATimeOK /\ KeepsIdOK /\ UnwrapSafe /\ RosterListsSelf
  BY DEF PatientInv
<1> USE DEF Init
<1>1. OneAtATimeOK
  BY NoneAssumption DEF OneAtATimeOK, Alone, Active, FreshAt, FoundAt, Fresh, Found, MirrorAt
<1> QED BY <1>1 DEF KeepsIdOK, UnwrapSafe, RosterListsSelf

\* PatientInv holds in every state: with one handshake per address at a time, and
\* until ids wrap, perform_handshake and drop_user keep the registries in step.
THEOREM PatientInvariance == Spec => []PatientInv
<1>1. Init => PatientInv
  BY PatientInit
<1>2. Inv /\ PatientInv /\ [Next]_vars => PatientInv'
  BY PatientStep
<1> QED BY <1>1, <1>2, Invariance, PTL DEF Spec

\* The unwrap() of the reconnection branch of perform_handshake finds its session.
THEOREM UnwrapIsSafe == Spec => []UnwrapSafe
<1>1. PatientInv => UnwrapSafe
  BY DEF PatientInv, UnwrapSafe
<1> QED BY <1>1, PatientInvariance, PTL

\* A completion lists its own user exactly when the user reconnects.
THEOREM RosterIsRight == Spec => []RosterListsSelf
<1>1. PatientInv => RosterListsSelf
  BY DEF PatientInv, RosterListsSelf
<1> QED BY <1>1, PatientInvariance, PTL

\* Between the handshakes of an address clients_by_id and clients_by_ip agree.
THEOREM Mirroring == Spec => []RegistriesMirror
<1>1. Inv /\ PatientInv => RegistriesMirror
  <2> SUFFICES ASSUME Inv, PatientInv, OneAtATime, NoWrap, NEW i \in Ids,
                      byId[i] # None, Settled(addr[byId[i]])
               PROVE  ident[byId[i]] = i /\ byIp[addr[byId[i]]] = byId[i]
    BY DEF RegistriesMirror
  <2>1. /\ byId[i] \in Conns /\ ident[byId[i]] = i
        /\ pc[byId[i]] \in {"insertIp", "done"}
    BY DEF Inv, Shape, MapsTypeOK, ByIdOK
  <2>2. pc[byId[i]] = "done"
    BY <2>1 DEF Settled, Active, Final
  <2>3. addr[byId[i]] \in Addrs
    BY <2>1, <2>2 DEF Inv, Shape, LabelsOK
  <2> QED BY <2>1, <2>2, <2>3 DEF PatientInv, OneAtATimeOK, MirrorAt
<1> QED BY <1>1, Invariance, PatientInvariance, PTL

\* An address whose handshakes run one after the other always gets the same id.
THEOREM OneIdWhenPatient == Spec => []PatientOneId
<1>1. Inv /\ PatientInv => PatientOneId
  <2> SUFFICES ASSUME Inv, PatientInv, OneAtATime, NoWrap, NEW c \in Conns, NEW d \in Conns,
                      pc[c] = "done", pc[d] = "done", addr[c] = addr[d]
               PROVE  ident[c] = ident[d]
    BY DEF PatientOneId, OneIdPerAddress
  <2>1. OneAtATimeOK /\ KeepsIdOK
    BY DEF PatientInv
  <2>2. ASSUME NEW e \in Conns, Replacing(e), addr[e] = addr[c] PROVE byIp[addr[c]] = None
    BY <2>1, <2>2 DEF OneAtATimeOK, FreshAt, Fresh, Replacing, ChangesType, Reconnecting
  <2>3. ASSUME NEW e \in Conns, NEW f \in Conns, Replacing(e), Replacing(f), addr[e] = addr[f]
        PROVE  e = f
    BY <2>1, <2>3 DEF OneAtATimeOK, Alone, Replacing, Active, Final
  <2> QED BY <2>1, <2>2, <2>3 DEF KeepsIdOK
<1> QED BY <1>1, Invariance, PatientInvariance, PTL
=============================================================================
