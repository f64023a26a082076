---------------------- MODULE ExporterResources_proofs ----------------------
(***************************************************************************)
(* Theorems about ExporterResources, for every value of its constants:     *)
(* what holds at rest, what is never reported, what is left alone, and     *)
(* that it implements Projection.  As for ProbeSync, what every step may   *)
(* do to an object, a cache, the queue and the worker is summed up first.  *)
(***************************************************************************)
EXTENDS ExporterResources, TLAPS

-----------------------------------------------------------------------------
(* Types *)

\* What the API server takes for an object of the operator.
Taken(e, k) ==
  {Rendered(e, k, s) : s \in {x \in ExporterSpec : ~ Refused(e, k, Rendered(e, k, x))}}

\* An object of the operator holds what the API server took, or was edited.
Genuine(e, k, c) == Owned(c) => c.data = Tampered \/ c.data \in Taken(e, k)

AllGenuine ==
  \A e \in Exporters, k \in Kinds : Genuine(e, k, child[e][k]) /\ Genuine(e, k, childCache[e][k])

LEMMA ExporterBuilt ==
  ASSUME NEW x \in ExporterObject
  PROVE  /\ x.rv + 1 \in Nat \ {0} /\ x.gen + 1 \in Nat \ {0} /\ x.gen \in Nat
         /\ \A r \in Nat \ {0}, s \in ExporterSpec :
              [live |-> TRUE, rv |-> r, uid |-> r, gen |-> 1, spec |-> s, ready |-> 0,
               observed |-> 0] \in ExporterObject
         /\ \A r \in Nat, g \in Nat \ {0}, s \in ExporterSpec :
              [x EXCEPT !.rv = r, !.gen = g, !.spec = s] \in ExporterObject
         /\ \A r \in Nat : [x EXCEPT !.rv = r, !.live = FALSE] \in ExporterObject
         /\ \A r \in Nat, n \in Nat, o \in Nat :
              [x EXCEPT !.rv = r, !.ready = n, !.observed = o] \in ExporterObject
<1>1. x.rv + 1 \in Nat \ {0} /\ x.gen + 1 \in Nat \ {0} /\ x.gen \in Nat
  BY DEF ExporterObject
<1>2. \A r \in Nat \ {0}, s \in ExporterSpec :
        [live |-> TRUE, rv |-> r, uid |-> r, gen |-> 1, spec |-> s, ready |-> 0,
         observed |-> 0] \in ExporterObject
  BY DEF ExporterObject
<1>3. \A r \in Nat, g \in Nat \ {0}, s \in ExporterSpec :
        [x EXCEPT !.rv = r, !.gen = g, !.spec = s] \in ExporterObject
  BY DEF ExporterObject
<1>4. \A r \in Nat : [x EXCEPT !.rv = r, !.live = FALSE] \in ExporterObject
  BY DEF ExporterObject
<1>5. \A r \in Nat, n \in Nat, o \in Nat :
        [x EXCEPT !.rv = r, !.ready = n, !.observed = o] \in ExporterObject
  BY DEF ExporterObject
<1> QED BY <1>1, <1>2, <1>3, <1>4, <1>5

LEMMA ChildBuilt ==
  ASSUME NEW x \in ChildObject
  PROVE  /\ x.rv + 1 \in Nat
         /\ Removed(x) \in ChildObject /\ Removed(x).rv = x.rv + 1 /\ ~ Owned(Removed(x))
         /\ \A c \in {"none", "other"} :
              /\ Foreign(x, c) \in ChildObject
              /\ Foreign(x, c).rv = x.rv + 1 /\ ~ Owned(Foreign(x, c))
         /\ /\ [x EXCEPT !.rv = @ + 1, !.data = Tampered] \in ChildObject
            /\ [x EXCEPT !.rv = @ + 1, !.data = Tampered].data = Tampered
            /\ [x EXCEPT !.rv = @ + 1, !.data = Tampered].rv = x.rv + 1
         /\ \A n \in Nat :
              /\ [x EXCEPT !.rv = @ + 1, !.ready = n] \in ChildObject
              /\ [x EXCEPT !.rv = @ + 1, !.ready = n].rv = x.rv + 1
              /\ [x EXCEPT !.rv = @ + 1, !.ready = n].data = x.data
              /\ Owned([x EXCEPT !.rv = @ + 1, !.ready = n]) = Owned(x)
<1> USE DEF ChildObject, Owned
<1>1. x.rv + 1 \in Nat
  OBVIOUS
<1>2. Alien \in Contents /\ Tampered \in Contents
  BY DEF Contents
<1>7. \A r \in Nat, n \in Nat :
        /\ [x EXCEPT !.rv = r, !.ready = n] \in ChildObject
        /\ [x EXCEPT !.live = FALSE, !.rv = r, !.ready = n] \in ChildObject
        /\ [x EXCEPT !.rv = r, !.data = Tampered] \in ChildObject
  BY <1>2
<1>3. Removed(x) \in ChildObject /\ Removed(x).rv = x.rv + 1 /\ ~ Owned(Removed(x))
  <2>1. Removed(x) \in ChildObject
    BY <1>1, <1>7 DEF Removed
  <2>2. Removed(x).rv = x.rv + 1 /\ Removed(x).live = FALSE
    BY DEF Removed
  <2> QED BY <2>1, <2>2
<1>4. ASSUME NEW c \in {"none", "other"}
      PROVE  /\ Foreign(x, c) \in ChildObject
             /\ Foreign(x, c).rv = x.rv + 1 /\ ~ Owned(Foreign(x, c))
  <2>1. Foreign(x, c) \in ChildObject
    BY <1>2 DEF Foreign
  <2>2. Foreign(x, c).rv = x.rv + 1 /\ Foreign(x, c).controller = c
    BY DEF Foreign
  <2> QED BY <2>1, <2>2
<1>5. /\ [x EXCEPT !.rv = @ + 1, !.data = Tampered] \in ChildObject
      /\ [x EXCEPT !.rv = @ + 1, !.data = Tampered].data = Tampered
      /\ [x EXCEPT !.rv = @ + 1, !.data = Tampered].rv = x.rv + 1
  <2> DEFINE y == [x EXCEPT !.rv = @ + 1, !.data = Tampered]
  <2>1. y \in ChildObject
    BY <1>1, <1>7
  <2>2. y.data = Tampered /\ y.rv = x.rv + 1
    OBVIOUS
  <2> QED BY <2>1, <2>2
<1>6. ASSUME NEW n \in Nat
      PROVE  LET y == [x EXCEPT !.rv = @ + 1, !.ready = n]
             IN  y \in ChildObject /\ y.rv = x.rv + 1 /\ y.data = x.data /\ Owned(y) = Owned(x)
  <2> DEFINE y == [x EXCEPT !.rv = @ + 1, !.ready = n]
  <2>1. y \in ChildObject /\ y.rv = x.rv + 1 /\ y.data = x.data
    BY <1>1, <1>7
  <2>2. y.live = x.live /\ y.controller = x.controller
    OBVIOUS
  <2>3. Owned(y) = Owned(x)
    BY <2>2
  <2> QED BY <2>1, <2>3
<1> QED BY <1>1, <1>3, <1>4, <1>5, <1>6

\* What the worker wants an object to be, given what its cache holds.
Wish(e, k) ==
  [childCache[e][k] EXCEPT !.live = TRUE, !.controller = "exporter",
                           !.owner = worker.obj.uid,
                           !.data = Rendered(e, k, worker.obj.spec)]

Upgrade(e, k) == [Wish(e, k) EXCEPT !.rv = child[e][k].rv + 1]

LEMMA WishBuilt ==
  ASSUME TypeOK, NEW e \in Exporters, NEW k \in Kinds, worker.obj \in ExporterObject
  PROVE  /\ Wish(e, k) \in ChildObject /\ Upgrade(e, k) \in ChildObject
         /\ Upgrade(e, k).rv = child[e][k].rv + 1
         /\ \A w \in {Wish(e, k), Upgrade(e, k)} :
              /\ w.data = Rendered(e, k, worker.obj.spec)
              /\ w.owner = worker.obj.uid /\ Owned(w)
<1>1. /\ childCache[e][k] \in ChildObject /\ child[e][k].rv + 1 \in Nat
      /\ worker.obj.uid \in Nat /\ worker.obj.spec \in ExporterSpec
  BY DEF TypeOK, ChildObject, ExporterObject
<1>2. Rendered(e, k, worker.obj.spec) \in Contents
  BY <1>1 DEF Contents
<1>3. Wish(e, k) \in ChildObject
  BY <1>1, <1>2 DEF Wish, ChildObject
<1>4. /\ Wish(e, k).data = Rendered(e, k, worker.obj.spec)
      /\ Wish(e, k).owner = worker.obj.uid /\ Owned(Wish(e, k))
  BY <1>1 DEF Wish, ChildObject, Owned
<1>5. /\ Upgrade(e, k) \in ChildObject /\ Upgrade(e, k).rv = child[e][k].rv + 1
      /\ Upgrade(e, k).data = Rendered(e, k, worker.obj.spec)
      /\ Upgrade(e, k).owner = worker.obj.uid /\ Owned(Upgrade(e, k))
  BY <1>1, <1>3, <1>4 DEF Upgrade, ChildObject, Owned
<1> QED BY <1>3, <1>4, <1>5

\* How a reconcile of one object ends, whether something was sent or not.
LEMMA WriteEnds ==
  ASSUME NEW k \in Kinds, NEW reply, CreateOrUpdate(k, reply)
  PROVE  LET e    == worker.key
             old  == childCache[e][k]
             data == Rendered(e, k, worker.obj.spec)
             dealt == made' = [made EXCEPT ![e][k] = Version(worker.obj)]
             written == /\ Claimable(old) /\ Takes(e, k, old, data)
                        /\ WriteChild(e, k, Upgrade(e, k))
         IN  /\ worker.pc = k
             /\ UNCHANGED <<exporter, caches, exporterEvents, edits>>
             /\ UNCHANGED <<child, childEvents>> \/ written
             /\ made' = made \/ dealt
             /\ \/ Requeue
                \/ /\ worker' = [worker EXCEPT !.pc = After(k)] /\ UNCHANGED queue
                   /\ dealt
                   /\ \/ ~ Sends(k, Wish(e, k), old) /\ UNCHANGED <<child, childEvents>>
                      \/ /\ Takes(e, k, old, data) /\ ~ Changes(Wish(e, k), old)
                         /\ UNCHANGED <<child, childEvents>>
                      \/ written
BY DEF CreateOrUpdate, Done, Wish, Upgrade

LEMMA RemoveEnds ==
  ASSUME NEW reply, RemoveServiceMonitor(reply)
  PROVE  LET e       == worker.key
             dealt   == made' = [made EXCEPT ![e]["monitor"] = Version(worker.obj)]
             written == WriteChild(e, "monitor", Removed(child[e]["monitor"]))
         IN  /\ worker.pc = "monitor" /\ ~ worker.obj.spec.monitor
             /\ UNCHANGED <<exporter, caches, exporterEvents, edits>>
             /\ UNCHANGED <<child, childEvents>> \/ written
             /\ made' = made \/ dealt
             /\ \/ Requeue
                \/ /\ worker' = [worker EXCEPT !.pc = "read"] /\ UNCHANGED queue
                   /\ dealt
                   /\ \/ ~ childCache[e]["monitor"].live /\ UNCHANGED <<child, childEvents>>
                      \/ written
BY DEF RemoveServiceMonitor, Done

\* Writing an object keeps the store well typed.
LEMMA PutExporter ==
  ASSUME TypeOK, NEW e \in Exporters, NEW obj \in ExporterObject, WriteExporter(e, obj)
  PROVE  exporter' \in [Exporters -> ExporterObject] /\ exporterEvents' \subseteq Exporters
BY DEF TypeOK, WriteExporter

LEMMA PutChild ==
  ASSUME TypeOK, NEW e \in Exporters, NEW k \in Kinds, NEW obj \in ChildObject,
         WriteChild(e, k, obj)
  PROVE  /\ child' \in [Exporters -> [Kinds -> ChildObject]]
         /\ childEvents' \subseteq Exporters \X Kinds \X BOOLEAN
<1>1. child' \in [Exporters -> [Kinds -> ChildObject]]
  BY DEF TypeOK, WriteChild
<1>2. <<e, k, Owned(child[e][k]) \/ Owned(obj)>> \in Exporters \X Kinds \X BOOLEAN
  BY DEF Owned, TypeOK, ChildObject
<1> QED BY <1>1, <1>2 DEF TypeOK, WriteChild

\* ... and what is written is there.
LEMMA PutThere ==
  ASSUME TypeOK, NEW e \in Exporters, NEW k \in Kinds, NEW obj, WriteChild(e, k, obj)
  PROVE  /\ child'[e][k] = obj
         /\ \A o \in Exporters, l \in Kinds : <<o, l>> # <<e, k>> => child'[o][l] = child[o][l]
BY DEF TypeOK, WriteChild

\* A worker that is not idle is at work.
LEMMA Working ==
  ASSUME TypeOK, worker.pc # "idle"
  PROVE  /\ worker \in Work
         /\ worker.key \in Exporters /\ worker.obj \in ExporterObject
         /\ worker.ready \in Nat /\ worker.obj.live
BY DEF TypeOK, Idle, Work

LEMMA WorkBuilt ==
  ASSUME NEW w \in Work
  PROVE  /\ \A pc \in Kinds \cup {"read", "status"} :
              /\ [w EXCEPT !.pc = pc] \in Work
              /\ [w EXCEPT !.pc = pc].pc = pc
              /\ [w EXCEPT !.pc = pc].key = w.key /\ [w EXCEPT !.pc = pc].obj = w.obj
         /\ \A n \in Nat :
              /\ [w EXCEPT !.pc = "status", !.ready = n] \in Work
              /\ [w EXCEPT !.pc = "status", !.ready = n].key = w.key
              /\ [w EXCEPT !.pc = "status", !.ready = n].obj = w.obj
              /\ [w EXCEPT !.pc = "status", !.ready = n].ready = n
BY DEF Work

LEMMA KindsGoOn ==
  ASSUME NEW k \in Kinds
  PROVE  After(k) \in Kinds \cup {"read", "status"} /\ k # "idle" /\ After(k) # "idle"
BY DEF Kinds, After

\* Pods of a Deployment of the operator's get ready.
LEMMA PodsTargetBuilt ==
  ASSUME TypeOK, AllGenuine, NEW e \in Exporters, Owned(child[e]["deployment"]),
         ~ PodsSettled(child[e]["deployment"])
  PROVE  PodsTarget(child[e]["deployment"]) \in Nat
<1> DEFINE c == child[e]["deployment"]
<1>1. "deployment" \in Kinds
  BY DEF Kinds
<1>2. c \in ChildObject /\ c.ready \in Nat
  BY <1>1 DEF TypeOK, ChildObject
<1>3. c.data \in Taken(e, "deployment")
  BY <1>1 DEF AllGenuine, Genuine, PodsSettled
<1>4. PICK s \in ExporterSpec : c.data = Deployment(e, s)
  BY <1>3 DEF Taken, Rendered
<1>5. s.replicas \in Nat
  <2>1. s \in Specs /\ Admitted(s)
    BY DEF ExporterSpec
  <2>2. s.replicas \in Int
    BY <2>1, ContentAssumption DEF ContentAssumption
  <2>3. s.replicas >= 0
    BY <2>1 DEF Admitted
  <2> QED BY <2>2, <2>3
<1>6. c.data.replicas = s.replicas
  BY <1>4 DEF Deployment
<1> QED BY <1>2, <1>5, <1>6 DEF PodsTarget

LEMMA TypeInit == Init => TypeOK
<1> SUFFICES ASSUME Init PROVE TypeOK
  OBVIOUS
<1>1. \A l \in BOOLEAN, s \in ExporterSpec :
        [live |-> l, rv |-> 1, uid |-> 1, gen |-> 1, spec |-> s, ready |-> 0,
         observed |-> 0] \in ExporterObject
  BY DEF ExporterObject
<1>2. Absent \in ChildObject
  BY DEF Absent, ChildObject, Contents
<1>3. Strangers \subseteq ChildObject
  BY <1>2, ChildBuilt DEF Strangers
<1>4. exporter \in [Exporters -> ExporterObject]
  BY <1>1 DEF Init
<1>5. child \in [Exporters -> [Kinds -> ChildObject]]
  BY <1>2, <1>3 DEF Init
<1>6. worker = Idle /\ Idle.pc = "idle"
  BY DEF Init, Idle
<1>7. /\ made \in [Exporters -> [Kinds -> Nat]] /\ edits \in Nat /\ queue \subseteq Exporters
      /\ exporterCache = exporter /\ childCache = child
      /\ exporterEvents = {} /\ childEvents = {}
  BY DEF Init
<1> QED BY <1>4, <1>5, <1>6, <1>7 DEF TypeOK

LEMMA TypeUsers == TypeOK /\ Users => TypeOK'
<1> SUFFICES ASSUME TypeOK, Users PROVE TypeOK'
  OBVIOUS
<1> USE DEF Edit, caches
<1>1. ASSUME NEW e \in Exporters, NEW s \in ExporterSpec,
             CreateExporter(e, s) \/ EditExporter(e, s)
      PROVE  TypeOK'
  <2>1. exporter[e] \in ExporterObject
    BY DEF TypeOK
  <2>2. CASE CreateExporter(e, s)
    <3>1. \E obj \in ExporterObject : WriteExporter(e, obj)
      BY <2>1, <2>2, ExporterBuilt DEF CreateExporter
    <3> QED BY <3>1, <2>2, PutExporter DEF CreateExporter, TypeOK
  <2>3. CASE EditExporter(e, s)
    <3>1. \E obj \in ExporterObject : WriteExporter(e, obj)
      BY <2>1, <2>3, ExporterBuilt DEF EditExporter
    <3> QED BY <3>1, <2>3, PutExporter DEF EditExporter, TypeOK
  <2> QED BY <1>1, <2>2, <2>3
<1>2. ASSUME NEW e \in Exporters, DeleteExporter(e) PROVE TypeOK'
  <2>1. exporter[e] \in ExporterObject
    BY DEF TypeOK
  <2>2. \E obj \in ExporterObject : WriteExporter(e, obj)
    BY <2>1, <1>2, ExporterBuilt DEF DeleteExporter
  <2> QED BY <2>2, <1>2, PutExporter DEF DeleteExporter, TypeOK
<1>3. ASSUME NEW e \in Exporters, NEW k \in Kinds, EditChild(e, k) \/ DeleteChild(e, k)
      PROVE  TypeOK'
  <2>1. child[e][k] \in ChildObject
    BY DEF TypeOK
  <2>2. \E obj \in ChildObject : WriteChild(e, k, obj)
    BY <2>1, <1>3, ChildBuilt DEF EditChild, DeleteChild
  <2> QED BY <2>2, <1>3, PutChild DEF EditChild, DeleteChild, TypeOK
<1>4. ASSUME NEW e \in Exporters, NEW k \in Kinds, NEW c \in {"none", "other"},
             CreateForeign(e, k, c)
      PROVE  TypeOK'
  <2>1. child[e][k] \in ChildObject
    BY DEF TypeOK
  <2>2. \E obj \in ChildObject : WriteChild(e, k, obj)
    BY <2>1, <1>4, ChildBuilt DEF CreateForeign
  <2> QED BY <2>2, <1>4, PutChild DEF CreateForeign, TypeOK
<1> QED BY <1>1, <1>2, <1>3, <1>4 DEF Users

LEMMA TypeEnvironment == TypeOK /\ AllGenuine /\ Environment => TypeOK'
<1> SUFFICES ASSUME TypeOK, AllGenuine, Environment PROVE TypeOK'
  OBVIOUS
<1> USE DEF Edit, objects, caches, events
<1>0. "deployment" \in Kinds /\ \A e \in Exporters, k \in Kinds : child[e][k] \in ChildObject
  BY DEF TypeOK, Kinds
<1>1. CASE Restart
  BY <1>1 DEF Restart, TypeOK, Idle
<1>2. ASSUME NEW e \in Exporters, Resync(e) PROVE TypeOK'
  BY <1>2 DEF Resync, TypeOK
<1>3. ASSUME NEW e \in Exporters, DeliverExporter(e) PROVE TypeOK'
  BY <1>3 DEF DeliverExporter, TypeOK
<1>4. ASSUME NEW e \in Exporters, PodsChange(e) PROVE TypeOK'
  <2>1. PodsTarget(child[e]["deployment"]) \in Nat
    BY <1>4, PodsTargetBuilt DEF PodsChange
  <2>2. \E obj \in ChildObject : WriteChild(e, "deployment", obj)
    BY <1>0, <1>4, <2>1, ChildBuilt DEF PodsChange
  <2> QED BY <1>0, <2>2, <1>4, PutChild DEF PodsChange, TypeOK
<1>5. ASSUME NEW e \in Exporters, PodsFail(e) PROVE TypeOK'
  <2>1. \E obj \in ChildObject : WriteChild(e, "deployment", obj)
    BY <1>0, <1>5, ChildBuilt DEF PodsFail
  <2> QED BY <1>0, <2>1, <1>5, PutChild DEF PodsFail, TypeOK
<1>6. ASSUME NEW e \in Exporters, NEW k \in Kinds, CollectGarbage(e, k) PROVE TypeOK'
  <2>1. edits' \in Nat /\ UNCHANGED made
    BY <1>6 DEF CollectGarbage, TypeOK
  <2>2. \E obj \in ChildObject : WriteChild(e, k, obj)
    BY <1>0, <1>6, ChildBuilt DEF CollectGarbage
  <2> QED BY <2>1, <2>2, <1>6, PutChild DEF CollectGarbage, TypeOK
<1>7. ASSUME NEW e \in Exporters, NEW k \in Kinds, DeliverChild(e, k) PROVE TypeOK'
  BY <1>7 DEF DeliverChild, TypeOK
<1> QED BY <1>1, <1>2, <1>3, <1>4, <1>5, <1>6, <1>7 DEF Environment

LEMMA VersionBuilt == \A x \in ExporterObject : Version(x) \in Nat
BY DEF ExporterObject, Version

LEMMA MadeBuilt ==
  ASSUME TypeOK, NEW e \in Exporters, NEW k \in Kinds, NEW v \in Nat
  PROVE  /\ [made EXCEPT ![e][k] = v] \in [Exporters -> [Kinds -> Nat]]
         /\ [made EXCEPT ![e][k] = v][e][k] = v
         /\ \A o \in Exporters, l \in Kinds :
              <<o, l>> # <<e, k>> => [made EXCEPT ![e][k] = v][o][l] = made[o][l]
BY DEF TypeOK

LEMMA TypeReconcile == TypeOK /\ Reconcile => TypeOK'
<1> SUFFICES ASSUME TypeOK, Reconcile PROVE TypeOK'
  OBVIOUS
<1> USE DEF Requeue, objects, caches, events
<1>1. ASSUME NEW e \in Exporters, GetExporter(e) PROVE TypeOK'
  <2>1. exporterCache[e] \in ExporterObject /\ exporterCache[e].ready \in Nat
    BY DEF TypeOK, ExporterObject
  <2>2. [pc |-> "deployment", key |-> e, obj |-> exporterCache[e],
         ready |-> exporterCache[e].ready] \in Work
    BY <2>1 DEF Work, Kinds
  <2> QED BY <1>1, <2>2 DEF GetExporter, TypeOK, Idle
<1>2. ASSUME NEW k \in Kinds, NEW reply, CreateOrUpdate(k, reply) PROVE TypeOK'
  <2>1. worker \in Work /\ worker.key \in Exporters /\ worker.obj \in ExporterObject
        /\ worker.obj.live
    BY <1>2, Working, KindsGoOn DEF CreateOrUpdate
  <2>2. Upgrade(worker.key, k) \in ChildObject
    BY <2>1, WishBuilt
  <2>3. /\ child' \in [Exporters -> [Kinds -> ChildObject]]
        /\ childEvents' \subseteq Exporters \X Kinds \X BOOLEAN
    <3>1. UNCHANGED <<child, childEvents>> \/ WriteChild(worker.key, k, Upgrade(worker.key, k))
      BY <1>2, WriteEnds
    <3> QED BY <2>1, <2>2, <3>1, PutChild DEF TypeOK
  <2>4. made' \in [Exporters -> [Kinds -> Nat]]
    <3>1. made' = made \/ made' = [made EXCEPT ![worker.key][k] = Version(worker.obj)]
      BY <1>2, WriteEnds
    <3>2. Version(worker.obj) \in Nat
      BY <2>1, VersionBuilt
    <3>3. [made EXCEPT ![worker.key][k] = Version(worker.obj)] \in [Exporters -> [Kinds -> Nat]]
      BY <2>1, <3>2, MadeBuilt
    <3> QED BY <3>1, <3>3 DEF TypeOK
  <2>5. /\ worker' \in {Idle} \cup Work /\ queue' \subseteq Exporters
        /\ worker'.pc # "idle" => worker'.obj.live
    <3>1. Requeue \/ (worker' = [worker EXCEPT !.pc = After(k)] /\ UNCHANGED queue)
      BY <1>2, WriteEnds
    <3>2. CASE Requeue
      BY <2>1, <3>2 DEF TypeOK, Idle
    <3>3. CASE worker' = [worker EXCEPT !.pc = After(k)] /\ UNCHANGED queue
      BY <2>1, <3>3, WorkBuilt, KindsGoOn DEF TypeOK
    <3> QED BY <3>1, <3>2, <3>3
  <2> QED BY <1>2, <2>3, <2>4, <2>5, WriteEnds DEF TypeOK
<1>3. ASSUME NEW reply, RemoveServiceMonitor(reply) PROVE TypeOK'
  <2>1. worker \in Work /\ worker.key \in Exporters /\ worker.obj \in ExporterObject
        /\ worker.obj.live
    BY <1>3, Working DEF RemoveServiceMonitor
  <2>0. "monitor" \in Kinds
    BY DEF Kinds
  <2>2. Removed(child[worker.key]["monitor"]) \in ChildObject
    <3>1. child[worker.key]["monitor"] \in ChildObject
      BY <2>0, <2>1 DEF TypeOK
    <3> QED BY <3>1, ChildBuilt
  <2>3. /\ child' \in [Exporters -> [Kinds -> ChildObject]]
        /\ childEvents' \subseteq Exporters \X Kinds \X BOOLEAN
    <3>1. \/ UNCHANGED <<child, childEvents>>
          \/ WriteChild(worker.key, "monitor", Removed(child[worker.key]["monitor"]))
      BY <1>3, RemoveEnds
    <3> QED BY <2>0, <2>1, <2>2, <3>1, PutChild DEF TypeOK
  <2>4. made' \in [Exporters -> [Kinds -> Nat]]
    <3>1. made' = made \/ made' = [made EXCEPT ![worker.key]["monitor"] = Version(worker.obj)]
      BY <1>3, RemoveEnds
    <3>2. Version(worker.obj) \in Nat
      BY <2>1, VersionBuilt
    <3>3. [made EXCEPT ![worker.key]["monitor"] = Version(worker.obj)]
            \in [Exporters -> [Kinds -> Nat]]
      BY <2>0, <2>1, <3>2, MadeBuilt
    <3> QED BY <3>1, <3>3 DEF TypeOK
  <2>5. /\ worker' \in {Idle} \cup Work /\ queue' \subseteq Exporters
        /\ worker'.pc # "idle" => worker'.obj.live
    <3>1. Requeue \/ (worker' = [worker EXCEPT !.pc = "read"] /\ UNCHANGED queue)
      BY <1>3, RemoveEnds
    <3>2. CASE Requeue
      BY <2>1, <3>2 DEF TypeOK, Idle
    <3>3. CASE worker' = [worker EXCEPT !.pc = "read"] /\ UNCHANGED queue
      BY <2>1, <3>3, WorkBuilt DEF TypeOK
    <3> QED BY <3>1, <3>2, <3>3
  <2> QED BY <1>3, <2>3, <2>4, <2>5, RemoveEnds DEF TypeOK
<1>4. CASE ReadDeployment
  <2>1. worker \in Work /\ worker.key \in Exporters /\ worker.obj.live /\ worker.ready \in Nat
    BY <1>4, Working DEF ReadDeployment
  <2>2. childCache[worker.key]["deployment"].ready \in Nat
    BY <2>1 DEF TypeOK, ChildObject, Kinds
  <2>3. PICK n \in Nat : worker' = [worker EXCEPT !.pc = "status", !.ready = n]
    BY <1>4, <2>1, <2>2 DEF ReadDeployment
  <2>4. worker' \in Work /\ worker'.obj.live
    <3>1. worker' \in Work /\ worker'.obj = worker.obj
      BY <2>1, <2>3, WorkBuilt
    <3> QED BY <2>1, <3>1
  <2> QED BY <1>4, <2>4 DEF ReadDeployment, TypeOK
<1>5. ASSUME NEW reply \in Replies, UpdateStatus(reply) PROVE TypeOK'
  <2>1. /\ worker.key \in Exporters /\ worker.obj \in ExporterObject /\ worker.ready \in Nat
        /\ worker.obj.gen \in Nat /\ exporter[worker.key] \in ExporterObject
    BY <1>5, Working DEF UpdateStatus, TypeOK, ExporterObject
  <2> DEFINE obj == [worker.obj EXCEPT !.ready = worker.ready, !.observed = worker.obj.gen]
  <2>2. obj.ready = worker.ready /\ obj.observed = worker.obj.gen
    BY <2>1 DEF ExporterObject
  <2>3. [exporter[worker.key] EXCEPT !.rv = @ + 1, !.ready = obj.ready,
                                     !.observed = obj.observed] \in ExporterObject
    BY <2>1, <2>2, ExporterBuilt
  <2>4. exporter' \in [Exporters -> ExporterObject] /\ exporterEvents' \subseteq Exporters
    BY <1>5, <2>1, <2>3, PutExporter DEF UpdateStatus, TypeOK
  <2> QED BY <1>5, <2>1, <2>4 DEF UpdateStatus, TypeOK, Idle
<1> QED
  BY <1>1, <1>2, <1>3, <1>4, <1>5
  DEF Reconcile, ReconcileDeployment, ReconcileService, ReconcileServiceMonitor, Kinds

LEMMA TypeNext == TypeOK /\ AllGenuine /\ [Next]_vars => TypeOK'
<1>1. CASE UNCHANGED vars
  BY <1>1 DEF TypeOK, vars, objects, caches, events
<1> QED BY <1>1, TypeUsers, TypeEnvironment, TypeReconcile DEF Next

-----------------------------------------------------------------------------
(* The inductive invariant *)

\* An earlier state of an object, as a cache or the worker may have it: an older
\* resourceVersion, or the same object.
Older(a, b) == a.rv <= b.rv /\ Version(a) <= Version(b) /\ (a.rv = b.rv => a = b)

OlderChild(a, b) == a.rv <= b.rv /\ (a.rv = b.rv => a = b)

Busy(e) == worker.pc # "idle" /\ worker.key = e

\* Another reconcile of e is certain, whatever the worker does.
Waiting(e) == e \in exporterEvents \cup queue \/ \E k \in Kinds : <<e, k, TRUE>> \in childEvents

\* What the worker has dealt with before it comes to pc.
Passed(pc) ==
  {k \in Kinds : \/ pc \in {"read", "status"}
                 \/ k = "deployment" /\ pc \in {"service", "monitor"}
                 \/ k = "service" /\ pc = "monitor"}

\* The object is the one this state of the exporter asks for.
Stands(e, k, obj) ==
  IF Wanted(k, obj.spec)
    THEN /\ Owned(child[e][k]) /\ child[e][k].owner = obj.uid
         /\ child[e][k].data = Rendered(e, k, obj.spec)
    ELSE ~ Owned(child[e][k])

Settled(e) ==
  /\ exporter[e].observed = exporter[e].gen
  /\ exporter[e].ready = child[e]["deployment"].ready
  /\ \A k \in Kinds : Stands(e, k, exporter[e])

Accepted(e, k, spec) == Wanted(k, spec) => ~ Refused(e, k, Rendered(e, k, spec))

\* Versions grow, and everything was made from a version that was there.
Versions ==
  \A e \in Exporters :
    /\ Version(exporter[e]) <= exporter[e].rv
    /\ Older(exporterCache[e], exporter[e])
    /\ \A k \in Kinds : /\ OlderChild(childCache[e][k], child[e][k])
                        /\ made[e][k] <= Version(exporterCache[e])
    /\ Busy(e) => /\ Older(worker.obj, exporter[e])
                  /\ Version(worker.obj) <= Version(exporterCache[e])
                  /\ \A k \in Kinds : made[e][k] <= Version(worker.obj)
                  /\ \A k \in Passed(worker.pc) : made[e][k] = Version(worker.obj)

\* What was observed, or has been dealt with, is nothing the API server refuses.
Unrefused ==
  \A e \in Exporters :
    /\ exporter[e].observed <= exporter[e].gen
    /\ exporter[e].observed = exporter[e].gen =>
         \A k \in Kinds : Accepted(e, k, exporter[e].spec)
    /\ Busy(e) => \A k \in Passed(worker.pc) : Accepted(e, k, worker.obj.spec)

\* A cached object that is not current, of the operator's or once of the
\* operator's, has an event that says so.
Known(e, k) ==
  \/ childCache[e][k] = child[e][k]
  \/ ~ Owned(childCache[e][k]) /\ ~ Owned(child[e][k])
  \/ <<e, k, TRUE>> \in childEvents

\* What is not up to date will be looked at again.
Noticed ==
  \A e \in Exporters :
    /\ exporterCache[e] = exporter[e] \/ e \in exporterEvents
    /\ \A k \in Kinds : Known(e, k)
    /\ Busy(e) => worker.obj = exporter[e] \/ Waiting(e)
    /\ Busy(e) => \A k \in Passed(worker.pc) : Stands(e, k, worker.obj) \/ Waiting(e)
    /\ Busy(e) /\ worker.pc = "status" =>
         worker.ready = child[e]["deployment"].ready \/ Waiting(e)
    /\ exporter[e].live => Settled(e) \/ Pending(e)

LEMMA PassedKinds ==
  /\ \A k \in Kinds : Passed(After(k)) = Passed(k) \cup {k}
  /\ Passed("read") = Kinds /\ Passed("status") = Kinds /\ Passed("deployment") = {}
<1>1. \A k \in Kinds : \A l \in Kinds : l \in Passed(After(k)) <=> l \in Passed(k) \cup {k}
  BY DEF Kinds, After, Passed
<1>2. \A k \in Kinds : Passed(After(k)) = Passed(k) \cup {k}
  BY <1>1 DEF Passed
<1>3. Passed("read") = Kinds /\ Passed("status") = Kinds /\ Passed("deployment") = {}
  BY DEF Kinds, Passed
<1> QED BY <1>2, <1>3

-----------------------------------------------------------------------------
(* What a step does to each object                                         *)

\* A user's write of a BlackboxExporter.
Revised(e) ==
  /\ edits' = edits + 1
  /\ \/ /\ exporter'[e].uid = exporter[e].rv + 1 /\ exporter'[e].gen = 1
        /\ exporter'[e].observed = 0
     \/ /\ exporter'[e].uid = exporter[e].uid /\ exporter'[e].gen = exporter[e].gen + 1
        /\ exporter'[e].observed = exporter[e].observed
     \/ /\ exporter'[e].uid = exporter[e].uid /\ exporter'[e].gen = exporter[e].gen
        /\ exporter'[e].observed = exporter[e].observed
        /\ exporter'[e].spec = exporter[e].spec /\ ~ exporter'[e].live

\* The worker's write of its status.
StatusWritten(e) ==
  /\ Busy(e) /\ worker.pc = "status" /\ Current(exporter[e], worker.obj)
  /\ exporter'[e].uid = exporter[e].uid /\ exporter'[e].gen = exporter[e].gen
  /\ exporter'[e].spec = exporter[e].spec /\ exporter'[e].observed = worker.obj.gen
  /\ edits' = edits

ExporterStepped(e) ==
  \/ exporter'[e] = exporter[e]
  \/ /\ exporter'[e].rv = exporter[e].rv + 1 /\ e \in exporterEvents' /\ UNCHANGED made
     /\ Revised(e) \/ StatusWritten(e)

LEMMA ExporterStep ==
  ASSUME TypeOK, [Next]_vars, NEW e \in Exporters
  PROVE  ExporterStepped(e)
<1>0. /\ exporter \in [Exporters -> ExporterObject] /\ edits \in Nat
      /\ \A o \in Exporters : exporter[o] \in ExporterObject
  BY DEF TypeOK
<1>. UNCHANGED exporter => ExporterStepped(e)
  BY DEF ExporterStepped
<1>1. CASE UNCHANGED vars
  BY <1>1 DEF vars, objects
<1>2. ASSUME NEW o \in Exporters, NEW s \in ExporterSpec, CreateExporter(o, s)
      PROVE  ExporterStepped(e)
  BY <1>2, <1>0 DEF ExporterStepped, CreateExporter, WriteExporter, Edit, Revised
<1>3. ASSUME NEW o \in Exporters, NEW s \in ExporterSpec, EditExporter(o, s)
      PROVE  ExporterStepped(e)
  BY <1>3, <1>0 DEF ExporterStepped, EditExporter, WriteExporter, Edit, Revised, ExporterObject
<1>4. ASSUME NEW o \in Exporters, DeleteExporter(o) PROVE ExporterStepped(e)
  BY <1>4, <1>0 DEF ExporterStepped, DeleteExporter, WriteExporter, Edit, Revised, ExporterObject
<1>5. ASSUME NEW reply \in Replies, UpdateStatus(reply) PROVE ExporterStepped(e)
  <2>1. worker.pc = "status" /\ worker.key \in Exporters /\ worker.obj \in ExporterObject
    BY <1>5, Working DEF UpdateStatus
  <2> DEFINE obj == [worker.obj EXCEPT !.ready = worker.ready, !.observed = worker.obj.gen]
             new == [exporter[worker.key] EXCEPT !.rv = @ + 1, !.ready = obj.ready,
                                                 !.observed = obj.observed]
  <2>2. obj.observed = worker.obj.gen
    BY <2>1 DEF ExporterObject
  <2>3. UNCHANGED exporter \/ (/\ Current(exporter[worker.key], worker.obj)
                               /\ WriteExporter(worker.key, new))
    BY <1>5 DEF UpdateStatus
  <2>4. CASE Current(exporter[worker.key], worker.obj) /\ WriteExporter(worker.key, new)
    <3>1. exporter' = [exporter EXCEPT ![worker.key] = new]
      BY <2>4 DEF WriteExporter
    <3>2. CASE e = worker.key
      <4>1. exporter'[e] = new
        BY <3>1, <3>2, <1>0
      <4>2. /\ new.rv = exporter[e].rv + 1 /\ new.uid = exporter[e].uid
            /\ new.gen = exporter[e].gen /\ new.spec = exporter[e].spec
            /\ new.observed = worker.obj.gen
        BY <2>2, <3>2, <1>0 DEF ExporterObject
      <4>3. e \in exporterEvents' /\ edits' = edits /\ UNCHANGED made
        BY <1>5, <2>4, <3>2 DEF WriteExporter, UpdateStatus
      <4>4. StatusWritten(e)
        BY <2>1, <2>4, <3>2, <4>1, <4>2, <4>3 DEF StatusWritten, Busy
      <4> QED BY <4>1, <4>2, <4>3, <4>4 DEF ExporterStepped
    <3>3. CASE e # worker.key
      BY <3>1, <3>3, <1>0 DEF ExporterStepped
    <3> QED BY <3>2, <3>3
  <2> QED BY <2>3, <2>4
<1>6. CASE Environment
  BY <1>6 DEF Environment, Restart, Resync, CollectGarbage, DeliverExporter, DeliverChild,
              PodsChange, PodsFail, objects
<1>7. ASSUME NEW k \in Kinds, NEW reply, CreateOrUpdate(k, reply) PROVE ExporterStepped(e)
  BY <1>7, WriteEnds
<1>8. ASSUME NEW reply, RemoveServiceMonitor(reply) PROVE ExporterStepped(e)
  BY <1>8, RemoveEnds
<1> QED
  BY <1>1, <1>2, <1>3, <1>4, <1>5, <1>6, <1>7, <1>8
  DEF Next, Users, Reconcile, CreateForeign, EditChild, DeleteChild, GetExporter,
      ReadDeployment, ReconcileDeployment, ReconcileService, ReconcileServiceMonitor, Kinds,
      objects

\* A new version of a child is an event, which is about this operator if the
\* object was or is its own; and it is genuine.
ChildStepped(e, k) ==
  /\ Genuine(e, k, child'[e][k])
  /\ \/ child'[e][k] = child[e][k]
     \/ /\ child'[e][k].rv = child[e][k].rv + 1
        /\ <<e, k, Owned(child[e][k]) \/ Owned(child'[e][k])>> \in childEvents'

LEMMA PutChildStep ==
  ASSUME TypeOK, AllGenuine, NEW e \in Exporters, NEW k \in Kinds, NEW o \in Exporters,
         NEW l \in Kinds, NEW obj, obj.rv = child[o][l].rv + 1, Genuine(o, l, obj),
         WriteChild(o, l, obj)
  PROVE  ChildStepped(e, k)
<1>1. CASE <<e, k>> = <<o, l>>
  <2>1. child'[e][k] = obj
    BY <1>1, PutThere
  <2>2. <<e, k, Owned(child[e][k]) \/ Owned(obj)>> \in childEvents'
    BY <1>1 DEF WriteChild
  <2> QED BY <1>1, <2>1, <2>2 DEF ChildStepped
<1>2. CASE <<e, k>> # <<o, l>>
  <2>1. child'[e][k] = child[e][k]
    BY <1>2, PutThere
  <2> QED BY <2>1 DEF ChildStepped, AllGenuine
<1> QED BY <1>1, <1>2

LEMMA WishGenuine ==
  ASSUME TypeOK, NEW e \in Exporters, NEW k \in Kinds, worker.obj \in ExporterObject,
         ~ Refused(e, k, Rendered(e, k, worker.obj.spec))
  PROVE  Genuine(e, k, Upgrade(e, k))
<1>1. worker.obj.spec \in ExporterSpec
  BY DEF ExporterObject
<1>2. Rendered(e, k, worker.obj.spec) \in Taken(e, k)
  BY <1>1 DEF Taken
<1> QED BY <1>2, WishBuilt DEF Genuine

LEMMA ChildStep ==
  ASSUME TypeOK, AllGenuine, [Next]_vars, NEW e \in Exporters, NEW k \in Kinds
  PROVE  ChildStepped(e, k)
<1>0. /\ \A o \in Exporters, l \in Kinds : child[o][l] \in ChildObject
      /\ \A o \in Exporters, l \in Kinds : Genuine(o, l, child[o][l])
      /\ "deployment" \in Kinds /\ "monitor" \in Kinds
  BY DEF TypeOK, AllGenuine, Kinds
<1>. UNCHANGED child => ChildStepped(e, k)
  BY <1>0 DEF ChildStepped
<1>1. CASE UNCHANGED vars
  BY <1>1 DEF vars, objects
<1>2. ASSUME NEW o \in Exporters, NEW l \in Kinds, NEW c \in {"none", "other"},
             CreateForeign(o, l, c)
      PROVE  ChildStepped(e, k)
  <2>1. Foreign(child[o][l], c).rv = child[o][l].rv + 1 /\ ~ Owned(Foreign(child[o][l], c))
    BY <1>0, ChildBuilt
  <2> QED BY <1>2, <2>1, PutChildStep DEF CreateForeign, Genuine
<1>3. ASSUME NEW o \in Exporters, NEW l \in Kinds, EditChild(o, l) PROVE ChildStepped(e, k)
  <2> DEFINE obj == [child[o][l] EXCEPT !.rv = @ + 1, !.data = Tampered]
  <2>1. obj.rv = child[o][l].rv + 1 /\ obj.data = Tampered
    BY <1>0, ChildBuilt
  <2> QED BY <1>3, <2>1, PutChildStep DEF EditChild, Genuine
<1>4. ASSUME NEW o \in Exporters, NEW l \in Kinds, DeleteChild(o, l) \/ CollectGarbage(o, l)
      PROVE  ChildStepped(e, k)
  <2>1. Removed(child[o][l]).rv = child[o][l].rv + 1 /\ ~ Owned(Removed(child[o][l]))
    BY <1>0, ChildBuilt
  <2> QED BY <1>4, <2>1, PutChildStep DEF DeleteChild, CollectGarbage, Genuine
<1>5. ASSUME NEW o \in Exporters, PodsChange(o) \/ PodsFail(o) PROVE ChildStepped(e, k)
  <2>1. PICK n \in Nat : WriteChild(o, "deployment",
                            [child[o]["deployment"] EXCEPT !.rv = @ + 1, !.ready = n])
    BY <1>5, PodsTargetBuilt DEF PodsChange, PodsFail
  <2> DEFINE obj == [child[o]["deployment"] EXCEPT !.rv = @ + 1, !.ready = n]
  <2>2. /\ obj.rv = child[o]["deployment"].rv + 1 /\ obj.data = child[o]["deployment"].data
        /\ Owned(obj) = Owned(child[o]["deployment"])
    BY <1>0, ChildBuilt
  <2>3. Genuine(o, "deployment", obj)
    BY <1>0, <2>2 DEF Genuine
  <2> QED BY <1>0, <2>1, <2>2, <2>3, PutChildStep
<1>6. ASSUME NEW l \in Kinds, NEW reply, CreateOrUpdate(l, reply) PROVE ChildStepped(e, k)
  <2>1. worker.key \in Exporters /\ worker.obj \in ExporterObject
    BY <1>6, Working, KindsGoOn DEF CreateOrUpdate
  <2>2. CASE UNCHANGED child
    BY <2>2
  <2>3. CASE /\ Takes(worker.key, l, childCache[worker.key][l],
                      Rendered(worker.key, l, worker.obj.spec))
             /\ WriteChild(worker.key, l, Upgrade(worker.key, l))
    <3>1. Genuine(worker.key, l, Upgrade(worker.key, l))
      BY <2>1, <2>3, WishGenuine DEF Takes
    <3>2. Upgrade(worker.key, l).rv = child[worker.key][l].rv + 1
      BY <2>1, WishBuilt
    <3> QED BY <2>1, <2>3, <3>1, <3>2, PutChildStep
  <2> QED BY <1>6, <2>2, <2>3, WriteEnds
<1>7. ASSUME NEW reply, RemoveServiceMonitor(reply) PROVE ChildStepped(e, k)
  <2>1. worker.key \in Exporters
    BY <1>7, Working DEF RemoveServiceMonitor
  <2> DEFINE obj == Removed(child[worker.key]["monitor"])
  <2>2. obj.rv = child[worker.key]["monitor"].rv + 1 /\ ~ Owned(obj)
    BY <1>0, <2>1, ChildBuilt
  <2>3. Genuine(worker.key, "monitor", obj)
    BY <2>2 DEF Genuine
  <2>4. UNCHANGED child \/ WriteChild(worker.key, "monitor", obj)
    BY <1>7, RemoveEnds
  <2> QED BY <1>0, <2>1, <2>2, <2>3, <2>4, PutChildStep
<1> QED
  BY <1>1, <1>2, <1>3, <1>4, <1>5, <1>6, <1>7
  DEF Next, Users, Environment, Reconcile, CreateExporter, EditExporter, DeleteExporter,
      Restart, Resync, DeliverExporter, DeliverChild, GetExporter, ReadDeployment, UpdateStatus,
      ReconcileDeployment, ReconcileService, ReconcileServiceMonitor, Kinds, objects

\* Users change objects, of which there are events, and nothing of the operator.
LEMMA UsersWrite ==
  ASSUME Users
  PROVE  /\ UNCHANGED <<exporterCache, childCache, queue>>
         /\ exporterEvents \subseteq exporterEvents' /\ childEvents \subseteq childEvents'
<1> DEFINE Goal ==
      /\ UNCHANGED <<exporterCache, childCache, queue>>
      /\ exporterEvents \subseteq exporterEvents' /\ childEvents \subseteq childEvents'
<1>1. ASSUME NEW e, NEW s, CreateExporter(e, s) PROVE Goal
  BY <1>1 DEF CreateExporter, WriteExporter, caches
<1>2. ASSUME NEW e, NEW s, EditExporter(e, s) PROVE Goal
  BY <1>2 DEF EditExporter, WriteExporter, caches
<1>3. ASSUME NEW e, DeleteExporter(e) PROVE Goal
  BY <1>3 DEF DeleteExporter, WriteExporter, caches
<1>4. ASSUME NEW e, NEW k, EditChild(e, k) \/ DeleteChild(e, k) PROVE Goal
  BY <1>4 DEF EditChild, DeleteChild, WriteChild, caches
<1>5. ASSUME NEW e, NEW k, NEW controller, CreateForeign(e, k, controller) PROVE Goal
  BY <1>5 DEF CreateForeign, WriteChild, caches
<1> QED BY <1>1, <1>2, <1>3, <1>4, <1>5 DEF Users

\* A cache stays, or catches up.
CacheStepped(e) ==
  /\ exporterCache'[e] = exporterCache[e] \/ (exporterCache'[e] = exporter[e] /\ UNCHANGED exporter)
  /\ exporterCache[e] = exporter[e] \/ e \in exporterEvents
       => exporterCache'[e] = exporter'[e] \/ e \in exporterEvents'

ChildCacheStepped(e, k) ==
  \/ childCache'[e][k] = child[e][k] /\ UNCHANGED child
  \/ /\ childCache'[e][k] = childCache[e][k]
     /\ <<e, k, TRUE>> \in childEvents => <<e, k, TRUE>> \in childEvents'

LEMMA CacheStep ==
  ASSUME TypeOK, [Next]_vars, NEW e \in Exporters
  PROVE  CacheStepped(e) /\ \A k \in Kinds : ChildCacheStepped(e, k)
<1>0. /\ exporterCache \in [Exporters -> ExporterObject]
      /\ childCache \in [Exporters -> [Kinds -> ChildObject]]
  BY DEF TypeOK
<1>1. exporter'[e] = exporter[e] \/ e \in exporterEvents'
  BY ExporterStep DEF ExporterStepped
<1> DEFINE Goal == CacheStepped(e) /\ \A k \in Kinds : ChildCacheStepped(e, k)
<1>2. CASE UNCHANGED vars
  BY <1>2 DEF vars, objects, caches, events, CacheStepped, ChildCacheStepped
<1>3. CASE Restart
  BY <1>3 DEF Restart, objects, CacheStepped, ChildCacheStepped
<1>4. ASSUME NEW o \in Exporters, DeliverExporter(o) PROVE Goal
  BY <1>4, <1>0 DEF DeliverExporter, objects, CacheStepped, ChildCacheStepped
<1>5. ASSUME NEW o \in Exporters, NEW l \in Kinds, DeliverChild(o, l) PROVE Goal
  <2>1. CacheStepped(e)
    BY <1>5 DEF DeliverChild, objects, CacheStepped
  <2>2. ASSUME NEW k \in Kinds PROVE ChildCacheStepped(e, k)
    <3>1. CASE e = o /\ k = l
      BY <1>0, <1>5, <3>1 DEF DeliverChild, objects, ChildCacheStepped
    <3>2. CASE ~ (e = o /\ k = l)
      <4>1. childCache'[e][k] = childCache[e][k]
        BY <1>0, <1>5, <3>2 DEF DeliverChild
      <4>2. <<e, k, TRUE>> \in childEvents => <<e, k, TRUE>> \in childEvents'
        BY <1>5, <3>2 DEF DeliverChild
      <4> QED BY <4>1, <4>2 DEF ChildCacheStepped
    <3> QED BY <3>1, <3>2
  <2> QED BY <2>1, <2>2
<1>6. CASE /\ UNCHANGED <<exporterCache, childCache>>
           /\ exporterEvents \subseteq exporterEvents' /\ childEvents \subseteq childEvents'
  BY <1>1, <1>6 DEF CacheStepped, ChildCacheStepped
<1>7. CASE Users
  BY <1>6, <1>7, UsersWrite
<1>8. ASSUME NEW k \in Kinds, NEW reply, CreateOrUpdate(k, reply) PROVE Goal
  BY <1>6, <1>8, WriteEnds DEF WriteChild, caches
<1>9. ASSUME NEW reply, RemoveServiceMonitor(reply) PROVE Goal
  BY <1>6, <1>9, RemoveEnds DEF WriteChild, caches
<1>10. ASSUME NEW reply, UpdateStatus(reply) PROVE Goal
  BY <1>6, <1>10 DEF UpdateStatus, WriteExporter, caches
<1>11. ASSUME NEW o \in Exporters, Resync(o) \/ PodsChange(o) \/ PodsFail(o) PROVE Goal
  BY <1>6, <1>11 DEF Resync, PodsChange, PodsFail, WriteChild, caches, events
<1>12. ASSUME NEW o \in Exporters, NEW k \in Kinds, CollectGarbage(o, k) PROVE Goal
  BY <1>6, <1>12 DEF CollectGarbage, WriteChild, caches
<1>13. CASE (\E o \in Exporters : GetExporter(o)) \/ ReadDeployment
  BY <1>6, <1>13 DEF GetExporter, ReadDeployment, caches, events
<1> QED
  BY <1>2, <1>3, <1>4, <1>5, <1>7, <1>8, <1>9, <1>10, <1>11, <1>12, <1>13
  DEF Next, Environment, Reconcile, ReconcileDeployment, ReconcileService,
      ReconcileServiceMonitor, Kinds

\* What the worker does in a step: it takes a key from the queue, has dealt with
\* an object, reads the readiness, or stops.
Begun ==
  \E e \in queue :
    /\ worker.pc = "idle"
    /\ worker' = [pc |-> "deployment", key |-> e, obj |-> exporterCache[e],
                  ready |-> exporterCache[e].ready]
    /\ UNCHANGED <<exporter, exporterCache, exporterEvents, made>>

Dealt ==
  /\ worker.pc \in Kinds /\ worker' = [worker EXCEPT !.pc = After(worker.pc)]
  /\ made' = [made EXCEPT ![worker.key][worker.pc] = Version(worker.obj)]
  /\ UNCHANGED <<exporter, exporterCache, childCache, exporterEvents, queue>>
  /\ \/ Wanted(worker.pc, worker.obj.spec) /\ \E reply : CreateOrUpdate(worker.pc, reply)
     \/ \E reply : RemoveServiceMonitor(reply)

\* It ends with an error, with the status written, or with the process.
Stopped ==
  /\ worker' = Idle
  /\ \/ worker.pc # "idle" /\ Requeue
     \/ \E reply \in Replies : UpdateStatus(reply) /\ Current(exporter[worker.key], worker.obj)
     \/ Restart
  /\ \/ UNCHANGED made
     \/ \E k \in Kinds : /\ worker.pc = k /\ UNCHANGED exporterCache
                         /\ made' = [made EXCEPT ![worker.key][k] = Version(worker.obj)]

WorkerStepped == UNCHANGED <<worker, made>> \/ Begun \/ Dealt \/ ReadDeployment \/ Stopped

LEMMA WorkerStep ==
  ASSUME TypeOK, [Next]_vars
  PROVE  WorkerStepped
<1>. UNCHANGED <<worker, made>> => WorkerStepped
  BY DEF WorkerStepped
<1>1. CASE UNCHANGED vars
  BY <1>1 DEF vars
<1>2. CASE Users
  BY <1>2 DEF Users, CreateExporter, EditExporter, DeleteExporter, CreateForeign, EditChild,
              DeleteChild, Edit
<1>3. CASE Restart
  BY <1>3 DEF Restart, Edit, Stopped, WorkerStepped
<1>4. CASE Environment /\ ~ Restart
  BY <1>4 DEF Environment, Resync, CollectGarbage, DeliverExporter, DeliverChild, PodsChange,
              PodsFail, Edit
<1>5. ASSUME NEW e \in Exporters, GetExporter(e) PROVE WorkerStepped
  <2>1. CASE exporterCache[e].live
    BY <1>5, <2>1 DEF GetExporter, Begun, WorkerStepped, objects, caches, events
  <2>2. CASE ~ exporterCache[e].live
    <3>1. worker = Idle
      BY <1>5 DEF GetExporter, TypeOK, Work, Kinds
    <3> QED BY <1>5, <2>2, <3>1 DEF GetExporter
  <2> QED BY <2>1, <2>2
<1>6. ASSUME NEW k \in Kinds, NEW reply, CreateOrUpdate(k, reply), Wanted(k, worker.obj.spec)
      PROVE  WorkerStepped
  <2>1. worker.pc = k /\ worker.pc # "idle"
    BY <1>6, KindsGoOn DEF CreateOrUpdate
  <2>2. CASE Requeue
    <3>1. made' = made \/ made' = [made EXCEPT ![worker.key][k] = Version(worker.obj)]
      BY <1>6, WriteEnds
    <3>2. UNCHANGED exporterCache
      BY <1>6 DEF CreateOrUpdate, caches
    <3> QED BY <2>1, <2>2, <3>1, <3>2 DEF Requeue, Stopped, WorkerStepped
  <2>3. CASE ~ Requeue
    <3>1. /\ worker' = [worker EXCEPT !.pc = After(k)] /\ UNCHANGED queue
          /\ made' = [made EXCEPT ![worker.key][k] = Version(worker.obj)]
          /\ UNCHANGED <<exporter, exporterCache, childCache, exporterEvents>>
      BY <1>6, <2>3, WriteEnds DEF caches
    <3> QED BY <1>6, <2>1, <3>1 DEF Dealt, WorkerStepped
  <2> QED BY <2>2, <2>3
<1>7. ASSUME NEW reply, RemoveServiceMonitor(reply) PROVE WorkerStepped
  <2>1. /\ worker.pc = "monitor" /\ "monitor" \in Kinds /\ After("monitor") = "read"
        /\ UNCHANGED <<exporter, exporterCache, childCache, exporterEvents>>
    BY <1>7 DEF RemoveServiceMonitor, Kinds, After, caches
  <2>2. CASE Requeue
    <3>1. made' = made \/ made' = [made EXCEPT ![worker.key]["monitor"] = Version(worker.obj)]
      BY <1>7, RemoveEnds
    <3> QED BY <2>1, <2>2, <3>1 DEF Requeue, Stopped, WorkerStepped
  <2>3. CASE ~ Requeue
    <3>1. /\ worker' = [worker EXCEPT !.pc = "read"] /\ UNCHANGED queue
          /\ made' = [made EXCEPT ![worker.key]["monitor"] = Version(worker.obj)]
      BY <1>7, <2>3, RemoveEnds
    <3> QED BY <1>7, <2>1, <3>1 DEF Dealt, WorkerStepped
  <2> QED BY <2>2, <2>3
<1>8. ASSUME NEW reply \in Replies, UpdateStatus(reply) PROVE WorkerStepped
  <2>1. worker.pc = "status" /\ UNCHANGED made
    BY <1>8 DEF UpdateStatus
  <2>2. CASE Current(exporter[worker.key], worker.obj) /\ reply = "ok"
    BY <1>8, <2>1, <2>2 DEF UpdateStatus, Stopped, WorkerStepped
  <2>3. CASE ~ (Current(exporter[worker.key], worker.obj) /\ reply = "ok")
    BY <1>8, <2>1, <2>3 DEF UpdateStatus, Requeue, Stopped, WorkerStepped
  <2> QED BY <2>2, <2>3
<1>9. CASE ReadDeployment
  BY <1>9 DEF WorkerStepped
<1>10. /\ "deployment" \in Kinds /\ "service" \in Kinds /\ "monitor" \in Kinds
       /\ Wanted("deployment", worker.obj.spec) /\ Wanted("service", worker.obj.spec)
       /\ worker.obj.spec.monitor => Wanted("monitor", worker.obj.spec)
  BY DEF Kinds, Wanted
<1> QED
  BY <1>1, <1>2, <1>3, <1>4, <1>5, <1>6, <1>7, <1>8, <1>9, <1>10
  DEF Next, Reconcile, ReconcileDeployment, ReconcileService, ReconcileServiceMonitor

\* Whoever waits goes on waiting, unless the worker takes the key, finds no
\* exporter, or the process starts anew without it.
WaitingStepped(e) ==
  Waiting(e) =>
    \/ Waiting(e)'
    \/ worker.pc = "idle" /\ Busy(e)'
    \/ /\ worker.pc = "idle" /\ ~ exporterCache[e].live
       /\ UNCHANGED <<exporter, exporterCache, exporterEvents>>
    \/ worker' = Idle /\ ~ exporter[e].live /\ UNCHANGED exporter

LEMMA WaitingStep ==
  ASSUME TypeOK, [Next]_vars, NEW e \in Exporters
  PROVE  WaitingStepped(e)
<1>. (/\ exporterEvents \subseteq exporterEvents' /\ childEvents \subseteq childEvents'
      /\ queue \subseteq queue') => WaitingStepped(e)
  BY DEF WaitingStepped, Waiting
<1>1. CASE UNCHANGED vars
  BY <1>1 DEF vars, events
<1>2. CASE Users
  BY <1>2, UsersWrite
<1>3. CASE Restart
  BY <1>3 DEF Restart, WaitingStepped, Waiting, objects
<1>4. ASSUME NEW o \in Exporters, DeliverExporter(o) PROVE WaitingStepped(e)
  BY <1>4 DEF DeliverExporter, WaitingStepped, Waiting
<1>5. ASSUME NEW o \in Exporters, NEW k \in Kinds, DeliverChild(o, k) PROVE WaitingStepped(e)
  BY <1>5 DEF DeliverChild, WaitingStepped, Waiting
<1>6. CASE Environment
  BY <1>3, <1>4, <1>5, <1>6 DEF Environment, Resync, CollectGarbage, PodsChange, PodsFail,
     WriteChild, events
<1>7. ASSUME NEW o \in Exporters, GetExporter(o) PROVE WaitingStepped(e)
  <2>1. CASE o # e
    BY <1>7, <2>1 DEF GetExporter, WaitingStepped, Waiting, events
  <2>2. CASE o = e /\ exporterCache[e].live
    BY <1>7, <2>2 DEF GetExporter, WaitingStepped, Busy
  <2>3. CASE o = e /\ ~ exporterCache[e].live
    BY <1>7, <2>3 DEF GetExporter, WaitingStepped, objects, caches, events
  <2> QED BY <2>1, <2>2, <2>3
<1>8. ASSUME NEW k \in Kinds, NEW reply, CreateOrUpdate(k, reply) PROVE WaitingStepped(e)
  BY <1>8, WriteEnds DEF WriteChild, Requeue
<1>9. ASSUME NEW reply, RemoveServiceMonitor(reply) PROVE WaitingStepped(e)
  BY <1>9, RemoveEnds DEF WriteChild, Requeue
<1>10. ASSUME NEW reply, UpdateStatus(reply) PROVE WaitingStepped(e)
  BY <1>10 DEF UpdateStatus, WriteExporter, Requeue
<1> QED
  BY <1>1, <1>2, <1>6, <1>7, <1>8, <1>9, <1>10
  DEF Next, Reconcile, ReadDeployment, ReconcileDeployment, ReconcileService,
      ReconcileServiceMonitor, Kinds, events

-----------------------------------------------------------------------------
(* Objects stay genuine, versions only grow                                *)

LEMMA InitUnowned == Init => \A e \in Exporters, k \in Kinds : ~ Owned(child[e][k])
<1> SUFFICES ASSUME Init, NEW e \in Exporters, NEW k \in Kinds PROVE ~ Owned(child[e][k])
  OBVIOUS
<1>1. child[e][k] \in {Absent} \cup Strangers
  BY DEF Init
<1> QED BY <1>1 DEF Absent, Strangers, Foreign, Owned

LEMMA GenuineInit == Init => AllGenuine
BY InitUnowned DEF Init, AllGenuine, Genuine

LEMMA GenuineNext == TypeOK /\ AllGenuine /\ [Next]_vars => AllGenuine'
<1> SUFFICES ASSUME TypeOK, AllGenuine, [Next]_vars, NEW e \in Exporters, NEW k \in Kinds
             PROVE  Genuine(e, k, child'[e][k]) /\ Genuine(e, k, childCache'[e][k])
  BY DEF AllGenuine, Genuine, Owned, Taken
<1>1. Genuine(e, k, child'[e][k])
  BY ChildStep DEF ChildStepped
<1>2. childCache'[e][k] = childCache[e][k] \/ childCache'[e][k] = child[e][k]
  BY CacheStep DEF ChildCacheStepped
<1> QED BY <1>1, <1>2 DEF AllGenuine

LEMMA VersionsInit == Init => Versions
<1> SUFFICES ASSUME Init, NEW e \in Exporters
             PROVE  /\ Version(exporter[e]) <= exporter[e].rv
                    /\ Older(exporterCache[e], exporter[e])
                    /\ \A k \in Kinds : /\ OlderChild(childCache[e][k], child[e][k])
                                        /\ made[e][k] <= Version(exporterCache[e])
                    /\ ~ Busy(e)
  BY DEF Versions
<1>1. /\ exporter[e].rv = 1 /\ exporter[e].uid = 1 /\ exporter[e].gen = 1
      /\ exporterCache[e] = exporter[e] /\ \A k \in Kinds : made[e][k] = 0
  BY DEF Init
<1>2. \A k \in Kinds : childCache[e][k] = child[e][k] /\ child[e][k].rv \in Nat
  BY TypeInit DEF Init, TypeOK, ChildObject
<1>3. Version(exporter[e]) = 1 /\ Version(exporterCache[e]) = 1
  BY <1>1 DEF Version
<1>4. ~ Busy(e)
  BY DEF Init, Idle, Busy
<1> QED BY <1>1, <1>2, <1>3, <1>4 DEF Older, OlderChild

\* What was an earlier state of an object stays one.
LEMMA StaysOlder ==
  ASSUME TypeOK, AllGenuine, [Next]_vars, NEW e \in Exporters,
         Version(exporter[e]) <= exporter[e].rv
  PROVE  /\ Version(exporter[e]) <= Version(exporter'[e])
         /\ Version(exporter'[e]) <= exporter'[e].rv
         /\ \A x \in ExporterObject : Older(x, exporter[e]) => Older(x, exporter'[e])
<1>1. exporter[e] \in ExporterObject /\ exporter'[e] \in ExporterObject
  BY TypeNext DEF TypeOK
<1>2. /\ exporter[e].rv \in Int /\ exporter[e].uid \in Int /\ exporter[e].gen \in Int
      /\ exporter'[e].rv \in Int /\ exporter'[e].uid \in Int /\ exporter'[e].gen \in Int
  BY <1>1 DEF ExporterObject
<1>3. CASE exporter'[e] = exporter[e]
  BY <1>2, <1>3 DEF Version
<1>4. CASE exporter'[e] # exporter[e]
  <2>1. exporter'[e].rv = exporter[e].rv + 1 /\ (Revised(e) \/ StatusWritten(e))
    BY <1>4, ExporterStep DEF ExporterStepped
  <2>2. Version(exporter[e]) <= Version(exporter'[e]) /\ Version(exporter'[e]) <= exporter'[e].rv
    <3>1. \/ exporter'[e].uid = exporter[e].rv + 1 /\ exporter'[e].gen = 1
          \/ /\ exporter'[e].uid = exporter[e].uid
             /\ exporter'[e].gen = exporter[e].gen + 1 \/ exporter'[e].gen = exporter[e].gen
      BY <2>1 DEF Revised, StatusWritten
    <3>2. exporter[e].uid + exporter[e].gen - 1 <= exporter[e].rv
      BY DEF Version
    <3>3. /\ exporter[e].uid + exporter[e].gen - 1 <= exporter'[e].uid + exporter'[e].gen - 1
          /\ exporter'[e].uid + exporter'[e].gen - 1 <= exporter'[e].rv
      <4>1. CASE exporter'[e].uid = exporter[e].rv + 1 /\ exporter'[e].gen = 1
        BY <1>2, <2>1, <3>2, <4>1
      <4>2. CASE exporter'[e].uid = exporter[e].uid /\ exporter'[e].gen = exporter[e].gen + 1
        BY <1>2, <2>1, <3>2, <4>2
      <4>3. CASE exporter'[e].uid = exporter[e].uid /\ exporter'[e].gen = exporter[e].gen
        BY <1>2, <2>1, <3>2, <4>3
      <4> QED BY <3>1, <4>1, <4>2, <4>3
    <3> QED BY <3>3 DEF Version
  <2>3. ASSUME NEW x \in ExporterObject, Older(x, exporter[e]) PROVE Older(x, exporter'[e])
    <3>1. x.rv \in Int /\ Version(x) \in Int
      BY DEF ExporterObject, Version
    <3>2. Version(exporter[e]) \in Int /\ Version(exporter'[e]) \in Int
      BY <1>2 DEF Version
    <3>3. x.rv <= exporter[e].rv /\ Version(x) <= Version(exporter[e])
      BY <2>3 DEF Older
    <3>4. Version(x) <= Version(exporter'[e])
      BY <2>2, <3>1, <3>2, <3>3
    <3>5. x.rv <= exporter'[e].rv /\ x.rv # exporter'[e].rv
      BY <1>2, <2>1, <3>1, <3>3
    <3> QED BY <3>4, <3>5 DEF Older
  <2> QED BY <2>2, <2>3
<1> QED BY <1>3, <1>4

LEMMA StaysOlderChild ==
  ASSUME TypeOK, AllGenuine, [Next]_vars, NEW e \in Exporters, NEW k \in Kinds,
         OlderChild(childCache[e][k], child[e][k])
  PROVE  OlderChild(childCache'[e][k], child'[e][k])
<1>1. /\ child[e][k].rv \in Int /\ child'[e][k].rv \in Int /\ childCache[e][k].rv \in Int
  BY TypeNext DEF TypeOK, ChildObject
<1>2. child'[e][k] = child[e][k] \/ child'[e][k].rv = child[e][k].rv + 1
  BY ChildStep DEF ChildStepped
<1>3. childCache'[e][k] = childCache[e][k] \/ childCache'[e][k] = child[e][k]
  BY CacheStep DEF ChildCacheStepped
<1> QED BY <1>1, <1>2, <1>3 DEF OlderChild

LEMMA VersionsNext == TypeOK /\ AllGenuine /\ Versions /\ [Next]_vars => Versions'
<1> SUFFICES ASSUME TypeOK, AllGenuine, Versions, [Next]_vars, NEW e \in Exporters
             PROVE  /\ Version(exporter'[e]) <= exporter'[e].rv
                    /\ Older(exporterCache'[e], exporter'[e])
                    /\ \A k \in Kinds : /\ OlderChild(childCache'[e][k], child'[e][k])
                                        /\ made'[e][k] <= Version(exporterCache'[e])
                    /\ Busy(e)' => /\ Older(worker'.obj, exporter'[e])
                                   /\ Version(worker'.obj) <= Version(exporterCache'[e])
                                   /\ \A k \in Kinds : made'[e][k] <= Version(worker'.obj)
                                   /\ \A k \in Passed(worker'.pc) :
                                        made'[e][k] = Version(worker'.obj)
  BY DEF Versions, Older, OlderChild, Version, Busy, Passed
<1>0. TypeOK'
  BY TypeNext
<1>1. /\ exporter[e] \in ExporterObject /\ exporterCache[e] \in ExporterObject
      /\ exporterCache'[e] \in ExporterObject /\ \A k \in Kinds : made[e][k] \in Nat
  BY <1>0 DEF TypeOK
<1>2. \A x \in ExporterObject : Version(x) \in Nat
  BY VersionBuilt
<1>3. /\ Version(exporter[e]) <= exporter[e].rv
      /\ Older(exporterCache[e], exporter[e])
      /\ \A k \in Kinds : made[e][k] <= Version(exporterCache[e])
  BY DEF Versions
<1>4. /\ Version(exporter'[e]) <= exporter'[e].rv
      /\ \A x \in ExporterObject : Older(x, exporter[e]) => Older(x, exporter'[e])
  BY <1>3, StaysOlder
<1>5. Older(exporterCache'[e], exporter'[e])
  <2>1. exporterCache'[e] = exporterCache[e] \/ exporterCache'[e] = exporter[e]
    BY CacheStep DEF CacheStepped
  <2>2. Older(exporter[e], exporter[e])
    BY <1>1, <1>2 DEF Older, ExporterObject
  <2> QED BY <2>1, <2>2, <1>1, <1>3, <1>4
<1>6. \A k \in Kinds : OlderChild(childCache'[e][k], child'[e][k])
  BY StaysOlderChild DEF Versions
<1>7. /\ Version(exporterCache[e]) <= Version(exporterCache'[e])
      /\ Version(exporterCache[e]) \in Nat /\ Version(exporterCache'[e]) \in Nat
  <2>1. exporterCache'[e] = exporterCache[e] \/ exporterCache'[e] = exporter[e]
    BY CacheStep DEF CacheStepped
  <2>2. Version(exporterCache[e]) <= Version(exporter[e])
    BY <1>3 DEF Older
  <2>3. Version(exporterCache[e]) \in Nat /\ Version(exporterCache'[e]) \in Nat
    BY <1>1, <1>2
  <2> QED BY <2>1, <2>2, <2>3
<1>8. Busy(e) =>
        /\ worker \in Work /\ worker.obj \in ExporterObject /\ Version(worker.obj) \in Nat
        /\ Older(worker.obj, exporter'[e])
        /\ Version(worker.obj) <= Version(exporterCache'[e])
        /\ \A k \in Kinds : made[e][k] <= Version(worker.obj)
        /\ \A k \in Passed(worker.pc) : made[e][k] = Version(worker.obj)
  <2> SUFFICES ASSUME Busy(e)
               PROVE  /\ worker \in Work /\ worker.obj \in ExporterObject
                      /\ Version(worker.obj) \in Nat
                      /\ Older(worker.obj, exporter'[e])
                      /\ Version(worker.obj) <= Version(exporterCache'[e])
                      /\ \A k \in Kinds : made[e][k] <= Version(worker.obj)
                      /\ \A k \in Passed(worker.pc) : made[e][k] = Version(worker.obj)
    OBVIOUS
  <2>1. worker \in Work /\ worker.obj \in ExporterObject
    BY Working DEF Busy
  <2>2. Version(worker.obj) \in Nat
    BY <2>1, <1>2
  <2>3. /\ Older(worker.obj, exporter[e])
        /\ Version(worker.obj) <= Version(exporterCache[e])
        /\ \A k \in Kinds : made[e][k] <= Version(worker.obj)
        /\ \A k \in Passed(worker.pc) : made[e][k] = Version(worker.obj)
    BY DEF Versions
  <2>4. Version(worker.obj) <= Version(exporterCache'[e])
    BY <2>2, <2>3, <1>7
  <2> QED BY <2>1, <2>2, <2>3, <2>4, <1>4
<1>9. \A k \in Kinds : made[e][k] <= Version(exporterCache'[e])
  BY <1>1, <1>3, <1>7
<1> DEFINE Kept == /\ \A k \in Kinds : made'[e][k] <= Version(exporterCache'[e])
                   /\ Busy(e)' => /\ Older(worker'.obj, exporter'[e])
                                  /\ Version(worker'.obj) <= Version(exporterCache'[e])
                                  /\ \A k \in Kinds : made'[e][k] <= Version(worker'.obj)
                                  /\ \A k \in Passed(worker'.pc) :
                                       made'[e][k] = Version(worker'.obj)
<1>10. CASE UNCHANGED <<worker, made>>
  <2>1. Busy(e)' = Busy(e)
    BY <1>10 DEF Busy
  <2>2. Kept
    BY <1>8, <1>9, <1>10, <2>1
  <2> QED BY <1>4, <1>5, <1>6, <2>2
<1>11. CASE Begun
  <2>1. PICK o \in queue : /\ worker' = [pc |-> "deployment", key |-> o, obj |-> exporterCache[o],
                                         ready |-> exporterCache[o].ready]
                           /\ UNCHANGED <<exporter, exporterCache, exporterEvents, made>>
    BY <1>11 DEF Begun
  <2>2. Busy(e)' => worker'.obj = exporterCache[e] /\ worker'.pc = "deployment"
    BY <2>1 DEF Busy
  <2>3. Kept
    BY <2>1, <2>2, <1>3, <1>7, PassedKinds
  <2> QED BY <1>4, <1>5, <1>6, <2>3
<1>12. CASE Dealt
  <2>1. /\ worker.pc \in Kinds /\ worker' = [worker EXCEPT !.pc = After(worker.pc)]
        /\ made' = [made EXCEPT ![worker.key][worker.pc] = Version(worker.obj)]
        /\ worker.pc # "idle"
    BY <1>12, KindsGoOn DEF Dealt
  <2>2. /\ worker \in Work /\ worker.key \in Exporters
        /\ Version(worker.obj) \in Nat
    BY <2>1, <1>2, Working
  <2>3. /\ worker'.pc = After(worker.pc) /\ worker'.key = worker.key
        /\ worker'.obj = worker.obj
    BY <2>1, <2>2, WorkBuilt, KindsGoOn
  <2>4. CASE worker.key = e
    <3>1. Busy(e)
      BY <2>1, <2>4 DEF Busy
    <3>2. /\ made'[e][worker.pc] = Version(worker.obj)
          /\ \A k \in Kinds : k # worker.pc => made'[e][k] = made[e][k]
      BY <2>1, <2>2, <2>4, MadeBuilt
    <3>3. /\ \A k \in Kinds : made'[e][k] <= Version(worker.obj)
          /\ \A k \in Passed(worker.pc) \cup {worker.pc} : made'[e][k] = Version(worker.obj)
      BY <3>1, <3>2, <2>2, <1>8 DEF Passed
    <3>4. \A k \in Kinds : made'[e][k] <= Version(exporterCache'[e])
      BY <3>1, <3>2, <1>8, <1>9
    <3>5. Kept
      BY <3>1, <3>3, <3>4, <2>1, <2>3, <1>8, PassedKinds
    <3> QED BY <1>4, <1>5, <1>6, <3>5
  <2>5. CASE worker.key # e
    <3>1. ~ Busy(e)' /\ \A k \in Kinds : made'[e][k] = made[e][k]
      BY <2>1, <2>2, <2>3, <2>5, MadeBuilt DEF Busy
    <3>2. Kept
      BY <3>1, <1>9
    <3> QED BY <1>4, <1>5, <1>6, <3>2
  <2> QED BY <2>4, <2>5
<1>13. CASE ReadDeployment
  <2>1. worker.pc = "read" /\ worker \in Work /\ worker.ready \in Nat /\ UNCHANGED made
        /\ worker.key \in Exporters
    BY <1>13, Working DEF ReadDeployment
  <2>2. \E n \in Nat : worker' = [worker EXCEPT !.pc = "status", !.ready = n]
    <3>1. childCache[worker.key]["deployment"].ready \in Nat
      BY <2>1 DEF TypeOK, ChildObject, Kinds
    <3> QED BY <1>13, <2>1, <3>1 DEF ReadDeployment
  <2>3. worker'.pc = "status" /\ worker'.key = worker.key /\ worker'.obj = worker.obj
    BY <2>1, <2>2 DEF Work
  <2>4. Busy(e)' = Busy(e)
    BY <2>1, <2>3 DEF Busy
  <2>5. Kept
    BY <2>1, <2>3, <2>4, <1>8, <1>9, PassedKinds
  <2> QED BY <1>4, <1>5, <1>6, <2>5
<1>14. CASE Stopped
  <2>1. ~ Busy(e)'
    BY <1>14 DEF Stopped, Idle, Busy
  <2>2. ASSUME NEW k \in Kinds PROVE made'[e][k] <= Version(exporterCache'[e])
    <3>1. CASE UNCHANGED made
      BY <3>1, <1>9
    <3>2. ASSUME NEW l \in Kinds, worker.pc = l,
                 made' = [made EXCEPT ![worker.key][l] = Version(worker.obj)]
          PROVE  made'[e][k] <= Version(exporterCache'[e])
      <4>1. worker.pc # "idle" /\ worker.key \in Exporters /\ Version(worker.obj) \in Nat
        BY <3>2, <1>2, KindsGoOn, Working
      <4>2. CASE worker.key = e /\ k = l
        <5>1. Busy(e) /\ made'[e][k] = Version(worker.obj)
          BY <3>2, <4>1, <4>2, MadeBuilt DEF Busy
        <5> QED BY <5>1, <1>8
      <4>3. CASE ~ (worker.key = e /\ k = l)
        <5>1. made'[e][k] = made[e][k]
          BY <3>2, <4>1, <4>3, MadeBuilt
        <5> QED BY <5>1, <1>9
      <4> QED BY <4>2, <4>3
    <3> QED BY <1>14, <3>1, <3>2 DEF Stopped
  <2> QED BY <1>4, <1>5, <1>6, <2>1, <2>2
<1> QED BY <1>10, <1>11, <1>12, <1>13, <1>14, WorkerStep DEF WorkerStepped

-----------------------------------------------------------------------------
(* What is reported has been accepted                                      *)

\* What an object of the operator holds, if it is what the code makes for a
\* spec, is nothing the API server refuses.
LEMMA HeldAccepted ==
  ASSUME NEW e \in Exporters, NEW k \in Kinds, NEW c, Owned(c), Genuine(e, k, c),
         NEW s \in ExporterSpec, c.data = Rendered(e, k, s)
  PROVE  ~ Refused(e, k, Rendered(e, k, s))
<1>1. s \in Specs
  BY DEF ExporterSpec
<1>2. c.data # Tampered
  BY <1>1, TamperedAssumption
<1> QED BY <1>2 DEF Genuine, Taken

\* An object that has been dealt with, without an error, was accepted.
LEMMA DealtAccepted ==
  ASSUME TypeOK, AllGenuine, Dealt
  PROVE  Accepted(worker.key, worker.pc, worker.obj.spec)
<1> DEFINE e == worker.key
           k == worker.pc
           old == childCache[e][k]
<1>1. /\ k \in Kinds /\ e \in Exporters /\ worker.obj \in ExporterObject /\ worker \in Work
      /\ worker' = [worker EXCEPT !.pc = After(k)] /\ worker'.pc # "idle"
  <2>1. k \in Kinds /\ k # "idle" /\ After(k) # "idle" /\ worker' = [worker EXCEPT !.pc = After(k)]
    BY KindsGoOn DEF Dealt
  <2>2. worker \in Work /\ worker.obj \in ExporterObject /\ e \in Exporters
    BY <2>1, Working
  <2> QED BY <2>1, <2>2, WorkBuilt, KindsGoOn
<1>2. ~ Requeue
  BY <1>1 DEF Requeue, Idle
<1>3. ASSUME NEW reply, RemoveServiceMonitor(reply) PROVE Accepted(e, k, worker.obj.spec)
  BY <1>3 DEF RemoveServiceMonitor, Accepted, Wanted
<1>4. ASSUME NEW reply, CreateOrUpdate(k, reply) PROVE Accepted(e, k, worker.obj.spec)
  <2>1. CASE Takes(e, k, old, Rendered(e, k, worker.obj.spec))
    BY <2>1 DEF Takes, Accepted
  <2>2. CASE ~ Sends(k, Wish(e, k), old)
    <3>1. old = Wish(e, k)
      BY <2>2 DEF Sends
    <3>2. Owned(old) /\ old.data = Rendered(e, k, worker.obj.spec)
      BY <1>1, <3>1, WishBuilt
    <3>3. Genuine(e, k, old) /\ worker.obj.spec \in ExporterSpec
      BY <1>1 DEF AllGenuine, ExporterObject
    <3> QED BY <1>1, <3>2, <3>3, HeldAccepted DEF Accepted
  <2> QED BY <1>1, <1>2, <1>4, <2>1, <2>2, WriteEnds
<1> QED BY <1>3, <1>4 DEF Dealt

LEMMA UnrefusedInit == Init => Unrefused
<1> SUFFICES ASSUME Init, NEW e \in Exporters
             PROVE  /\ exporter[e].observed = 0 /\ exporter[e].gen = 1
                    /\ ~ Busy(e)
  BY DEF Unrefused
<1> QED BY DEF Init, Busy, Idle

LEMMA UnrefusedNext ==
  TypeOK /\ AllGenuine /\ Versions /\ Unrefused /\ [Next]_vars => Unrefused'
<1> SUFFICES ASSUME TypeOK, AllGenuine, Versions, Unrefused, [Next]_vars, NEW e \in Exporters
             PROVE  /\ exporter'[e].observed <= exporter'[e].gen
                    /\ exporter'[e].observed = exporter'[e].gen =>
                         \A k \in Kinds : Accepted(e, k, exporter'[e].spec)
                    /\ Busy(e)' =>
                         \A k \in Passed(worker'.pc) : Accepted(e, k, worker'.obj.spec)
  BY DEF Unrefused, Busy, Passed, Accepted, Wanted
<1>1. /\ exporter[e].observed \in Nat /\ exporter[e].gen \in Nat
      /\ exporter[e].observed <= exporter[e].gen
      /\ exporter[e].observed = exporter[e].gen =>
           \A k \in Kinds : Accepted(e, k, exporter[e].spec)
  BY DEF TypeOK, ExporterObject, Unrefused
<1>2. /\ exporter'[e].observed <= exporter'[e].gen
      /\ exporter'[e].observed = exporter'[e].gen =>
           \A k \in Kinds : Accepted(e, k, exporter'[e].spec)
  <2>1. CASE exporter'[e] = exporter[e]
    BY <1>1, <2>1
  <2>2. CASE Revised(e)
    <3>1. CASE exporter'[e].gen = 1 /\ exporter'[e].observed = 0
      BY <3>1
    <3>2. CASE /\ exporter'[e].gen = exporter[e].gen + 1
               /\ exporter'[e].observed = exporter[e].observed
      BY <1>1, <3>2
    <3>3. CASE /\ exporter'[e].gen = exporter[e].gen
               /\ exporter'[e].observed = exporter[e].observed
               /\ exporter'[e].spec = exporter[e].spec
      BY <1>1, <3>3
    <3> QED BY <2>2, <3>1, <3>2, <3>3 DEF Revised
  <2>3. CASE StatusWritten(e)
    <3>1. worker.obj = exporter[e] /\ Passed(worker.pc) = Kinds
      BY <2>3, PassedKinds DEF StatusWritten, Current, Versions, Older
    <3>2. \A k \in Kinds : Accepted(e, k, exporter[e].spec)
      BY <2>3, <3>1 DEF StatusWritten, Unrefused
    <3>3. /\ exporter'[e].observed = exporter[e].gen /\ exporter'[e].gen = exporter[e].gen
          /\ exporter'[e].spec = exporter[e].spec
      BY <2>3, <3>1 DEF StatusWritten
    <3> QED BY <1>1, <3>2, <3>3
  <2> QED BY <2>1, <2>2, <2>3, ExporterStep DEF ExporterStepped
<1>3. ASSUME Busy(e)', NEW k \in Passed(worker'.pc) PROVE Accepted(e, k, worker'.obj.spec)
  <2>1. CASE UNCHANGED worker
    BY <1>3, <2>1 DEF Unrefused, Busy
  <2>2. CASE Begun
    <3>1. worker'.pc = "deployment"
      BY <2>2 DEF Begun
    <3> QED BY <1>3, <3>1, PassedKinds
  <2>3. CASE Dealt
    <3>1. /\ worker.pc \in Kinds /\ worker.pc # "idle"
          /\ worker' = [worker EXCEPT !.pc = After(worker.pc)]
      BY <2>3, KindsGoOn DEF Dealt
    <3>2. worker \in Work
      BY <3>1, Working
    <3>3. /\ worker'.pc = After(worker.pc) /\ worker'.key = worker.key
          /\ worker'.obj = worker.obj
      BY <3>1, <3>2, WorkBuilt, KindsGoOn
    <3>4. Busy(e) /\ worker.key = e
      BY <1>3, <3>1, <3>3 DEF Busy
    <3>5. k \in Passed(worker.pc) \/ k = worker.pc
      BY <1>3, <3>1, <3>3, PassedKinds
    <3>6. CASE k \in Passed(worker.pc)
      BY <3>3, <3>4, <3>6 DEF Unrefused
    <3>7. CASE k = worker.pc
      BY <2>3, <3>3, <3>4, <3>7, DealtAccepted
    <3> QED BY <3>5, <3>6, <3>7
  <2>4. CASE ReadDeployment
    <3>1. worker.pc = "read" /\ worker \in Work
      BY <2>4, Working DEF ReadDeployment
    <3>2. worker'.pc = "status" /\ worker'.key = worker.key /\ worker'.obj = worker.obj
      BY <2>4, <3>1 DEF ReadDeployment, Work
    <3>3. Busy(e) /\ k \in Passed("read")
      BY <1>3, <3>1, <3>2, PassedKinds DEF Busy
    <3> QED BY <3>1, <3>2, <3>3 DEF Unrefused
  <2>5. CASE Stopped
    BY <1>3, <2>5 DEF Stopped, Idle, Busy
  <2> QED BY <2>1, <2>2, <2>3, <2>4, <2>5, WorkerStep DEF WorkerStepped
<1> QED BY <1>2, <1>3

-----------------------------------------------------------------------------
(* What is not up to date will be looked at again                          *)

LEMMA NoticedInit == Init => Noticed
<1> SUFFICES ASSUME Init, NEW e \in Exporters
             PROVE  /\ exporterCache[e] = exporter[e]
                    /\ \A k \in Kinds : Known(e, k)
                    /\ ~ Busy(e)
                    /\ exporter[e].live => Pending(e)
  BY DEF Noticed
<1>1. exporterCache[e] = exporter[e] /\ \A k \in Kinds : Known(e, k)
  BY DEF Init, Known
<1>2. exporter[e].live => e \in queue
  BY DEF Init
<1> QED BY <1>1, <1>2 DEF Pending, Busy, Init, Idle

\* While the worker is busy nothing that waits is forgotten.
LEMMA StillWaits ==
  ASSUME TypeOK, [Next]_vars, NEW e \in Exporters, Waiting(e), Busy(e),
         Busy(e)' \/ exporter[e].live
  PROVE  Waiting(e)'
<1>1. worker.pc # "idle" /\ (Busy(e)' => worker' # Idle)
  BY DEF Busy, Idle
<1>2. exporter[e].live \/ ~ (worker' = Idle)
  BY <1>1
<1> QED BY <1>1, <1>2, WaitingStep DEF WaitingStepped

\* A new state of a BlackboxExporter is an event.
LEMMA NewsOfExporter ==
  ASSUME TypeOK, [Next]_vars, NEW e \in Exporters, exporter'[e] # exporter[e]
  PROVE  Waiting(e)'
BY ExporterStep DEF ExporterStepped, Waiting

\* So is a new state of an object that is or becomes the operator's.
LEMMA NewsOfOwned ==
  ASSUME TypeOK, AllGenuine, [Next]_vars, NEW e \in Exporters, NEW k \in Kinds,
         child'[e][k] # child[e][k], Owned(child[e][k]) \/ Owned(child'[e][k])
  PROVE  <<e, k, TRUE>> \in childEvents'
<1>1. (Owned(child[e][k]) \/ Owned(child'[e][k])) = TRUE
  OBVIOUS
<1>2. <<e, k, Owned(child[e][k]) \/ Owned(child'[e][k])>> \in childEvents'
  BY ChildStep DEF ChildStepped
<1> QED BY <1>1, <1>2

\* An object that stands for a state of its owner goes on doing so, or there is
\* an event; if it is wanted it does not even change.
LEMMA NewsOfChild ==
  ASSUME TypeOK, AllGenuine, [Next]_vars, NEW e \in Exporters, NEW k \in Kinds, NEW x,
         Stands(e, k, x)
  PROVE  \/ UNCHANGED child[e][k]
         \/ ~ Wanted(k, x.spec) /\ ~ Owned(child'[e][k])
         \/ Waiting(e)'
<1>1. CASE child'[e][k] # child[e][k] /\ (Owned(child[e][k]) \/ Owned(child'[e][k]))
  <2>1. <<e, k, TRUE>> \in childEvents'
    BY <1>1, NewsOfOwned
  <2> QED BY <2>1 DEF Waiting
<1>2. CASE child'[e][k] # child[e][k] /\ ~ Owned(child[e][k]) /\ ~ Owned(child'[e][k])
  BY <1>2 DEF Stands
<1> QED BY <1>1, <1>2

LEMMA KnownNext ==
  ASSUME TypeOK, AllGenuine, [Next]_vars, NEW e \in Exporters, NEW k \in Kinds, Known(e, k)
  PROVE  Known(e, k)'
<1>1. CASE childCache'[e][k] = child[e][k] /\ UNCHANGED child
  BY <1>1 DEF Known
<1>2. CASE /\ childCache'[e][k] = childCache[e][k]
           /\ <<e, k, TRUE>> \in childEvents => <<e, k, TRUE>> \in childEvents'
  <2>1. CASE child'[e][k] = child[e][k]
    BY <1>2, <2>1 DEF Known
  <2>2. CASE child'[e][k] # child[e][k]
    BY <1>2, <2>2, NewsOfOwned DEF Known
  <2> QED BY <2>1, <2>2
<1> QED BY <1>1, <1>2, CacheStep DEF ChildCacheStepped

\* An object that has been dealt with, without an error, stands for what the
\* worker read.
LEMMA DealtStands ==
  ASSUME TypeOK, AllGenuine, Versions, Noticed, [Next]_vars, Dealt,
         NEW e \in Exporters, NEW k \in Kinds, worker.key = e, worker.pc = k
  PROVE  Stands(e, k, worker.obj)' \/ Waiting(e)'
<1> DEFINE old == childCache[e][k]
           data == Rendered(e, k, worker.obj.spec)
<1>1. /\ worker.obj \in ExporterObject /\ worker \in Work
      /\ worker'.obj = worker.obj /\ worker' # Idle
      /\ UNCHANGED <<exporterEvents, queue>>
  <2>1. k # "idle" /\ After(k) # "idle" /\ worker' = [worker EXCEPT !.pc = After(k)]
    BY KindsGoOn DEF Dealt
  <2>2. worker \in Work /\ worker.obj \in ExporterObject
    BY <2>1, Working
  <2>3. worker'.obj = worker.obj /\ worker'.pc # "idle"
    BY <2>1, <2>2, WorkBuilt, KindsGoOn
  <2> QED BY <2>2, <2>3 DEF Dealt, Idle
<1>2. ~ Requeue
  BY <1>1 DEF Requeue
<1>3. Known(e, k) /\ OlderChild(old, child[e][k])
  BY DEF Noticed, Versions
<1>4. <<e, k, TRUE>> \in childEvents /\ UNCHANGED childEvents => Waiting(e)'
  BY DEF Waiting
<1>5. ASSUME NEW reply, CreateOrUpdate(k, reply), Wanted(k, worker.obj.spec)
      PROVE  Stands(e, k, worker.obj)' \/ Waiting(e)'
  <2>1. ASSUME child'[e][k] \in {Wish(e, k), Upgrade(e, k)} PROVE Stands(e, k, worker.obj)'
    <3>1. /\ Owned(child'[e][k]) /\ child'[e][k].owner = worker.obj.uid
          /\ child'[e][k].data = data
      BY <1>1, <2>1, WishBuilt
    <3> QED BY <1>1, <1>5, <3>1 DEF Stands
  <2>2. CASE ~ Sends(k, Wish(e, k), old) /\ UNCHANGED <<child, childEvents>>
    <3>1. old = Wish(e, k)
      BY <2>2 DEF Sends
    <3>2. Owned(old)
      BY <1>1, <3>1, WishBuilt
    <3> QED BY <1>3, <1>4, <2>1, <2>2, <3>1, <3>2 DEF Known
  <2>3. CASE Takes(e, k, old, data) /\ ~ Changes(Wish(e, k), old) /\ UNCHANGED child
    <3>1. old = Wish(e, k)
      BY <2>3 DEF Changes
    <3>2. old.live
      BY <1>1, <3>1, WishBuilt DEF Owned
    <3>3. child[e][k] = old
      BY <1>3, <2>3, <3>2 DEF Takes, Current, OlderChild
    <3> QED BY <2>1, <2>3, <3>1, <3>3
  <2>4. CASE WriteChild(e, k, Upgrade(e, k))
    BY <2>1, <2>4, PutThere
  <2> QED BY <1>2, <1>5, <2>2, <2>3, <2>4, WriteEnds
<1>6. ASSUME NEW reply, RemoveServiceMonitor(reply)
      PROVE  Stands(e, k, worker.obj)' \/ Waiting(e)'
  <2>1. k = "monitor" /\ ~ Wanted(k, worker.obj.spec)
    BY <1>6 DEF RemoveServiceMonitor, Wanted
  <2>2. CASE ~ old.live /\ UNCHANGED <<child, childEvents>>
    <3>1. ~ Owned(old)
      BY <2>2 DEF Owned
    <3>2. ~ Owned(child[e][k]) \/ <<e, k, TRUE>> \in childEvents
      BY <1>3, <3>1 DEF Known
    <3> QED BY <1>1, <1>4, <2>1, <2>2, <3>2 DEF Stands
  <2>3. CASE WriteChild(e, k, Removed(child[e][k]))
    <3>1. child[e][k] \in ChildObject
      BY DEF TypeOK
    <3>2. ~ Owned(Removed(child[e][k]))
      BY <3>1, ChildBuilt
    <3>3. child'[e][k] = Removed(child[e][k])
      BY <2>3, PutThere
    <3> QED BY <1>1, <2>1, <3>2, <3>3 DEF Stands
  <2> QED BY <1>2, <1>6, <2>1, <2>2, <2>3, RemoveEnds
<1> QED BY <1>5, <1>6 DEF Dealt

\* Once the worker has reported, and needs no other go, what it read is still so.
LEMMA ReportedWell ==
  ASSUME TypeOK, AllGenuine, Versions, Noticed, [Next]_vars, NEW e \in Exporters, Busy(e),
         ~ Busy(e)', exporter[e].live, UNCHANGED exporter[e]
  PROVE  Waiting(e)' \/ Settled(e)'
<1> SUFFICES ASSUME ~ Waiting(e)' PROVE Settled(e)'
  OBVIOUS
<1>1. worker \in Work /\ worker.obj \in ExporterObject /\ worker.key = e /\ worker.pc # "idle"
  BY Working DEF Busy
<1>2. Stopped
  <2>1. CASE UNCHANGED worker
    BY <2>1 DEF Busy
  <2>2. CASE Begun
    BY <1>1, <2>2 DEF Begun
  <2>3. CASE Dealt
    <3>1. worker'.key = worker.key /\ worker'.pc # "idle"
      BY <1>1, <2>3, WorkBuilt, KindsGoOn DEF Dealt
    <3> QED BY <1>1, <3>1 DEF Busy
  <2>4. CASE ReadDeployment
    <3>1. worker'.key = worker.key /\ worker'.pc # "idle"
      BY <1>1, <2>4 DEF ReadDeployment, Work
    <3> QED BY <1>1, <3>1 DEF Busy
  <2> QED BY <2>1, <2>2, <2>3, <2>4, WorkerStep DEF WorkerStepped
<1>3. ~ Requeue
  BY <1>1 DEF Requeue, Waiting
<1>4. ~ Restart
  BY DEF Restart, Waiting
<1>5. PICK reply \in Replies : UpdateStatus(reply) /\ Current(exporter[e], worker.obj)
  BY <1>1, <1>2, <1>3, <1>4 DEF Stopped
<1>6. worker.obj = exporter[e]
  BY <1>5 DEF Current, Versions, Older
<1>7. worker.pc = "status" /\ UNCHANGED child /\ reply = "ok"
  BY <1>3, <1>5 DEF UpdateStatus
<1> DEFINE obj == [worker.obj EXCEPT !.ready = worker.ready, !.observed = worker.obj.gen]
<1>8. obj = worker.obj
  <2>1. CASE Changes(obj, worker.obj)
    <3>1. e \in exporterEvents'
      BY <1>1, <1>5, <1>7, <2>1 DEF UpdateStatus, WriteExporter
    <3> QED BY <3>1 DEF Waiting
  <2> QED BY <2>1 DEF Changes
<1>9. worker.obj.observed = worker.obj.gen /\ worker.obj.ready = worker.ready
  <2>1. obj.observed = worker.obj.gen /\ obj.ready = worker.ready
    BY <1>1 DEF ExporterObject
  <2> QED BY <1>8, <2>1
<1>10. ~ Waiting(e)
  BY StillWaits
<1>11. worker.ready = child[e]["deployment"].ready
  BY <1>7, <1>10 DEF Noticed
<1>12. \A k \in Kinds : Stands(e, k, worker.obj)
  BY <1>7, <1>10, PassedKinds DEF Noticed
<1>13. \A k \in Kinds : Stands(e, k, exporter[e])'
  BY <1>6, <1>7, <1>12 DEF Stands
<1> QED BY <1>6, <1>7, <1>9, <1>11, <1>13 DEF Settled

LEMMA NoticedNext ==
  TypeOK /\ AllGenuine /\ Versions /\ Noticed /\ [Next]_vars => Noticed'
<1> SUFFICES ASSUME TypeOK, AllGenuine, Versions, Noticed, [Next]_vars, NEW e \in Exporters
             PROVE  /\ exporterCache'[e] = exporter'[e] \/ e \in exporterEvents'
                    /\ \A k \in Kinds : Known(e, k)'
                    /\ Busy(e)' => worker'.obj = exporter'[e] \/ Waiting(e)'
                    /\ Busy(e)' => \A k \in Passed(worker'.pc) :
                                     Stands(e, k, worker.obj)' \/ Waiting(e)'
                    /\ Busy(e)' /\ worker'.pc = "status" =>
                         worker'.ready = child'[e]["deployment"].ready \/ Waiting(e)'
                    /\ exporter'[e].live => Settled(e)' \/ Pending(e)'
  BY DEF Noticed, Busy, Waiting, Passed, Known, Stands, Settled, Pending
<1>0. /\ "deployment" \in Kinds /\ "deployment" # "monitor" /\ Kinds = Passed("status")
      /\ Kinds = Passed("read") /\ Passed("deployment") = {}
      /\ \A x : Wanted("deployment", x)
  BY PassedKinds DEF Kinds, Wanted
<1>1. exporterCache[e] = exporter[e] \/ e \in exporterEvents
  BY DEF Noticed
<1>2. exporterCache'[e] = exporter'[e] \/ e \in exporterEvents'
  BY <1>1, CacheStep DEF CacheStepped
<1>3. Pending(e)' = (Waiting(e)' \/ Busy(e)') /\ Pending(e) = (Waiting(e) \/ Busy(e))
  BY DEF Pending, Waiting, Busy
<1>4. \A k \in Kinds : Known(e, k)'
  BY KnownNext DEF Noticed
<1>5. \/ Stopped
      \/ Begun /\ ~ UNCHANGED worker
      \/ Dealt /\ ~ UNCHANGED worker
      \/ ReadDeployment /\ ~ UNCHANGED worker
      \/ UNCHANGED worker
  BY WorkerStep DEF WorkerStepped
\* A dealing worker goes on with the same state of the same exporter.
<1>6. ASSUME Dealt
      PROVE  /\ worker.pc \in Kinds /\ worker'.pc = After(worker.pc)
             /\ worker'.key = worker.key /\ worker'.obj = worker.obj
             /\ Busy(e)' => Busy(e)
             /\ worker'.pc # "status"
  <2>1. /\ worker.pc \in Kinds /\ worker.pc # "idle" /\ After(worker.pc) # "status"
        /\ worker' = [worker EXCEPT !.pc = After(worker.pc)]
    BY <1>6 DEF Dealt, Kinds, After
  <2>2. worker \in Work
    BY <2>1, Working
  <2>3. /\ worker'.pc = After(worker.pc) /\ worker'.key = worker.key
        /\ worker'.obj = worker.obj
    BY <2>1, <2>2, WorkBuilt, KindsGoOn
  <2> QED BY <2>1, <2>3 DEF Busy
<1>7. ASSUME ReadDeployment
      PROVE  /\ worker.pc = "read" /\ worker'.pc = "status"
             /\ worker'.key = worker.key /\ worker'.obj = worker.obj
             /\ Busy(e)' => Busy(e)
             /\ childCache[worker.key]["deployment"].live =>
                  worker'.ready = childCache[worker.key]["deployment"].ready
             /\ UNCHANGED <<child, childEvents, exporterEvents, queue>>
  <2>1. worker.pc = "read" /\ worker \in Work
    BY <1>7, Working DEF ReadDeployment
  <2>2. /\ worker'.pc = "status" /\ worker'.key = worker.key /\ worker'.obj = worker.obj
        /\ childCache[worker.key]["deployment"].live =>
             worker'.ready = childCache[worker.key]["deployment"].ready
    BY <1>7, <2>1 DEF ReadDeployment, Work
  <2> QED BY <1>7, <2>1, <2>2 DEF ReadDeployment, Busy, objects, events
\* What stands for what the worker read goes on doing so.
<1>8. ASSUME Busy(e), Busy(e)', worker'.obj = worker.obj, NEW k \in Kinds,
             Stands(e, k, worker.obj) \/ Waiting(e)
      PROVE  Stands(e, k, worker.obj)' \/ Waiting(e)'
  <2>1. CASE Waiting(e)
    BY <1>8, <2>1, StillWaits
  <2>2. CASE Stands(e, k, worker.obj)
    BY <1>8, <2>2, NewsOfChild DEF Stands
  <2> QED BY <1>8, <2>1, <2>2
<1>9. ASSUME Busy(e)' PROVE worker'.obj = exporter'[e] \/ Waiting(e)'
  <2>1. CASE exporter'[e] # exporter[e]
    BY <2>1, NewsOfExporter
  <2>2. CASE Stopped
    BY <1>9, <2>2 DEF Stopped, Idle, Busy
  <2>3. CASE Begun
    <3>1. worker'.obj = exporterCache[e] /\ UNCHANGED <<exporter, exporterEvents>>
      BY <1>9, <2>3 DEF Begun, Busy
    <3> QED BY <1>1, <3>1 DEF Waiting
  <2>4. CASE worker'.obj = worker.obj /\ Busy(e) /\ exporter'[e] = exporter[e]
    BY <1>9, <2>4, StillWaits DEF Noticed
  <2>5. CASE UNCHANGED worker
    BY <1>9, <2>1, <2>4, <2>5 DEF Busy
  <2> QED BY <1>5, <1>6, <1>7, <1>9, <2>1, <2>2, <2>3, <2>4, <2>5
<1>10. ASSUME Busy(e)', NEW k \in Passed(worker'.pc)
       PROVE  Stands(e, k, worker.obj)' \/ Waiting(e)'
  <2>0. k \in Kinds
    BY DEF Passed
  <2>1. CASE Stopped
    BY <1>10, <2>1 DEF Stopped, Idle, Busy
  <2>2. CASE Begun
    BY <1>0, <1>10, <2>2 DEF Begun
  <2>3. CASE Dealt
    <3>1. Busy(e) /\ worker.key = e /\ worker'.obj = worker.obj
      BY <1>6, <1>10, <2>3 DEF Busy
    <3>2. k \in Passed(worker.pc) \/ k = worker.pc
      BY <1>6, <1>10, <2>3, PassedKinds
    <3>3. CASE k = worker.pc
      BY <2>0, <2>3, <3>1, <3>3, DealtStands
    <3>4. CASE k \in Passed(worker.pc)
      BY <1>8, <1>10, <2>0, <3>1, <3>4 DEF Noticed
    <3> QED BY <3>2, <3>3, <3>4
  <2>4. CASE ReadDeployment
    BY <1>0, <1>7, <1>8, <1>10, <2>0, <2>4 DEF Noticed
  <2>5. CASE UNCHANGED worker
    <3>1. Busy(e) /\ k \in Passed(worker.pc)
      BY <1>10, <2>5 DEF Busy
    <3> QED BY <1>8, <1>10, <2>0, <2>5, <3>1 DEF Noticed
  <2> QED BY <1>5, <2>1, <2>2, <2>3, <2>4, <2>5
<1>11. ASSUME Busy(e)', worker'.pc = "status"
       PROVE  worker'.ready = child'[e]["deployment"].ready \/ Waiting(e)'
  <2>1. CASE Stopped
    BY <1>11, <2>1 DEF Stopped, Idle, Busy
  <2>2. CASE Begun
    BY <1>11, <2>2 DEF Begun
  <2>3. CASE Dealt
    BY <1>6, <1>11, <2>3
  <2>4. CASE ReadDeployment
    <3>1. Busy(e) /\ worker.key = e /\ worker.pc = "read"
      BY <1>7, <1>11, <2>4 DEF Busy
    <3>2. Stands(e, "deployment", worker.obj) \/ Waiting(e)
      BY <1>0, <3>1 DEF Noticed
    <3>3. CASE Waiting(e)
      BY <1>11, <3>1, <3>3, StillWaits
    <3>4. CASE Stands(e, "deployment", worker.obj) /\ ~ Waiting(e)
      <4>1. Owned(child[e]["deployment"]) /\ <<e, "deployment", TRUE>> \notin childEvents
        BY <1>0, <3>4 DEF Stands, Waiting
      <4>2. childCache[e]["deployment"] = child[e]["deployment"]
        BY <1>0, <4>1 DEF Noticed, Known
      <4> QED BY <1>7, <2>4, <3>1, <4>1, <4>2 DEF Owned
    <3> QED BY <3>2, <3>3, <3>4
  <2>5. CASE UNCHANGED worker
    <3>1. Busy(e) /\ worker.pc = "status"
      BY <1>11, <2>5 DEF Busy
    <3>2. CASE Waiting(e)
      BY <1>11, <3>1, <3>2, StillWaits
    <3>3. CASE ~ Waiting(e)
      <4>1. /\ worker.ready = child[e]["deployment"].ready
            /\ Stands(e, "deployment", worker.obj)
        BY <1>0, <3>1, <3>3 DEF Noticed
      <4>2. UNCHANGED child[e]["deployment"] \/ Waiting(e)'
        BY <1>0, <4>1, NewsOfChild
      <4> QED BY <2>5, <4>1, <4>2
    <3> QED BY <3>2, <3>3
  <2> QED BY <1>5, <2>1, <2>2, <2>3, <2>4, <2>5
\* An exporter that is pending stays so until it has been dealt with.
<1>12. ASSUME exporter'[e] = exporter[e], exporter[e].live, Pending(e)
       PROVE  Pending(e)' \/ Settled(e)'
  <2>1. CASE Busy(e)
    BY <1>3, <1>12, <2>1, ReportedWell
  <2>2. CASE Waiting(e) /\ ~ Busy(e)
    BY <1>1, <1>3, <1>12, <2>2, WaitingStep DEF WaitingStepped, Waiting
  <2> QED BY <1>3, <1>12, <2>1, <2>2
\* One that is settled stays so until there is an event.
<1>13. ASSUME exporter'[e] = exporter[e], Settled(e)
       PROVE  Waiting(e)' \/ Settled(e)'
  <2> SUFFICES ASSUME ~ Waiting(e)' PROVE Settled(e)'
    OBVIOUS
  <2>1. \A k \in Kinds : /\ Stands(e, k, exporter[e])
                        /\ \/ UNCHANGED child[e][k]
                           \/ ~ Wanted(k, exporter[e].spec) /\ ~ Owned(child'[e][k])
    BY <1>13, NewsOfChild DEF Settled
  <2>2. UNCHANGED child[e]["deployment"]
    BY <1>0, <2>1
  <2>3. ASSUME NEW k \in Kinds PROVE Stands(e, k, exporter[e])'
    <3>1. CASE UNCHANGED child[e][k]
      BY <1>13, <2>1, <3>1 DEF Stands
    <3>2. CASE ~ Wanted(k, exporter[e].spec) /\ ~ Owned(child'[e][k])
      BY <1>13, <3>2 DEF Stands
    <3> QED BY <2>1, <3>1, <3>2
  <2> QED BY <1>13, <2>2, <2>3 DEF Settled
<1>14. ASSUME exporter'[e].live PROVE Settled(e)' \/ Pending(e)'
  <2>1. CASE exporter'[e] # exporter[e]
    BY <1>3, <2>1, NewsOfExporter
  <2>2. CASE exporter'[e] = exporter[e]
    BY <1>3, <1>12, <1>13, <1>14, <2>2 DEF Noticed
  <2> QED BY <2>1, <2>2
<1> QED BY <1>2, <1>4, <1>9, <1>10, <1>11, <1>14

-----------------------------------------------------------------------------
(* The theorems                                                            *)

IInv == TypeOK /\ AllGenuine /\ Versions /\ Unrefused /\ Noticed

\* Caches and the worker hold earlier states of what is there, and what they
\* miss is on its way.
THEOREM Inductive == Spec => []IInv
<1>1. Init => IInv
  BY TypeInit, GenuineInit, VersionsInit, UnrefusedInit, NoticedInit DEF IInv
<1>2. IInv /\ [Next]_vars => IInv'
  BY TypeNext, GenuineNext, VersionsNext, UnrefusedNext, NoticedNext DEF IInv
<1> QED BY <1>1, <1>2, PTL DEF Spec

\* Every variable keeps its type, whatever the keys, specs and bounds are.
THEOREM TypeCorrect == Spec => []TypeOK
<1>1. IInv => TypeOK
  BY DEF IInv
<1> QED BY <1>1, Inductive, PTL

\* At rest every exporter has the objects its spec wants, and none is left over.
THEOREM InPlaceAtRest == Spec => []ResourcesAtRest
<1>1. Noticed => ResourcesAtRest
  <2> SUFFICES ASSUME Noticed, Quiescent, NEW e \in Exporters, NEW k \in Kinds
               PROVE  InPlace(e, k)
    BY DEF ResourcesAtRest
  <2>1. CASE exporter[e].live
    <3>1. Settled(e)
      BY <2>1 DEF Noticed, Quiescent
    <3> QED BY <2>1, <3>1 DEF Settled, Stands, InPlace
  <2>2. CASE ~ exporter[e].live
    BY <2>2 DEF Quiescent, Garbage, InPlace
  <2> QED BY <2>1, <2>2
<1> QED BY <1>1, Inductive, PTL DEF IInv

\* At rest the status has the number of ready pods, which is the number asked
\* for if the process is heard.
THEOREM ReadyAtRest == Spec => []ReadinessAtRest
<1>1. TypeOK /\ Noticed => ReadinessAtRest
  <2> SUFFICES ASSUME TypeOK, Noticed, Quiescent, NEW e \in Exporters, exporter[e].live
               PROVE  /\ exporter[e].observed = exporter[e].gen
                      /\ exporter[e].ready = child[e]["deployment"].ready
                      /\ Heard(exporter[e].spec) =>
                           exporter[e].ready = exporter[e].spec.replicas
    BY DEF ReadinessAtRest
  <2> DEFINE c == child[e]["deployment"]
             spec == exporter[e].spec
  <2>1. Settled(e) /\ "deployment" \in Kinds /\ Wanted("deployment", spec)
    BY DEF Noticed, Quiescent, Kinds, Wanted
  <2>2. Owned(c) /\ c.data = Rendered(e, "deployment", spec) /\ PodsSettled(c)
    BY <2>1 DEF Settled, Stands, Quiescent
  <2>3. c.data = Deployment(e, spec)
    BY <2>2 DEF Rendered
  <2>4. /\ c.data.replicas = spec.replicas /\ c.data.port = Port(spec)
        /\ c.data.listen = spec.listen
    BY <2>3 DEF Deployment
  <2>5. c.data # Tampered
    <3>1. spec \in Specs
      BY DEF TypeOK, ExporterObject, ExporterSpec
    <3> QED BY <2>1, <2>2, <3>1, TamperedAssumption
  <2>6. c.ready = PodsTarget(c)
    BY <2>2, <2>5 DEF PodsSettled
  <2>7. Heard(spec) => ListenPort(c.data) = c.data.port
    BY <2>4 DEF Heard, ListenPort
  <2>8. Heard(spec) => c.ready = spec.replicas
    BY <2>4, <2>6, <2>7 DEF PodsTarget
  <2> QED BY <2>1, <2>8 DEF Settled
<1> QED BY <1>1, Inductive, PTL DEF IInv

\* A generation that is reported as observed has its objects, or another
\* reconcile is due.
THEOREM Backed == Spec => []ObservedBacked
<1>1. Noticed => ObservedBacked
  BY DEF Noticed, ObservedBacked, Settled, Stands, InPlace
<1> QED BY <1>1, Inductive, PTL DEF IInv

\* What the API server refuses is never reported as observed.
THEOREM NeverReported == Spec => []RefusedUnreported
<1>1. Unrefused => RefusedUnreported
  BY DEF Unrefused, Accepted, RefusedUnreported
<1> QED BY <1>1, Inductive, PTL DEF IInv

\* The operator leaves an object alone that has another controller, but for a
\* ServiceMonitor with the name of one that is not wanted: it claims what its
\* cache has, and the API server takes that only if it is current.
THEOREM OthersAlwaysKept == Spec => OthersKept
<1>1. TypeOK /\ Versions /\ [Next]_vars =>
        \A e \in Exporters, k \in Kinds :
          /\ child[e][k].live /\ child[e][k].controller = "other"
          /\ child'[e][k] # child[e][k] /\ edits' = edits
          => k = "monitor" /\ worker.key = e /\ ~ worker.obj.spec.monitor
  <2> SUFFICES ASSUME TypeOK, Versions, [Next]_vars, NEW e \in Exporters, NEW k \in Kinds,
                      child[e][k].live, child[e][k].controller = "other",
                      child'[e][k] # child[e][k], edits' = edits
               PROVE  k = "monitor" /\ worker.key = e /\ ~ worker.obj.spec.monitor
    OBVIOUS
  <2> DEFINE Goal == k = "monitor" /\ worker.key = e /\ ~ worker.obj.spec.monitor
  <2>0. edits' # edits + 1 /\ ~ Owned(child[e][k]) /\ "deployment" \in Kinds
        /\ "monitor" \in Kinds
    BY DEF TypeOK, Owned, Kinds
  <2>1. ASSUME NEW o \in Exporters, NEW l \in Kinds, NEW obj, WriteChild(o, l, obj)
        PROVE  e = o /\ k = l
    BY <2>1, PutThere
  <2>2. ASSUME NEW o \in Exporters, PodsChange(o) PROVE FALSE
    BY <2>0, <2>1, <2>2 DEF PodsChange
  <2>3. ASSUME NEW o \in Exporters, NEW l \in Kinds, CollectGarbage(o, l) PROVE FALSE
    BY <2>0, <2>1, <2>3 DEF CollectGarbage, Garbage
  <2>4. ASSUME NEW l \in Kinds, NEW reply, CreateOrUpdate(l, reply) PROVE FALSE
    <3>1. worker.key \in Exporters
      BY <2>4, Working, KindsGoOn DEF CreateOrUpdate
    <3>2. /\ Claimable(childCache[worker.key][l])
          /\ Takes(worker.key, l, childCache[worker.key][l],
                   Rendered(worker.key, l, worker.obj.spec))
          /\ WriteChild(worker.key, l, Upgrade(worker.key, l))
      BY <2>4, WriteEnds
    <3>3. e = worker.key /\ k = l
      BY <2>1, <3>1, <3>2
    <3>4. childCache[e][k].live /\ child[e][k].rv = childCache[e][k].rv
      BY <3>2, <3>3 DEF Takes, Current
    <3>5. childCache[e][k] = child[e][k]
      BY <3>4 DEF Versions, OlderChild
    <3> QED BY <3>2, <3>3, <3>5 DEF Claimable
  <2>5. ASSUME NEW reply, RemoveServiceMonitor(reply) PROVE Goal
    <3>1. worker.key \in Exporters
      BY <2>5, Working DEF RemoveServiceMonitor
    <3>2. /\ WriteChild(worker.key, "monitor", Removed(child[worker.key]["monitor"]))
          /\ ~ worker.obj.spec.monitor
      BY <2>5, RemoveEnds
    <3> QED BY <2>0, <2>1, <3>1, <3>2
  <2>6. ~ Users /\ ~ Restart /\ \A o \in Exporters : ~ PodsFail(o)
    BY <2>0 DEF Users, CreateExporter, EditExporter, DeleteExporter, EditChild, DeleteChild,
                CreateForeign, PodsFail, Restart, Edit
  <2>7. ~ UNCHANGED child
    OBVIOUS
  <2> QED
    BY <2>2, <2>3, <2>4, <2>5, <2>6, <2>7
    DEF Next, Environment, Reconcile, Resync, DeliverExporter, DeliverChild, GetExporter,
        ReadDeployment, UpdateStatus, ReconcileDeployment, ReconcileService,
        ReconcileServiceMonitor, Kinds, objects, vars
<1>2. IInv => TypeOK /\ Versions
  BY DEF IInv
<1> QED BY <1>1, <1>2, Inductive, PTL DEF Spec, OthersKept

-----------------------------------------------------------------------------
(* The refinement *)

\* What Projection sees of one exporter.
Reported(e) ==
  IF exporter[e].observed = 0 THEN 0 ELSE exporter[e].uid + exporter[e].observed - 1

source   == [e \in Exporters |-> Version(exporter[e])]
reported == [e \in Exporters |-> Reported(e)]

\* A step writes one BlackboxExporter, or none.
LEMMA OneExporter ==
  ASSUME TypeOK, [Next]_vars
  PROVE  \/ UNCHANGED exporter
         \/ \E e \in Exporters : exporter' = [exporter EXCEPT ![e] = exporter'[e]]
<1> DEFINE Goal == \/ UNCHANGED exporter
                   \/ \E e \in Exporters : exporter' = [exporter EXCEPT ![e] = exporter'[e]]
<1>0. ASSUME NEW e \in Exporters, NEW obj, WriteExporter(e, obj) PROVE Goal
  BY <1>0 DEF WriteExporter, TypeOK
<1>1. CASE UNCHANGED vars
  BY <1>1 DEF vars, objects
<1>2. ASSUME NEW e \in Exporters, NEW s \in ExporterSpec, CreateExporter(e, s) PROVE Goal
  BY <1>0, <1>2 DEF CreateExporter
<1>3. ASSUME NEW e \in Exporters, NEW s \in ExporterSpec, EditExporter(e, s) PROVE Goal
  BY <1>0, <1>3 DEF EditExporter
<1>4. ASSUME NEW e \in Exporters, DeleteExporter(e) PROVE Goal
  BY <1>0, <1>4 DEF DeleteExporter
<1>5. ASSUME NEW reply, UpdateStatus(reply) PROVE Goal
  <2>1. worker.key \in Exporters
    BY <1>5, Working DEF UpdateStatus
  <2> QED BY <1>0, <1>5, <2>1 DEF UpdateStatus
<1>6. ASSUME NEW k \in Kinds, NEW reply, CreateOrUpdate(k, reply) PROVE Goal
  BY <1>6, WriteEnds
<1>7. ASSUME NEW reply, RemoveServiceMonitor(reply) PROVE Goal
  BY <1>7, RemoveEnds
<1>8. CASE Environment
  BY <1>8 DEF Environment, Restart, Resync, DeliverExporter, DeliverChild, PodsChange, PodsFail,
              CollectGarbage, objects
<1> QED
  BY <1>1, <1>2, <1>3, <1>4, <1>5, <1>6, <1>7, <1>8
  DEF Next, Users, Reconcile, EditChild, DeleteChild, CreateForeign, GetExporter, ReadDeployment,
      ReconcileDeployment, ReconcileService, ReconcileServiceMonitor, Kinds, objects

\* A step adds one entry to the history, and then writes no BlackboxExporter.
LEMMA OneMade ==
  ASSUME TypeOK, AllGenuine, [Next]_vars, made' # made
  PROVE  /\ UNCHANGED exporter
         /\ \E e \in Exporters, k \in Kinds :
              Busy(e) /\ made' = [made EXCEPT ![e][k] = Version(worker.obj)]
<1>1. UNCHANGED exporter
  <2>1. \A e \in Exporters : exporter'[e] = exporter[e]
    BY ExporterStep DEF ExporterStepped
  <2>2. exporter' \in [Exporters -> ExporterObject] /\ exporter \in [Exporters -> ExporterObject]
    BY TypeNext DEF TypeOK
  <2> QED BY <2>1, <2>2
<1>2. \E k \in Kinds : /\ worker.pc = k
                       /\ made' = [made EXCEPT ![worker.key][k] = Version(worker.obj)]
  BY WorkerStep DEF WorkerStepped, Begun, Dealt, ReadDeployment, Stopped
<1>3. worker.pc # "idle" /\ worker.key \in Exporters
  BY <1>2, Working, KindsGoOn
<1> QED BY <1>1, <1>2, <1>3 DEF Busy

\* What a new state of an exporter is in the abstract: a revision, which keeps
\* the report or takes it back, a report of the version that was made, or
\* nothing.
LEMMA ExporterMaps ==
  ASSUME TypeOK, AllGenuine, Versions, [Next]_vars, NEW e \in Exporters,
         exporter'[e] # exporter[e]
  PROVE  \/ /\ Version(exporter[e]) < Version(exporter'[e])
            /\ Reported(e)' = Reported(e) \/ Reported(e)' = 0
         \/ /\ Version(exporter'[e]) = Version(exporter[e])
            /\ \/ Reported(e)' = Reported(e)
               \/ /\ Reported(e)' = Version(exporter[e])
                  /\ \A k \in Kinds : made[e][k] = Version(exporter[e])
<1>1. /\ exporter[e].rv \in Nat /\ exporter[e].uid \in Nat /\ exporter[e].gen \in Nat \ {0}
      /\ exporter'[e].uid \in Nat /\ exporter'[e].gen \in Nat
  BY TypeNext DEF TypeOK, ExporterObject
<1>2. exporter[e].uid + exporter[e].gen - 1 <= exporter[e].rv
  BY DEF Versions, Version
<1>3. CASE Revised(e)
  <2>1. CASE exporter'[e].uid = exporter[e].rv + 1 /\ exporter'[e].gen = 1
             /\ exporter'[e].observed = 0
    <3>1. Version(exporter[e]) < Version(exporter'[e])
      BY <1>1, <1>2, <2>1 DEF Version
    <3>2. Reported(e)' = 0
      BY <2>1 DEF Reported
    <3> QED BY <3>1, <3>2
  <2>2. CASE /\ exporter'[e].uid = exporter[e].uid
             /\ exporter'[e].observed = exporter[e].observed
             /\ exporter'[e].gen = exporter[e].gen + 1 \/ exporter'[e].gen = exporter[e].gen
    <3>1. Reported(e)' = Reported(e)
      BY <2>2 DEF Reported
    <3>2. Version(exporter[e]) < Version(exporter'[e]) \/ Version(exporter'[e]) = Version(exporter[e])
      BY <1>1, <2>2 DEF Version
    <3> QED BY <3>1, <3>2
  <2> QED BY <1>3, <2>1, <2>2 DEF Revised
<1>4. CASE StatusWritten(e)
  <2>1. Version(exporter'[e]) = Version(exporter[e])
    BY <1>4 DEF StatusWritten, Version
  <2>2. Busy(e) /\ worker.pc = "status" /\ worker.obj = exporter[e]
    BY <1>4 DEF StatusWritten, Current, Versions, Older
  <2>3. \A k \in Kinds : made[e][k] = Version(exporter[e])
    BY <2>2, PassedKinds DEF Versions
  <2>4. exporter'[e].observed = exporter[e].gen /\ exporter'[e].uid = exporter[e].uid
    BY <1>4, <2>2 DEF StatusWritten
  <2>5. Reported(e)' = Version(exporter[e])
    BY <1>1, <2>4 DEF Reported, Version
  <2> QED BY <2>1, <2>3, <2>5
<1> QED BY <1>3, <1>4, ExporterStep DEF ExporterStepped

LEMMA InitMaps == Init => Promised!Init
<1> SUFFICES ASSUME Init PROVE Promised!Init
  OBVIOUS
<1>1. \A e \in Exporters : Version(exporter[e]) = 1 /\ exporter[e].observed = 0
  BY DEF Init, Version
<1>2. made = [e \in Exporters |-> [k \in Kinds |-> 0]]
  BY DEF Init
<1> QED BY <1>1, <1>2 DEF Promised!Init

LEMMA StepMaps ==
  TypeOK /\ AllGenuine /\ Versions /\ [Next]_vars => [Promised!Next]_<<source, made, reported>>
<1> SUFFICES ASSUME TypeOK, AllGenuine, Versions, [Next]_vars,
                    ~ UNCHANGED <<source, made, reported>>
             PROVE  Promised!Next
  OBVIOUS
<1>0. /\ exporter \in [Exporters -> ExporterObject] /\ exporter' \in [Exporters -> ExporterObject]
      /\ made \in [Exporters -> [Kinds -> Nat]]
      /\ \A e \in Exporters : Version(exporter[e]) \in Nat /\ Version(exporter'[e]) \in Nat
  BY TypeNext, VersionBuilt DEF TypeOK
<1>1. ASSUME NEW e \in Exporters, exporter' = [exporter EXCEPT ![e] = exporter'[e]], UNCHANGED made
      PROVE  Promised!Next
  <2>1. \A o \in Exporters : o # e => exporter'[o] = exporter[o]
    BY <1>0, <1>1
  <2>2. source' = [source EXCEPT ![e] = Version(exporter'[e])]
    BY <2>1 DEF source, Version
  <2>3. reported' = [reported EXCEPT ![e] = Reported(e)']
    BY <2>1 DEF reported, Reported
  <2>4. source[e] = Version(exporter[e]) /\ reported[e] = Reported(e)
        /\ source'[e] = Version(exporter'[e])
    BY DEF source, reported, Version
  <2>5. exporter'[e] # exporter[e]
    BY <1>0, <1>1 DEF source, reported, Reported
  <2>6. CASE /\ Version(exporter[e]) < Version(exporter'[e])
             /\ Reported(e)' = Reported(e) \/ Reported(e)' = 0
    <3>1. Version(exporter'[e]) \in Nat
      BY <1>0
    <3>2. reported' = reported \/ reported' = [reported EXCEPT ![e] = 0]
      BY <2>3, <2>4, <2>6 DEF reported
    <3>3. Promised!Revise(e)
      BY <1>1, <2>2, <2>4, <2>6, <3>1, <3>2 DEF Promised!Revise, source, reported, Reported
    <3> QED BY <3>3 DEF Promised!Next
  <2>7. CASE Version(exporter'[e]) = Version(exporter[e]) /\ Reported(e)' = Reported(e)
    <3>1. UNCHANGED source /\ UNCHANGED reported
      BY <2>2, <2>3, <2>4, <2>7 DEF source, reported
    <3> QED BY <1>1, <3>1
  <2>8. CASE /\ Version(exporter'[e]) = Version(exporter[e])
             /\ Reported(e)' = Version(exporter[e])
             /\ \A k \in Kinds : made[e][k] = Version(exporter[e])
    <3>1. UNCHANGED source
      BY <2>2, <2>4, <2>8 DEF source
    <3>2. \A k \in Kinds : made[e][k] = source[e]
      BY <2>4, <2>8
    <3>3. reported' = [reported EXCEPT ![e] = source[e]]
      BY <2>3, <2>4, <2>8
    <3>4. Promised!Report(e)
      BY <1>1, <3>1, <3>2, <3>3 DEF Promised!Report, source, reported, Reported
    <3> QED BY <3>4 DEF Promised!Next
  <2> QED BY <2>5, <2>6, <2>7, <2>8, ExporterMaps
<1>2. ASSUME NEW e \in Exporters, NEW k \in Kinds, UNCHANGED exporter, Busy(e),
             made' = [made EXCEPT ![e][k] = Version(worker.obj)]
      PROVE  Promised!Next
  <2>1. UNCHANGED source /\ UNCHANGED reported
    BY <1>2 DEF source, reported, Reported
  <2>2. worker.obj \in ExporterObject
    BY <1>2, Working DEF Busy
  <2>3. /\ made'[e][k] = Version(worker.obj) /\ Version(worker.obj) \in Nat
        /\ made' = [made EXCEPT ![e][k] = made'[e][k]]
    <3>1. Version(worker.obj) \in Nat
      BY <2>2, VersionBuilt
    <3>2. made'[e][k] = Version(worker.obj)
      BY <1>2, <3>1, MadeBuilt
    <3> QED BY <1>2, <3>1, <3>2
  <2>4. made'[e][k] # made[e][k]
    BY <1>0, <2>1, <2>3
  <2>5. made[e][k] <= made'[e][k] /\ made'[e][k] <= Version(exporter[e])
    BY <1>2, <2>3 DEF Versions, Older
  <2>6. made[e][k] \in Nat /\ made'[e][k] \in Nat
    BY <1>0, <2>3
  <2>7. made'[e][k] \in made[e][k] + 1 .. source[e]
    <3>1. source[e] = Version(exporter[e]) /\ Version(exporter[e]) \in Nat
      BY <1>0 DEF source
    <3> QED BY <2>4, <2>5, <2>6, <3>1
  <2>8. Promised!Derive(e, k)
    BY <2>1, <2>3, <2>7 DEF Promised!Derive, source, reported, Reported
  <2> QED BY <2>8 DEF Promised!Next
<1>3. CASE UNCHANGED <<exporter, made>>
  BY <1>3 DEF source, reported, Reported
<1> QED BY <1>1, <1>2, <1>3, OneExporter, OneMade

\* ExporterResources implements Projection: a generation is reported as observed
\* only while it is the current one, once every object was made from it.
THEOREM Refinement == Spec => Refines
<1>1. UNCHANGED <<source, made, reported>> => UNCHANGED Promised!vars
  BY DEF Promised!vars, source, reported, Reported
<1>2. IInv /\ [Next]_vars => [Promised!Next]_(Promised!vars)
  BY StepMaps, <1>1 DEF IInv
<1> QED BY InitMaps, <1>2, Inductive, PTL DEF Spec, Refines, Promised!Spec

Abstract == INSTANCE Projection_proofs WITH
  Sources <- Exporters, Parts <- Kinds, derived <- made

\* What that promise amounts to: a reported generation is at most the one that
\* each object was last made from, and that is at most the one users ask for.
THEOREM ReportBacked == Spec => []Promised!Ordered
<1> USE DEF source, reported, Reported
<1>1. Promised!Init => Abstract!Init
  BY DEF Promised!Init, Abstract!Init
<1>2. [Promised!Next]_(Promised!vars) => [Abstract!Next]_(Abstract!vars)
  BY DEF Promised!Next, Promised!Revise, Promised!Derive, Promised!Report, Promised!Retract,
         Promised!vars, Abstract!Next, Abstract!Revise, Abstract!Derive, Abstract!Report,
         Abstract!Retract, Abstract!vars
<1>3. Abstract!Ordered => Promised!Ordered
  BY DEF Promised!Ordered, Abstract!Ordered
<1> QED
  BY <1>1, <1>2, <1>3, Refinement, Abstract!AlwaysOrdered, PTL
  DEF Refines, Promised!Spec, Abstract!Spec
=============================================================================
