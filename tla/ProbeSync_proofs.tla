-------------------------- MODULE ProbeSync_proofs --------------------------
(***************************************************************************)
(* Theorems about ProbeSync and ProbeRendering, for every value of their   *)
(* constants.  The labels and the timeout of a generated Probe follow from *)
(* how it is built; what holds at rest, and that ProbeSync implements      *)
(* Projection, follow from what every step may do to an object, a cache,   *)
(* the queue and the worker, which is summed up first.                     *)
(***************************************************************************)
EXTENDS ProbeSync, TLAPS

-----------------------------------------------------------------------------
(* How a Probe is built *)

\* What is built for a spec.
LEMMA RenderedFields ==
  ASSUME NEW p, NEW s, NEW q, NEW data \in Renderings(p, s, q)
  PROVE  /\ data.labels = ObjectLabels(s)
         /\ data.static = StaticTargets(s)
<1>1. PICK ingress \in IngressRenderings(s.ingress) :
        data = [exporter |-> RefKey(p, s.exporterRef), port |-> q,
                module |-> ModuleName[RefKey(p, s.moduleRef)],
                labels |-> ObjectLabels(s), annotations |-> s.annotations,
                interval |-> IF Given(s.interval) THEN s.interval ELSE OneMinute,
                timeout |-> IF Given(s.scrapeTimeout) THEN s.scrapeTimeout ELSE TenSeconds,
                static |-> StaticTargets(s), ingress |-> ingress,
                relabelings |-> s.relabelings]
  BY DEF Renderings
<1> QED BY <1>1

\* Each label of what is built comes from the place that has the last word.
LEMMA RenderedLabels ==
  ASSUME NEW p, NEW s, NEW q, NEW data \in Renderings(p, s, q)
  PROVE  LabelsRanked(s, data)
<1>1. data.labels = ObjectLabels(s) /\ data.static = StaticTargets(s)
  BY RenderedFields
<1>2. \A k \in DOMAIN ReservedLabels(s) : data.labels[k] = ReservedLabels(s)[k]
  BY <1>1 DEF ObjectLabels, Over
<1>3. \A k \in DOMAIN s.metadataLabels \ DOMAIN ReservedLabels(s) :
        data.labels[k] = s.metadataLabels[k]
  BY <1>1 DEF ObjectLabels, Over
<1>4. s.targets # <<>> =>
        \A k \in DOMAIN s.additionalLabels \cup DOMAIN s.targetLabels :
          data.static.labels[k] = IF k \in DOMAIN s.targetLabels
                                    THEN s.targetLabels[k] ELSE s.additionalLabels[k]
  BY <1>1 DEF StaticTargets, Over
<1> QED BY <1>2, <1>3, <1>4 DEF LabelsRanked

\* There is one way to build it: the keys of maps come in one order.
LEMMA RenderedOnce ==
  ASSUME NEW p, NEW s, NEW q, NEW a \in Renderings(p, s, q), NEW b \in Renderings(p, s, q)
  PROVE  a = b
<1>1. \A i, j \in IngressRenderings(s.ingress) : i = j
  BY DEF IngressRenderings, KeyOrders
<1> QED BY <1>1 DEF Renderings

-----------------------------------------------------------------------------
(* Types *)

LEMMA ProbeBuilt ==
  ASSUME NEW x \in ProbeObject
  PROVE  /\ x.rv + 1 \in Nat \ {0} /\ x.gen + 1 \in Nat \ {0} /\ x.gen \in Nat
         /\ \A r \in Nat \ {0}, s \in ProbeSpec :
              [live |-> TRUE, rv |-> r, uid |-> r, gen |-> 1, spec |-> s, ready |-> "none",
               targetCount |-> 0, observed |-> 0] \in ProbeObject
         /\ \A r \in Nat, g \in Nat \ {0}, s \in ProbeSpec :
              [x EXCEPT !.rv = r, !.gen = g, !.spec = s] \in ProbeObject
         /\ \A r \in Nat : [x EXCEPT !.rv = r, !.live = FALSE] \in ProbeObject
         /\ \A r \in Nat, d \in Reasons, c \in Nat, o \in Nat :
              [x EXCEPT !.rv = r, !.ready = d, !.targetCount = c, !.observed = o]
                \in ProbeObject
<1>1. x.rv + 1 \in Nat \ {0} /\ x.gen + 1 \in Nat \ {0} /\ x.gen \in Nat
  BY DEF ProbeObject
<1>2. \A r \in Nat \ {0}, s \in ProbeSpec :
        [live |-> TRUE, rv |-> r, uid |-> r, gen |-> 1, spec |-> s, ready |-> "none",
         targetCount |-> 0, observed |-> 0] \in ProbeObject
  BY DEF ProbeObject, Reasons
<1>3. \A r \in Nat, g \in Nat \ {0}, s \in ProbeSpec :
        [x EXCEPT !.rv = r, !.gen = g, !.spec = s] \in ProbeObject
  BY DEF ProbeObject
<1>4. \A r \in Nat : [x EXCEPT !.rv = r, !.live = FALSE] \in ProbeObject
  BY DEF ProbeObject
<1>5. \A r \in Nat, d \in Reasons, c \in Nat, o \in Nat :
        [x EXCEPT !.rv = r, !.ready = d, !.targetCount = c, !.observed = o] \in ProbeObject
  BY DEF ProbeObject
<1> QED BY <1>1, <1>2, <1>3, <1>4, <1>5

LEMMA GeneratedBuilt ==
  ASSUME NEW x \in GeneratedObject
  PROVE  /\ x.rv + 1 \in Nat
         /\ \A r \in Nat, l \in BOOLEAN : [x EXCEPT !.rv = r, !.live = l] \in GeneratedObject
         /\ \A r \in Nat : [x EXCEPT !.rv = r, !.data = Blank] \in GeneratedObject
         /\ \A r \in Nat, o \in Nat, d \in Rendering \cup {Blank} :
              [live |-> TRUE, rv |-> r, owner |-> o, data |-> d] \in GeneratedObject
<1>1. x.rv + 1 \in Nat
  BY DEF GeneratedObject
<1>2. \A r \in Nat, l \in BOOLEAN : [x EXCEPT !.rv = r, !.live = l] \in GeneratedObject
  BY DEF GeneratedObject
<1>3. \A r \in Nat : [x EXCEPT !.rv = r, !.data = Blank] \in GeneratedObject
  BY DEF GeneratedObject
<1>4. \A r \in Nat, o \in Nat, d \in Rendering \cup {Blank} :
        [live |-> TRUE, rv |-> r, owner |-> o, data |-> d] \in GeneratedObject
  BY DEF GeneratedObject
<1> QED BY <1>1, <1>2, <1>3, <1>4

\* Writing an object keeps the store well typed.
LEMMA PutProbe ==
  ASSUME TypeOK, NEW p \in Probes, NEW obj \in ProbeObject, WriteProbe(p, obj)
  PROVE  probe' \in [Probes -> ProbeObject] /\ probeEvents' \subseteq Probes
BY DEF TypeOK, WriteProbe

LEMMA PutGenerated ==
  ASSUME TypeOK, NEW p \in Probes, NEW obj \in GeneratedObject, WriteGenerated(p, obj)
  PROVE  /\ generated' \in [Probes -> GeneratedObject]
         /\ generatedEvents' \subseteq Probes \X BOOLEAN
<1>1. generated' \in [Probes -> GeneratedObject]
  BY DEF TypeOK, WriteGenerated
<1>2. <<p, Owned(generated[p]) \/ Owned(obj)>> \in Probes \X BOOLEAN
  BY DEF Owned, TypeOK, GeneratedObject
<1> QED BY <1>1, <1>2 DEF TypeOK, WriteGenerated

\* A worker that is not idle is at work.
LEMMA Working ==
  ASSUME TypeOK, worker.pc # "idle"
  PROVE  /\ worker \in Work
         /\ worker.key \in Probes /\ worker.obj \in ProbeObject
         /\ worker.reason \in Reasons
BY DEF TypeOK, Idle, Work

LEMMA WorkBuilt ==
  ASSUME NEW w \in Work
  PROVE  /\ \A pc \in {"exporter", "module", "missing", "write", "status"} :
              [w EXCEPT !.pc = pc] \in Work /\ [w EXCEPT !.pc = pc].port = w.port
         /\ \A q \in Ports :
              /\ [w EXCEPT !.pc = "module", !.port = q] \in Work
              /\ [w EXCEPT !.pc = "module", !.port = q].port = q
         /\ \A r \in Reasons : [w EXCEPT !.pc = "missing", !.reason = r] \in Work
         /\ \A r : [w EXCEPT !.pc = "missing", !.reason = r].pc = "missing"
         /\ \A pc : [w EXCEPT !.pc = pc].pc = pc
BY DEF Work

LEMMA TypeInit == Init => TypeOK
<1> SUFFICES ASSUME Init PROVE TypeOK
  OBVIOUS
<1>1. \A l \in BOOLEAN, s \in ProbeSpec :
        [live |-> l, rv |-> 1, uid |-> 1, gen |-> 1, spec |-> s, ready |-> "none",
         targetCount |-> 0, observed |-> 0] \in ProbeObject
  BY DEF ProbeObject, Reasons
<1>2. [live |-> FALSE, rv |-> 0, owner |-> 0, data |-> Blank] \in GeneratedObject
  BY DEF GeneratedObject
<1>3. probe \in [Probes -> ProbeObject]
  BY <1>1 DEF Init
<1>4. generated \in [Probes -> GeneratedObject]
  BY <1>2 DEF Init
<1>5. worker = Idle /\ ~ Idle.pc \in {"module", "write", "status"}
  BY DEF Init, Idle
<1>6. made \in [Probes -> Nat] /\ edits \in Nat /\ queue \subseteq Probes
  BY DEF Init
<1>7. worker.pc \in {"module", "write", "status"} => worker.port \in Ports
  BY <1>5
<1>8. /\ exporter \in [Exporters -> ExporterObject] /\ module \in [Modules -> BOOLEAN]
      /\ probeCache = probe /\ exporterCache = exporter
      /\ moduleCache = module /\ generatedCache = generated
      /\ probeEvents = {} /\ generatedEvents = {}
  BY DEF Init
<1> QED BY <1>3, <1>4, <1>5, <1>6, <1>7, <1>8 DEF TypeOK

LEMMA TypeUsers == TypeOK /\ Users => TypeOK'
<1> SUFFICES ASSUME TypeOK, Users PROVE TypeOK'
  OBVIOUS
<1> USE DEF Edit, caches, events
<1>1. ASSUME NEW p \in Probes, NEW s \in ProbeSpec,
             CreateProbe(p, s) \/ EditProbe(p, s) \/ DeleteProbe(p)
      PROVE  TypeOK'
  <2>1. probe[p] \in ProbeObject
    BY DEF TypeOK
  <2>2. CASE CreateProbe(p, s)
    <3>1. \E obj \in ProbeObject : WriteProbe(p, obj)
      BY <2>1, <2>2, ProbeBuilt DEF CreateProbe
    <3> QED BY <3>1, <2>2, PutProbe DEF CreateProbe, TypeOK
  <2>3. CASE EditProbe(p, s)
    <3>1. \E obj \in ProbeObject : WriteProbe(p, obj)
      BY <2>1, <2>3, ProbeBuilt DEF EditProbe
    <3> QED BY <3>1, <2>3, PutProbe DEF EditProbe, TypeOK
  <2>4. CASE DeleteProbe(p)
    <3>1. \E obj \in ProbeObject : WriteProbe(p, obj)
      BY <2>1, <2>4, ProbeBuilt DEF DeleteProbe
    <3> QED BY <3>1, <2>4, PutProbe DEF DeleteProbe, TypeOK
  <2> QED BY <1>1, <2>2, <2>3, <2>4
<1>2. ASSUME NEW p \in Probes,
             DeleteProbe(p) \/ CreateForeign(p) \/ EditGenerated(p) \/ DeleteGenerated(p)
      PROVE  TypeOK'
  <2>1. probe[p] \in ProbeObject /\ generated[p] \in GeneratedObject
    BY DEF TypeOK
  <2>2. CASE DeleteProbe(p)
    <3>1. \E obj \in ProbeObject : WriteProbe(p, obj)
      BY <2>1, <2>2, ProbeBuilt DEF DeleteProbe
    <3> QED BY <3>1, <2>2, PutProbe DEF DeleteProbe, TypeOK
  <2>3. CASE CreateForeign(p)
    <3>1. \E obj \in GeneratedObject : WriteGenerated(p, obj)
      BY <2>1, <2>3, GeneratedBuilt DEF CreateForeign
    <3> QED BY <3>1, <2>3, PutGenerated DEF CreateForeign, TypeOK
  <2>4. CASE EditGenerated(p)
    <3>1. \E obj \in GeneratedObject : WriteGenerated(p, obj)
      BY <2>1, <2>4, GeneratedBuilt DEF EditGenerated
    <3> QED BY <3>1, <2>4, PutGenerated DEF EditGenerated, TypeOK
  <2>5. CASE DeleteGenerated(p)
    <3>1. \E obj \in GeneratedObject : WriteGenerated(p, obj)
      BY <2>1, <2>5, GeneratedBuilt DEF DeleteGenerated
    <3> QED BY <3>1, <2>5, PutGenerated DEF DeleteGenerated, TypeOK
  <2> QED BY <1>2, <2>2, <2>3, <2>4, <2>5
<1>3. ASSUME NEW e \in Exporters, NEW l \in BOOLEAN, NEW q \in Ports, WriteExporter(e, l, q)
      PROVE  TypeOK'
  <2>1. [live |-> l, port |-> q] \in ExporterObject
    BY DEF ExporterObject
  <2> QED BY <1>3, <2>1 DEF WriteExporter, TypeOK
<1>4. ASSUME NEW m \in Modules, WriteModule(m) PROVE TypeOK'
  BY <1>4 DEF WriteModule, TypeOK
<1> QED BY <1>1, <1>2, <1>3, <1>4 DEF Users

LEMMA TypeEnvironment == TypeOK /\ Environment => TypeOK'
<1> SUFFICES ASSUME TypeOK, Environment PROVE TypeOK'
  OBVIOUS
<1> USE DEF Edit, objects, caches, events
<1>1. CASE Restart
  BY <1>1 DEF Restart, TypeOK, Idle
<1>2. ASSUME NEW p \in Probes, Resync(p) PROVE TypeOK'
  BY <1>2 DEF Resync, TypeOK
<1>3. ASSUME NEW p \in Probes, CollectGarbage(p) PROVE TypeOK'
  <2>1. generated[p] \in GeneratedObject /\ edits' \in Nat /\ UNCHANGED made
    BY <1>3 DEF CollectGarbage, TypeOK
  <2> QED BY <1>3, <2>1, GeneratedBuilt, PutGenerated DEF CollectGarbage, TypeOK
<1>4. ASSUME NEW p \in Probes, DeliverProbe(p) PROVE TypeOK'
  BY <1>4 DEF DeliverProbe, TypeOK
<1>5. ASSUME NEW p \in Probes, DeliverGenerated(p) PROVE TypeOK'
  BY <1>5 DEF DeliverGenerated, TypeOK
<1>6. ASSUME NEW e \in Exporters, DeliverExporter(e) PROVE TypeOK'
  BY <1>6 DEF DeliverExporter, TypeOK
<1>7. ASSUME NEW m \in Modules, DeliverModule(m) PROVE TypeOK'
  BY <1>7 DEF DeliverModule, TypeOK
<1> QED BY <1>1, <1>2, <1>3, <1>4, <1>5, <1>6, <1>7 DEF Environment

\* A status that is written.
LEMMA StatusBuilt ==
  ASSUME NEW p \in Probes, probe[p] \in ProbeObject,
         NEW obj, obj.ready \in Reasons, obj.targetCount \in Nat, obj.observed \in Nat
  PROVE  StatusUpdated(p, obj) \in ProbeObject
BY ProbeBuilt DEF StatusUpdated

LEMMA ReportsBuilt ==
  ASSUME NEW x \in ProbeObject, NEW r \in Reasons
  PROVE  /\ MissingReport(x, r) = [x EXCEPT !.ready = r, !.observed = x.gen]
         /\ MissingReport(x, r) \in ProbeObject
         /\ CreatedReport(x) \in ProbeObject
<1>1. Len(x.spec.targets) \in Nat
  BY ContentAssumption DEF ContentAssumption, ProbeObject, ProbeSpec
<1>2. x.gen \in Nat /\ "ProbeCreated" \in Reasons
  BY DEF ProbeObject, Reasons
<1> QED BY <1>1, <1>2 DEF MissingReport, CreatedReport, ProbeObject

\* What is written as a Probe, and how it ends.
LEMMA WriteEnds ==
  ASSUME NEW reply, WriteGeneratedProbe(reply)
  PROVE  \E data \in Renderings(worker.key, worker.obj.spec, worker.port) :
           /\ \/ UNCHANGED <<generated, generatedEvents>>
              \/ /\ Takes(worker.key, generatedCache[worker.key], data)
                 /\ LET old == generatedCache[worker.key]
                    IN  old.live => Changes([old EXCEPT !.owner = worker.obj.uid,
                                                        !.data = data], old)
                 /\ WriteGenerated(worker.key,
                      [live |-> TRUE, rv |-> generated[worker.key].rv + 1,
                       owner |-> worker.obj.uid, data |-> data])
           /\ made' = made \/ made' = [made EXCEPT ![worker.key] = Version(worker.obj)]
           /\ \/ Requeue
              \/ /\ worker' = [worker EXCEPT !.pc = "status"] /\ UNCHANGED queue
                 /\ Takes(worker.key, generatedCache[worker.key], data)
                 /\ made' = [made EXCEPT ![worker.key] = Version(worker.obj)]
                 /\ \/ generatedCache[worker.key].live
                       /\ ~ Changes([generatedCache[worker.key] EXCEPT
                                        !.owner = worker.obj.uid, !.data = data],
                                    generatedCache[worker.key])
                       /\ UNCHANGED generated
                    \/ WriteGenerated(worker.key,
                         [live |-> TRUE, rv |-> generated[worker.key].rv + 1,
                          owner |-> worker.obj.uid, data |-> data])
BY DEF WriteGeneratedProbe

LEMMA TypeReconcile == TypeOK /\ Reconcile => TypeOK'
<1> SUFFICES ASSUME TypeOK, Reconcile PROVE TypeOK'
  OBVIOUS
<1> USE DEF Requeue, objects, caches, events
<1>1. ASSUME NEW p \in Probes, GetProbe(p) PROVE TypeOK'
  <2>1. [pc |-> "exporter", key |-> p, obj |-> probeCache[p], port |-> NoPort,
         reason |-> "none"] \in Work
    BY DEF TypeOK, Work, Reasons
  <2> QED BY <1>1, <2>1 DEF GetProbe, TypeOK, Idle
<1>2. CASE ResolveExporter
  <2>1. worker \in Work /\ worker.key \in Probes /\ worker.obj \in ProbeObject
    BY <1>2, Working DEF ResolveExporter
  <2>2. RefKey(worker.key, worker.obj.spec.exporterRef) \in Exporters
    BY <2>1, ContentAssumption DEF ContentAssumption, ProbeObject, ProbeSpec
  <2>3. exporterCache[RefKey(worker.key, worker.obj.spec.exporterRef)].port \in Ports
    BY <2>2 DEF TypeOK, ExporterObject
  <2>4. /\ worker' \in Work
        /\ worker'.pc \in {"module", "write", "status"} => worker'.port \in Ports
    <3> DEFINE e == exporterCache[RefKey(worker.key, worker.obj.spec.exporterRef)]
    <3>1. CASE worker' = [worker EXCEPT !.pc = "module", !.port = e.port]
      BY <2>1, <2>3, <3>1, WorkBuilt
    <3>2. CASE worker' = [worker EXCEPT !.pc = "missing", !.reason = "ExporterNotFound"]
      <4>1. "ExporterNotFound" \in Reasons
        BY DEF Reasons
      <4> QED BY <2>1, <3>2, <4>1, WorkBuilt
    <3> QED BY <1>2, <3>1, <3>2 DEF ResolveExporter
  <2> QED BY <1>2, <2>4 DEF ResolveExporter, TypeOK
<1>3. CASE ResolveModule
  <2>1. worker \in Work /\ worker.port \in Ports
    BY <1>3, Working DEF ResolveModule, TypeOK
  <2>2. /\ worker' \in Work
        /\ worker'.pc \in {"module", "write", "status"} => worker'.port \in Ports
    BY <1>3, <2>1, WorkBuilt DEF ResolveModule, Reasons
  <2> QED BY <1>3, <2>2 DEF ResolveModule, TypeOK
<1>4. ASSUME NEW reply \in Replies, ReportMissing(reply) PROVE TypeOK'
  <2>1. worker.key \in Probes /\ worker.obj \in ProbeObject /\ worker.reason \in Reasons
    BY <1>4, Working DEF ReportMissing
  <2> DEFINE obj == MissingReport(worker.obj, worker.reason)
  <2>2. obj \in ProbeObject
    BY <2>1, ReportsBuilt
  <2>3. StatusUpdated(worker.key, obj) \in ProbeObject
    BY <2>1, <2>2, StatusBuilt DEF TypeOK, ProbeObject
  <2>4. probe' \in [Probes -> ProbeObject] /\ probeEvents' \subseteq Probes
    BY <1>4, <2>1, <2>3, PutProbe DEF ReportMissing, TypeOK
  <2> QED BY <1>4, <2>1, <2>4 DEF ReportMissing, TypeOK, Idle
<1>5. ASSUME NEW reply \in Replies, WriteGeneratedProbe(reply) PROVE TypeOK'
  <2>1. worker \in Work /\ worker.key \in Probes /\ worker.obj \in ProbeObject
    BY <1>5, Working DEF WriteGeneratedProbe
  <2>2. worker.port \in Ports
    BY <1>5 DEF WriteGeneratedProbe, TypeOK
  <2>3. PICK data \in Renderings(worker.key, worker.obj.spec, worker.port) :
          \/ UNCHANGED <<generated, generatedEvents>>
          \/ WriteGenerated(worker.key,
               [live |-> TRUE, rv |-> generated[worker.key].rv + 1,
                owner |-> worker.obj.uid, data |-> data])
    BY <1>5, WriteEnds
  <2>4. data \in Rendering
    BY <2>1, <2>2 DEF Rendering, ProbeObject
  <2>5. generated[worker.key].rv + 1 \in Nat /\ worker.obj.uid \in Nat
    BY <2>1, GeneratedBuilt DEF TypeOK, ProbeObject
  <2>6. [live |-> TRUE, rv |-> generated[worker.key].rv + 1, owner |-> worker.obj.uid,
         data |-> data] \in GeneratedObject
    BY <2>4, <2>5 DEF GeneratedObject
  <2>7. /\ generated' \in [Probes -> GeneratedObject]
        /\ generatedEvents' \subseteq Probes \X BOOLEAN
    BY <2>1, <2>3, <2>6, PutGenerated DEF TypeOK
  <2>8. made' \in [Probes -> Nat]
    <3>1. Version(worker.obj) \in Nat
      <4>1. worker.obj.uid \in Nat \ {0} /\ worker.obj.gen \in Nat \ {0}
        BY <2>1 DEF ProbeObject
      <4> QED BY <4>1 DEF Version
    <3>2. made' = made \/ made' = [made EXCEPT ![worker.key] = Version(worker.obj)]
      BY <1>5, WriteEnds
    <3> QED BY <3>1, <3>2 DEF TypeOK
  <2>9. /\ worker' \in {Idle} \cup Work /\ queue' \subseteq Probes
        /\ worker'.pc \in {"module", "write", "status"} => worker'.port \in Ports
    <3>1. Requeue \/ (worker' = [worker EXCEPT !.pc = "status"] /\ UNCHANGED queue)
      BY <1>5, WriteEnds
    <3>2. CASE Requeue
      BY <2>1, <3>2 DEF TypeOK, Idle
    <3>3. CASE worker' = [worker EXCEPT !.pc = "status"] /\ UNCHANGED queue
      <4>1. worker' \in Work /\ worker'.port = worker.port
        BY <2>1, <3>3, WorkBuilt
      <4> QED BY <2>2, <3>3, <4>1 DEF TypeOK
    <3> QED BY <3>1, <3>2, <3>3
  <2> QED BY <1>5, <2>7, <2>8, <2>9 DEF WriteGeneratedProbe, TypeOK
<1>6. ASSUME NEW reply \in Replies, UpdateStatus(reply) PROVE TypeOK'
  <2>1. worker.key \in Probes /\ worker.obj \in ProbeObject
    BY <1>6, Working DEF UpdateStatus
  <2> DEFINE obj == CreatedReport(worker.obj)
  <2>2. obj \in ProbeObject
    BY <2>1, ReportsBuilt DEF Reasons
  <2>3. StatusUpdated(worker.key, obj) \in ProbeObject
    BY <2>1, <2>2, StatusBuilt DEF TypeOK, ProbeObject
  <2>4. probe' \in [Probes -> ProbeObject] /\ probeEvents' \subseteq Probes
    BY <1>6, <2>1, <2>3, PutProbe DEF UpdateStatus, TypeOK
  <2> QED BY <1>6, <2>1, <2>4 DEF UpdateStatus, TypeOK, Idle
<1> QED BY <1>1, <1>2, <1>3, <1>4, <1>5, <1>6 DEF Reconcile

LEMMA TypeNext == TypeOK /\ [Next]_vars => TypeOK'
<1>1. CASE UNCHANGED vars
  BY <1>1 DEF TypeOK, vars, objects, caches, events
<1> QED BY <1>1, TypeUsers, TypeEnvironment, TypeReconcile DEF Next

\* Every variable keeps its type, whatever the keys, specs, ports and bounds
\* are.
THEOREM TypeCorrect == Spec => []TypeOK
BY TypeInit, TypeNext, PTL DEF Spec

-----------------------------------------------------------------------------
(* The inductive invariant *)

\* An earlier state of a BlackboxProbe, or of a Probe, as a cache or the worker
\* may have it: an older resourceVersion, or the same object.
Older(a, b) == a.rv <= b.rv /\ Version(a) <= Version(b) /\ (a.rv = b.rv => a = b)

OlderGenerated(a, b) == a.rv <= b.rv /\ (a.rv = b.rv => a = b)

Busy(p) == worker.pc # "idle" /\ worker.key = p

\* Another reconcile of p is certain, whatever the worker does.
Waiting(p) == p \in probeEvents \cup queue \/ <<p, TRUE>> \in generatedEvents

\* The Probe of p is the one that this state of the BlackboxProbe asks for.
Stands(p, obj) ==
  /\ generated[p].live
  /\ generated[p].owner = obj.uid
  /\ \E q \in Ports : generated[p].data \in Renderings(p, obj.spec, q)

Done(p) ==
  /\ probe[p].ready = "ProbeCreated" /\ probe[p].observed = probe[p].gen
  /\ probe[p].targetCount = Len(probe[p].spec.targets)

\* Versions grow, and everything was made from a version that was there.
Versions ==
  \A p \in Probes :
    /\ Version(probe[p]) <= probe[p].rv
    /\ Older(probeCache[p], probe[p])
    /\ OlderGenerated(generatedCache[p], generated[p])
    /\ made[p] <= Version(probeCache[p])
    /\ Busy(p) => /\ Older(worker.obj, probe[p])
                  /\ Version(worker.obj) <= Version(probeCache[p])
                  /\ made[p] <= Version(worker.obj)
                  /\ worker.pc = "status" => made[p] = Version(worker.obj)
                  /\ worker.pc = "missing" => worker.reason # "ProbeCreated"

\* What is not up to date will be looked at again.
Noticed ==
  \A p \in Probes :
    /\ probeCache[p] = probe[p] \/ p \in probeEvents
    /\ Busy(p) => worker.obj = probe[p] \/ Waiting(p)
    /\ Busy(p) /\ worker.pc = "status" => Stands(p, worker.obj) \/ Waiting(p)
    /\ probe[p].live /\ probe[p].ready = "ProbeCreated" /\ probe[p].observed = probe[p].gen
         => Stands(p, probe[p]) \/ Pending(p)
    /\ probe[p].live => Done(p) \/ Pending(p)

-----------------------------------------------------------------------------
(* What a step does to each object                                         *)

\* A user's write of a BlackboxProbe.
Revised(p) ==
  /\ edits' = edits + 1
  /\ \/ probe'[p].uid = probe[p].rv + 1 /\ probe'[p].gen = 1 /\ probe'[p].ready = "none"
     \/ /\ probe'[p].uid = probe[p].uid /\ probe'[p].gen = probe[p].gen + 1
        /\ probe'[p].ready = probe[p].ready /\ probe'[p].observed = probe[p].observed
     \/ /\ probe'[p].uid = probe[p].uid /\ probe'[p].gen = probe[p].gen
        /\ probe'[p].ready = probe[p].ready /\ probe'[p].observed = probe[p].observed
        /\ ~ probe'[p].live

\* The worker's write of its status.
StatusWritten(p) ==
  /\ Busy(p) /\ Current(probe[p], worker.obj)
  /\ probe'[p].live /\ probe'[p].uid = probe[p].uid /\ probe'[p].gen = probe[p].gen
  /\ probe'[p].spec = probe[p].spec /\ probe'[p].observed = worker.obj.gen
  /\ \/ worker.pc = "missing" /\ probe'[p].ready = worker.reason
     \/ /\ worker.pc = "status" /\ probe'[p].ready = "ProbeCreated"
        /\ probe'[p].targetCount = Len(worker.obj.spec.targets)
  /\ edits' = edits

ProbeStepped(p) ==
  \/ probe'[p] = probe[p]
  \/ /\ probe'[p].rv = probe[p].rv + 1 /\ p \in probeEvents' /\ UNCHANGED made
     /\ Revised(p) \/ StatusWritten(p)

LEMMA ProbeStep ==
  ASSUME TypeOK, [Next]_vars, NEW p \in Probes
  PROVE  ProbeStepped(p)
<1>0. /\ probe \in [Probes -> ProbeObject] /\ edits \in Nat
      /\ \A o \in Probes : probe[o] \in ProbeObject
  BY DEF TypeOK
<1>. UNCHANGED probe => ProbeStepped(p)
  BY DEF ProbeStepped
<1>1. CASE UNCHANGED vars
  BY <1>1 DEF vars, objects
<1>2. ASSUME NEW o \in Probes, NEW s \in ProbeSpec, CreateProbe(o, s) PROVE ProbeStepped(p)
  BY <1>2, <1>0 DEF ProbeStepped, CreateProbe, WriteProbe, Edit, Revised
<1>3. ASSUME NEW o \in Probes, NEW s \in ProbeSpec, EditProbe(o, s) PROVE ProbeStepped(p)
  BY <1>3, <1>0 DEF ProbeStepped, EditProbe, WriteProbe, Edit, Revised, ProbeObject
<1>4. ASSUME NEW o \in Probes, DeleteProbe(o) PROVE ProbeStepped(p)
  BY <1>4, <1>0 DEF ProbeStepped, DeleteProbe, WriteProbe, Edit, Revised, ProbeObject
<1>5. ASSUME NEW reply \in Replies, ReportMissing(reply) PROVE ProbeStepped(p)
  <2>1. /\ worker.pc = "missing" /\ worker.key \in Probes
        /\ worker.obj \in ProbeObject /\ worker.reason \in Reasons
    BY <1>5, Working DEF ReportMissing
  <2> DEFINE obj == MissingReport(worker.obj, worker.reason)
  <2>2. obj.ready = worker.reason /\ obj.observed = worker.obj.gen
    BY <2>1 DEF MissingReport, ProbeObject
  <2>3. CASE UNCHANGED probe
    BY <2>3
  <2>4. CASE Current(probe[worker.key], worker.obj) /\ WriteProbe(worker.key, StatusUpdated(worker.key, obj))
    <3>1. probe' = [probe EXCEPT ![worker.key] = StatusUpdated(worker.key, obj)]
      BY <2>4 DEF WriteProbe
    <3>2. CASE p = worker.key
      <4>1. probe'[p] = [probe[p] EXCEPT !.rv = @ + 1, !.ready = obj.ready,
                           !.targetCount = obj.targetCount, !.observed = obj.observed]
        BY <3>1, <3>2, <1>0 DEF StatusUpdated
      <4>2. /\ probe'[p].rv = probe[p].rv + 1 /\ probe'[p].live = probe[p].live
            /\ probe'[p].uid = probe[p].uid /\ probe'[p].gen = probe[p].gen
            /\ probe'[p].spec = probe[p].spec
            /\ probe'[p].ready = worker.reason /\ probe'[p].observed = worker.obj.gen
        BY <4>1, <2>2, <1>0 DEF ProbeObject
      <4>3. p \in probeEvents' /\ edits' = edits /\ UNCHANGED made
        BY <1>5, <2>4, <3>2 DEF WriteProbe, ReportMissing
      <4>4. probe[p].live
        BY <2>4, <3>2 DEF Current
      <4>5. StatusWritten(p)
        BY <2>1, <2>4, <3>2, <4>2, <4>3, <4>4 DEF StatusWritten, Busy
      <4> QED BY <4>2, <4>3, <4>5 DEF ProbeStepped
    <3>3. CASE p # worker.key
      BY <3>1, <3>3, <1>0 DEF ProbeStepped
    <3> QED BY <3>2, <3>3
  <2> QED BY <1>5, <2>3, <2>4 DEF ReportMissing
<1>6. ASSUME NEW reply \in Replies, UpdateStatus(reply) PROVE ProbeStepped(p)
  <2>1. worker.pc = "status" /\ worker.key \in Probes /\ worker.obj \in ProbeObject
    BY <1>6, Working DEF UpdateStatus
  <2> DEFINE obj == CreatedReport(worker.obj)
  <2>2. /\ obj.ready = "ProbeCreated" /\ obj.observed = worker.obj.gen
        /\ obj.targetCount = Len(worker.obj.spec.targets)
    BY <2>1 DEF CreatedReport, ProbeObject
  <2>3. CASE UNCHANGED probe
    BY <2>3
  <2>4. CASE Current(probe[worker.key], worker.obj) /\ WriteProbe(worker.key, StatusUpdated(worker.key, obj))
    <3>1. probe' = [probe EXCEPT ![worker.key] = StatusUpdated(worker.key, obj)]
      BY <2>4 DEF WriteProbe
    <3>2. CASE p = worker.key
      <4>1. probe'[p] = [probe[p] EXCEPT !.rv = @ + 1, !.ready = obj.ready,
                           !.targetCount = obj.targetCount, !.observed = obj.observed]
        BY <3>1, <3>2, <1>0 DEF StatusUpdated
      <4>2. /\ probe'[p].rv = probe[p].rv + 1 /\ probe'[p].live = probe[p].live
            /\ probe'[p].uid = probe[p].uid /\ probe'[p].gen = probe[p].gen
            /\ probe'[p].spec = probe[p].spec /\ probe'[p].ready = "ProbeCreated"
            /\ probe'[p].targetCount = Len(worker.obj.spec.targets)
            /\ probe'[p].observed = worker.obj.gen
        BY <4>1, <2>2, <1>0 DEF ProbeObject
      <4>3. p \in probeEvents' /\ edits' = edits /\ UNCHANGED made
        BY <1>6, <2>4, <3>2 DEF WriteProbe, UpdateStatus
      <4>4. probe[p].live
        BY <2>4, <3>2 DEF Current
      <4>5. StatusWritten(p)
        BY <2>1, <2>4, <3>2, <4>2, <4>3, <4>4 DEF StatusWritten, Busy
      <4> QED BY <4>2, <4>3, <4>5 DEF ProbeStepped
    <3>3. CASE p # worker.key
      BY <3>1, <3>3, <1>0 DEF ProbeStepped
    <3> QED BY <3>2, <3>3
  <2> QED BY <1>6, <2>3, <2>4 DEF UpdateStatus
<1>7. CASE Environment
  BY <1>7 DEF Environment, Restart, Resync, CollectGarbage, DeliverProbe, DeliverGenerated,
              DeliverExporter, DeliverModule, objects
<1> QED
  BY <1>1, <1>2, <1>3, <1>4, <1>5, <1>6, <1>7
  DEF Next, Users, Reconcile, CreateForeign, EditGenerated, DeleteGenerated, WriteExporter,
      WriteModule, GetProbe, ResolveExporter, ResolveModule, WriteGeneratedProbe, objects

\* A new version of a Probe is an event, which is about this operator if the
\* Probe was or is its own.
GeneratedStepped(p) ==
  \/ generated'[p] = generated[p]
  \/ /\ generated'[p].rv = generated[p].rv + 1
     /\ <<p, Owned(generated[p]) \/ Owned(generated'[p])>> \in generatedEvents'

LEMMA PutGeneratedStep ==
  ASSUME TypeOK, NEW p \in Probes, NEW o \in Probes, NEW obj,
         obj.rv = generated[o].rv + 1, WriteGenerated(o, obj)
  PROVE  GeneratedStepped(p)
<1>1. generated' = [generated EXCEPT ![o] = obj] /\ generated \in [Probes -> GeneratedObject]
  BY DEF WriteGenerated, TypeOK
<1>2. CASE p = o
  <2>1. generated'[p] = obj
    BY <1>1, <1>2
  <2> QED BY <1>2, <2>1 DEF WriteGenerated, GeneratedStepped
<1>3. CASE p # o
  BY <1>1, <1>3 DEF GeneratedStepped
<1> QED BY <1>2, <1>3

LEMMA GeneratedStep ==
  ASSUME TypeOK, [Next]_vars, NEW p \in Probes
  PROVE  GeneratedStepped(p)
<1>0. \A o \in Probes : generated[o] \in GeneratedObject
  BY DEF TypeOK
<1>. UNCHANGED generated => GeneratedStepped(p)
  BY DEF GeneratedStepped
<1>1. CASE UNCHANGED vars
  BY <1>1 DEF vars, objects
<1>2. ASSUME NEW o \in Probes, CreateForeign(o) PROVE GeneratedStepped(p)
  BY <1>2, PutGeneratedStep DEF CreateForeign
<1>3. ASSUME NEW o \in Probes, EditGenerated(o) PROVE GeneratedStepped(p)
  <2>1. [generated[o] EXCEPT !.rv = @ + 1, !.data = Blank].rv = generated[o].rv + 1
    BY <1>0 DEF GeneratedObject
  <2> QED BY <1>3, <2>1, PutGeneratedStep DEF EditGenerated
<1>4. ASSUME NEW o \in Probes, DeleteGenerated(o) \/ CollectGarbage(o) PROVE GeneratedStepped(p)
  <2>1. [generated[o] EXCEPT !.rv = @ + 1, !.live = FALSE].rv = generated[o].rv + 1
    BY <1>0 DEF GeneratedObject
  <2> QED BY <1>4, <2>1, PutGeneratedStep DEF DeleteGenerated, CollectGarbage
<1>5. ASSUME NEW reply \in Replies, WriteGeneratedProbe(reply) PROVE GeneratedStepped(p)
  <2>1. worker.key \in Probes
    BY <1>5, Working DEF WriteGeneratedProbe
  <2>2. PICK data \in Renderings(worker.key, worker.obj.spec, worker.port) :
          \/ UNCHANGED <<generated, generatedEvents>>
          \/ WriteGenerated(worker.key,
               [live |-> TRUE, rv |-> generated[worker.key].rv + 1,
                owner |-> worker.obj.uid, data |-> data])
    BY <1>5, WriteEnds
  <2> QED BY <2>1, <2>2, PutGeneratedStep
<1> QED
  BY <1>1, <1>2, <1>3, <1>4, <1>5
  DEF Next, Users, Environment, Reconcile, CreateProbe, EditProbe, DeleteProbe, WriteExporter,
      WriteModule, Restart, Resync, DeliverProbe, DeliverGenerated, DeliverExporter,
      DeliverModule, GetProbe, ResolveExporter, ResolveModule, ReportMissing, UpdateStatus,
      objects

\* A cache stays, or catches up.
CacheStepped(p) ==
  /\ probeCache'[p] = probeCache[p] \/ (probeCache'[p] = probe[p] /\ UNCHANGED probe)
  /\ \/ generatedCache'[p] = generatedCache[p]
     \/ generatedCache'[p] = generated[p] /\ UNCHANGED generated
  /\ probeCache[p] = probe[p] \/ p \in probeEvents
       => \/ probeCache'[p] = probe'[p]
          \/ p \in probeEvents'

LEMMA CacheStep ==
  ASSUME TypeOK, [Next]_vars, NEW p \in Probes
  PROVE  CacheStepped(p)
<1>0. /\ probeCache \in [Probes -> ProbeObject]
      /\ generatedCache \in [Probes -> GeneratedObject]
  BY DEF TypeOK
<1>1. probe'[p] = probe[p] \/ p \in probeEvents'
  BY ProbeStep DEF ProbeStepped
<1>2. CASE UNCHANGED vars
  BY <1>2 DEF vars, objects, caches, events, CacheStepped
<1>3. CASE Restart
  BY <1>3 DEF Restart, objects, CacheStepped
<1>4. ASSUME NEW o \in Probes, DeliverProbe(o) PROVE CacheStepped(p)
  BY <1>4, <1>0 DEF DeliverProbe, objects, CacheStepped
<1>5. ASSUME NEW o \in Probes, DeliverGenerated(o) PROVE CacheStepped(p)
  BY <1>5, <1>0 DEF DeliverGenerated, objects, CacheStepped
<1>6. CASE /\ UNCHANGED <<probeCache, generatedCache>>
           /\ probeEvents \subseteq probeEvents'
  BY <1>1, <1>6 DEF CacheStepped
<1>7. CASE Users
  BY <1>6, <1>7
  DEF Users, CreateProbe, EditProbe, DeleteProbe, CreateForeign, EditGenerated, DeleteGenerated,
      WriteExporter, WriteModule, WriteProbe, caches, events
<1>8. CASE Reconcile
  BY <1>6, <1>8
  DEF Reconcile, GetProbe, ResolveExporter, ResolveModule, ReportMissing, WriteGeneratedProbe,
      UpdateStatus, WriteProbe, caches, events
<1> QED
  BY <1>2, <1>3, <1>4, <1>5, <1>6, <1>7, <1>8
  DEF Next, Environment, Resync, CollectGarbage, DeliverExporter, DeliverModule, caches, events

\* What the worker does in a step: it takes a key from the queue, goes on, has
\* written the Probe, or stops.
Taken ==
  \E p \in queue :
    /\ worker.pc = "idle"
    /\ worker' = [pc |-> "exporter", key |-> p, obj |-> probeCache[p], port |-> NoPort,
                  reason |-> "none"]
    /\ UNCHANGED <<probe, probeCache, probeEvents, made>>

Advanced ==
  /\ worker.pc # "idle" /\ worker'.pc \notin {"idle", "status"}
  /\ worker'.key = worker.key /\ worker'.obj = worker.obj
  /\ worker'.pc = "missing" => worker'.reason # "ProbeCreated"
  /\ UNCHANGED <<probe, probeCache, probeEvents, generated, generatedEvents, queue, made>>

Written ==
  /\ worker.pc = "write" /\ worker' = [worker EXCEPT !.pc = "status"]
  /\ made' = [made EXCEPT ![worker.key] = Version(worker.obj)]
  /\ UNCHANGED <<probe, probeCache, probeEvents, queue>>
  /\ \E reply \in Replies : WriteGeneratedProbe(reply)

\* It ends with an error, with the status written, or with the process.
Stopped ==
  /\ worker' = Idle
  /\ \/ worker.pc # "idle" /\ Requeue
     \/ \E reply \in Replies : UpdateStatus(reply) /\ Current(probe[worker.key], worker.obj)
     \/ Restart
  /\ \/ UNCHANGED made
     \/ /\ worker.pc = "write" /\ made' = [made EXCEPT ![worker.key] = Version(worker.obj)]
        /\ UNCHANGED probeCache

WorkerStepped == UNCHANGED <<worker, made>> \/ Taken \/ Advanced \/ Written \/ Stopped

LEMMA WorkerStep ==
  ASSUME TypeOK, [Next]_vars
  PROVE  WorkerStepped
<1>. UNCHANGED <<worker, made>> => WorkerStepped
  BY DEF WorkerStepped
<1>1. CASE UNCHANGED vars
  BY <1>1 DEF vars
<1>2. CASE Users
  BY <1>2 DEF Users, CreateProbe, EditProbe, DeleteProbe, CreateForeign, EditGenerated,
              DeleteGenerated, WriteExporter, WriteModule, Edit
<1>3. CASE Restart
  BY <1>3 DEF Restart, Edit, Stopped, WorkerStepped
<1>4. CASE Environment /\ ~ Restart
  BY <1>4 DEF Environment, Resync, CollectGarbage, DeliverProbe, DeliverGenerated,
              DeliverExporter, DeliverModule, Edit
<1>5. ASSUME NEW p \in Probes, GetProbe(p) PROVE WorkerStepped
  <2>1. CASE probeCache[p].live
    BY <1>5, <2>1 DEF GetProbe, Taken, WorkerStepped, objects, caches, events
  <2>2. CASE ~ probeCache[p].live
    <3>1. worker = Idle
      BY <1>5 DEF GetProbe, TypeOK, Work
    <3> QED BY <1>5, <2>2, <3>1 DEF GetProbe
  <2> QED BY <2>1, <2>2
<1>6. CASE ResolveExporter
  <2>1. worker \in Work
    BY <1>6, Working DEF ResolveExporter
  <2>2. /\ worker'.pc \notin {"idle", "status"}
        /\ worker'.key = worker.key /\ worker'.obj = worker.obj
        /\ worker'.pc = "missing" => worker'.reason # "ProbeCreated"
    BY <1>6, <2>1 DEF ResolveExporter, Work
  <2> QED BY <1>6, <2>2 DEF ResolveExporter, Advanced, WorkerStepped, objects, caches, events
<1>7. CASE ResolveModule
  <2>1. worker \in Work
    BY <1>7, Working DEF ResolveModule
  <2>2. /\ worker'.pc \notin {"idle", "status"}
        /\ worker'.key = worker.key /\ worker'.obj = worker.obj
        /\ worker'.pc = "missing" => worker'.reason # "ProbeCreated"
    BY <1>7, <2>1 DEF ResolveModule, Work
  <2> QED BY <1>7, <2>2 DEF ResolveModule, Advanced, WorkerStepped, objects, caches, events
<1>8. ASSUME NEW reply \in Replies, ReportMissing(reply) PROVE WorkerStepped
  BY <1>8 DEF ReportMissing, Requeue, Stopped, WorkerStepped
<1>9. ASSUME NEW reply \in Replies, WriteGeneratedProbe(reply) PROVE WorkerStepped
  <2>1. worker.pc = "write" /\ UNCHANGED <<probe, probeCache, probeEvents>>
    BY <1>9 DEF WriteGeneratedProbe, caches
  <2>2. /\ made' = made \/ made' = [made EXCEPT ![worker.key] = Version(worker.obj)]
        /\ \/ Requeue
           \/ /\ worker' = [worker EXCEPT !.pc = "status"] /\ UNCHANGED queue
              /\ made' = [made EXCEPT ![worker.key] = Version(worker.obj)]
    BY <1>9, WriteEnds
  <2>3. CASE Requeue
    BY <2>1, <2>2, <2>3 DEF Requeue, Stopped, WorkerStepped
  <2>4. CASE ~ Requeue
    BY <1>9, <2>1, <2>2, <2>4 DEF Written, WorkerStepped
  <2> QED BY <2>3, <2>4
<1>10. ASSUME NEW reply \in Replies, UpdateStatus(reply) PROVE WorkerStepped
  <2>1. worker.pc = "status" /\ UNCHANGED made
    BY <1>10 DEF UpdateStatus
  <2>2. CASE Current(probe[worker.key], worker.obj) /\ reply = "ok"
    BY <1>10, <2>1, <2>2 DEF UpdateStatus, Stopped, WorkerStepped
  <2>3. CASE ~ (Current(probe[worker.key], worker.obj) /\ reply = "ok")
    BY <1>10, <2>1, <2>3 DEF UpdateStatus, Requeue, Stopped, WorkerStepped
  <2> QED BY <2>2, <2>3
<1> QED
  BY <1>1, <1>2, <1>3, <1>4, <1>5, <1>6, <1>7, <1>8, <1>9, <1>10 DEF Next, Reconcile

\* Whoever waits goes on waiting, unless the worker takes the key, finds no
\* probe, or the process starts anew without it.
WaitingStepped(p) ==
  Waiting(p) =>
    \/ Waiting(p)'
    \/ worker.pc = "idle" /\ Busy(p)'
    \/ worker.pc = "idle" /\ ~ probeCache[p].live /\ UNCHANGED <<probe, probeCache, probeEvents>>
    \/ worker' = Idle /\ ~ probe[p].live /\ UNCHANGED probe

LEMMA WaitingStep ==
  ASSUME TypeOK, [Next]_vars, NEW p \in Probes
  PROVE  WaitingStepped(p)
<1>. (/\ probeEvents \subseteq probeEvents' /\ generatedEvents \subseteq generatedEvents'
      /\ queue \subseteq queue') => WaitingStepped(p)
  BY DEF WaitingStepped, Waiting
<1>1. CASE UNCHANGED vars
  BY <1>1 DEF vars, events
<1>2. CASE Users
  BY <1>2 DEF Users, CreateProbe, EditProbe, DeleteProbe, CreateForeign, EditGenerated,
              DeleteGenerated, WriteExporter, WriteModule, WriteProbe, WriteGenerated, events
<1>3. CASE Restart
  BY <1>3 DEF Restart, WaitingStepped, Waiting, objects
<1>4. ASSUME NEW o \in Probes, DeliverProbe(o) PROVE WaitingStepped(p)
  BY <1>4 DEF DeliverProbe, WaitingStepped, Waiting
<1>5. ASSUME NEW o \in Probes, DeliverGenerated(o) PROVE WaitingStepped(p)
  BY <1>5 DEF DeliverGenerated, WaitingStepped, Waiting
<1>6. CASE Environment
  BY <1>3, <1>4, <1>5, <1>6 DEF Environment, Resync, CollectGarbage, DeliverExporter,
     DeliverModule, WriteGenerated, events
<1>7. ASSUME NEW o \in Probes, GetProbe(o) PROVE WaitingStepped(p)
  <2>1. CASE o # p
    BY <1>7, <2>1 DEF GetProbe, WaitingStepped, Waiting, events
  <2>2. CASE o = p /\ probeCache[p].live
    BY <1>7, <2>2 DEF GetProbe, WaitingStepped, Busy
  <2>3. CASE o = p /\ ~ probeCache[p].live
    BY <1>7, <2>3 DEF GetProbe, WaitingStepped, objects, caches, events
  <2> QED BY <2>1, <2>2, <2>3
<1>8. ASSUME NEW reply \in Replies,
             ReportMissing(reply) \/ WriteGeneratedProbe(reply) \/ UpdateStatus(reply)
      PROVE  WaitingStepped(p)
  BY <1>8 DEF ReportMissing, WriteGeneratedProbe, UpdateStatus, WriteProbe, WriteGenerated, Requeue
<1> QED
  BY <1>1, <1>2, <1>6, <1>7, <1>8 DEF Next, Reconcile, ResolveExporter, ResolveModule, events

-----------------------------------------------------------------------------
(* Versions only grow                                                      *)

LEMMA VersionsInit == Init => Versions
<1> SUFFICES ASSUME Init, NEW p \in Probes
             PROVE  /\ Version(probe[p]) <= probe[p].rv
                    /\ Older(probeCache[p], probe[p])
                    /\ OlderGenerated(generatedCache[p], generated[p])
                    /\ made[p] <= Version(probeCache[p])
                    /\ ~ Busy(p)
  BY DEF Versions
<1>1. /\ probe[p].rv = 1 /\ probe[p].uid = 1 /\ probe[p].gen = 1
      /\ probeCache[p] = probe[p] /\ made[p] = 0
  BY DEF Init
<1>2. generatedCache[p] = generated[p] /\ generated[p].rv = 0
  BY DEF Init
<1>3. Version(probe[p]) = 1 /\ Version(probeCache[p]) = 1
  BY <1>1 DEF Version
<1>4. ~ Busy(p)
  BY DEF Init, Idle, Busy
<1> QED BY <1>1, <1>2, <1>3, <1>4 DEF Older, OlderGenerated

\* What was an earlier state of an object stays one.
LEMMA StaysOlder ==
  ASSUME TypeOK, [Next]_vars, NEW p \in Probes, Version(probe[p]) <= probe[p].rv
  PROVE  /\ Version(probe[p]) <= Version(probe'[p]) /\ Version(probe'[p]) <= probe'[p].rv
         /\ \A x \in ProbeObject : Older(x, probe[p]) => Older(x, probe'[p])
<1>1. probe[p] \in ProbeObject /\ probe'[p] \in ProbeObject
  BY TypeNext DEF TypeOK
<1>2. /\ probe[p].rv \in Int /\ probe[p].uid \in Int /\ probe[p].gen \in Int
      /\ probe'[p].rv \in Int /\ probe'[p].uid \in Int /\ probe'[p].gen \in Int
  BY <1>1 DEF ProbeObject
<1>3. CASE probe'[p] = probe[p]
  BY <1>2, <1>3 DEF Version
<1>4. CASE probe'[p] # probe[p]
  <2>1. probe'[p].rv = probe[p].rv + 1 /\ (Revised(p) \/ StatusWritten(p))
    BY <1>4, ProbeStep DEF ProbeStepped
  <2>2. Version(probe[p]) <= Version(probe'[p]) /\ Version(probe'[p]) <= probe'[p].rv
    <3>1. \/ probe'[p].uid = probe[p].rv + 1 /\ probe'[p].gen = 1
          \/ /\ probe'[p].uid = probe[p].uid
             /\ probe'[p].gen = probe[p].gen + 1 \/ probe'[p].gen = probe[p].gen
      BY <2>1 DEF Revised, StatusWritten
    <3>2. probe[p].uid + probe[p].gen - 1 <= probe[p].rv
      BY DEF Version
    <3>3. /\ probe[p].uid + probe[p].gen - 1 <= probe'[p].uid + probe'[p].gen - 1
          /\ probe'[p].uid + probe'[p].gen - 1 <= probe'[p].rv
      BY <1>2, <2>1, <3>1, <3>2
    <3> QED BY <3>3 DEF Version
  <2>3. ASSUME NEW x \in ProbeObject, Older(x, probe[p]) PROVE Older(x, probe'[p])
    <3>1. x.rv \in Int /\ Version(x) \in Int
      BY DEF ProbeObject, Version
    <3>2. Version(probe[p]) \in Int /\ Version(probe'[p]) \in Int
      BY <1>2 DEF Version
    <3>3. x.rv <= probe[p].rv /\ Version(x) <= Version(probe[p])
      BY <2>3 DEF Older
    <3>4. Version(x) <= Version(probe'[p])
      BY <2>2, <3>1, <3>2, <3>3
    <3>5. x.rv <= probe'[p].rv /\ x.rv # probe'[p].rv
      BY <1>2, <2>1, <3>1, <3>3
    <3> QED BY <3>4, <3>5 DEF Older
  <2> QED BY <2>2, <2>3
<1> QED BY <1>3, <1>4

LEMMA StaysOlderGenerated ==
  ASSUME TypeOK, [Next]_vars, NEW p \in Probes,
         NEW x \in GeneratedObject, OlderGenerated(x, generated[p])
  PROVE  OlderGenerated(x, generated'[p])
<1>1. generated[p] \in GeneratedObject /\ generated'[p] \in GeneratedObject
  BY TypeNext DEF TypeOK
<1>2. generated'[p] = generated[p] \/ generated'[p].rv = generated[p].rv + 1
  BY GeneratedStep DEF GeneratedStepped
<1> QED BY <1>1, <1>2 DEF OlderGenerated, GeneratedObject

LEMMA VersionsNext == TypeOK /\ Versions /\ [Next]_vars => Versions'
<1> SUFFICES ASSUME TypeOK, Versions, [Next]_vars, NEW p \in Probes
             PROVE  /\ Version(probe'[p]) <= probe'[p].rv
                    /\ Older(probeCache'[p], probe'[p])
                    /\ OlderGenerated(generatedCache'[p], generated'[p])
                    /\ made'[p] <= Version(probeCache'[p])
                    /\ Busy(p)' => /\ Older(worker'.obj, probe'[p])
                                   /\ Version(worker'.obj) <= Version(probeCache'[p])
                                   /\ made'[p] <= Version(worker'.obj)
                                   /\ worker'.pc = "status" => made'[p] = Version(worker'.obj)
                                   /\ worker'.pc = "missing" => worker'.reason # "ProbeCreated"
  BY DEF Versions, Older, OlderGenerated, Version, Busy
<1>0. TypeOK'
  BY TypeNext
<1>1. /\ probe[p] \in ProbeObject /\ probeCache[p] \in ProbeObject
      /\ probeCache'[p] \in ProbeObject /\ generatedCache[p] \in GeneratedObject
      /\ made \in [Probes -> Nat] /\ made[p] \in Nat
      /\ generatedCache'[p] \in GeneratedObject /\ generated[p] \in GeneratedObject
  BY <1>0 DEF TypeOK
<1>2. \A x \in ProbeObject : Version(x) \in Int
  BY DEF ProbeObject, Version
<1>3. /\ Version(probe[p]) <= probe[p].rv
      /\ Older(probeCache[p], probe[p])
      /\ OlderGenerated(generatedCache[p], generated[p])
      /\ made[p] <= Version(probeCache[p])
  BY DEF Versions
<1>4. /\ Version(probe'[p]) <= probe'[p].rv
      /\ \A x \in ProbeObject : Older(x, probe[p]) => Older(x, probe'[p])
  BY <1>3, StaysOlder
<1>5. Older(probe[p], probe[p]) /\ OlderGenerated(generated[p], generated[p])
  <2>1. Version(probe[p]) \in Int /\ probe[p].rv \in Int /\ generated[p].rv \in Int
    BY <1>1, <1>2 DEF ProbeObject, GeneratedObject
  <2> QED BY <2>1 DEF Older, OlderGenerated
<1>6. Older(probeCache'[p], probe'[p])
  <2>1. probeCache'[p] = probeCache[p] \/ probeCache'[p] = probe[p]
    BY CacheStep DEF CacheStepped
  <2> QED BY <2>1, <1>1, <1>3, <1>4, <1>5
<1>7. OlderGenerated(generatedCache'[p], generated'[p])
  <2>1. generatedCache'[p] = generatedCache[p] \/ generatedCache'[p] = generated[p]
    BY CacheStep DEF CacheStepped
  <2> QED BY <2>1, <1>1, <1>3, <1>5, StaysOlderGenerated
<1>8. Version(probeCache[p]) <= Version(probeCache'[p])
  <2>1. probeCache'[p] = probeCache[p] \/ probeCache'[p] = probe[p]
    BY CacheStep DEF CacheStepped
  <2>2. Version(probeCache[p]) <= Version(probe[p])
    BY <1>3 DEF Older
  <2>3. Version(probeCache[p]) \in Int
    BY <1>1, <1>2
  <2> QED BY <2>1, <2>2, <2>3
<1>9. Version(probeCache[p]) \in Int /\ Version(probeCache'[p]) \in Int
  BY <1>1, <1>2
<1>10. Busy(p) =>
         /\ worker \in Work /\ worker.obj \in ProbeObject /\ Version(worker.obj) \in Int
         /\ Older(worker.obj, probe[p]) /\ Older(worker.obj, probe'[p])
         /\ Version(worker.obj) <= Version(probeCache[p])
         /\ made[p] <= Version(worker.obj)
         /\ worker.pc = "status" => made[p] = Version(worker.obj)
         /\ worker.pc = "missing" => worker.reason # "ProbeCreated"
  <2>1. Busy(p) => worker \in Work /\ worker.obj \in ProbeObject
    BY Working DEF Busy
  <2>2. Busy(p) =>
         /\ Older(worker.obj, probe[p])
         /\ Version(worker.obj) <= Version(probeCache[p])
         /\ made[p] <= Version(worker.obj)
         /\ worker.pc = "status" => made[p] = Version(worker.obj)
         /\ worker.pc = "missing" => worker.reason # "ProbeCreated"
    BY DEF Versions
  <2> QED BY <2>1, <2>2, <1>2, <1>4
<1> DEFINE Kept == /\ made'[p] <= Version(probeCache'[p])
                   /\ Busy(p)' => /\ Older(worker'.obj, probe'[p])
                                  /\ Version(worker'.obj) <= Version(probeCache'[p])
                                  /\ made'[p] <= Version(worker'.obj)
                                  /\ worker'.pc = "status" => made'[p] = Version(worker'.obj)
                                  /\ worker'.pc = "missing" => worker'.reason # "ProbeCreated"
<1>11. CASE UNCHANGED <<worker, made>>
  <2>1. Busy(p)' = Busy(p)
    BY <1>11 DEF Busy
  <2>2. made'[p] <= Version(probeCache'[p])
    BY <1>11, <1>1, <1>3, <1>8, <1>9
  <2>3. ASSUME Busy(p) PROVE Version(worker.obj) <= Version(probeCache'[p])
    BY <2>3, <1>8, <1>9, <1>10
  <2>4. Kept
    BY <1>10, <1>11, <2>1, <2>2, <2>3
  <2> QED BY <1>4, <1>6, <1>7, <2>4
<1>12. CASE Taken
  <2>1. PICK o \in queue : /\ worker' = [pc |-> "exporter", key |-> o, obj |-> probeCache[o],
                                        port |-> NoPort, reason |-> "none"]
                           /\ UNCHANGED <<probe, probeCache, probeEvents, made>>
    BY <1>12 DEF Taken
  <2>2. Busy(p)' => worker'.obj = probeCache[p] /\ worker'.pc = "exporter"
    BY <2>1 DEF Busy
  <2>3. Kept
    BY <2>1, <2>2, <1>3, <1>9
  <2> QED BY <1>4, <1>6, <1>7, <2>3
<1>13. CASE Advanced
  <2>1. /\ worker.pc # "idle" /\ worker'.key = worker.key /\ worker'.obj = worker.obj
        /\ worker'.pc # "status" /\ UNCHANGED <<probe, probeCache, made>>
        /\ worker'.pc = "missing" => worker'.reason # "ProbeCreated"
    BY <1>13 DEF Advanced
  <2>2. Busy(p)' => Busy(p)
    BY <2>1 DEF Busy
  <2>3. Kept
    BY <2>1, <2>2, <1>3, <1>10
  <2> QED BY <1>4, <1>6, <1>7, <2>3
<1>14. CASE Written
  <2>1. /\ worker.pc = "write" /\ worker' = [worker EXCEPT !.pc = "status"]
        /\ made' = [made EXCEPT ![worker.key] = Version(worker.obj)]
        /\ UNCHANGED <<probe, probeCache>>
    BY <1>14 DEF Written
  <2>2. worker \in Work
    BY <2>1, Working
  <2>3. worker'.pc = "status" /\ worker'.key = worker.key /\ worker'.obj = worker.obj
    BY <2>1, <2>2 DEF Work
  <2>4. CASE worker.key = p
    <3>1. Busy(p) /\ made'[p] = Version(worker.obj)
      BY <2>1, <2>4, <1>1 DEF Busy
    <3>2. Kept
      BY <3>1, <2>1, <2>3, <1>10
    <3> QED BY <1>4, <1>6, <1>7, <3>2
  <2>5. CASE worker.key # p
    <3>1. ~ Busy(p)' /\ made'[p] = made[p]
      BY <2>1, <2>3, <2>5, <1>1 DEF Busy
    <3>2. Kept
      BY <3>1, <2>1, <1>3
    <3> QED BY <1>4, <1>6, <1>7, <3>2
  <2> QED BY <2>4, <2>5
<1>15. CASE Stopped
  <2>1. ~ Busy(p)'
    BY <1>15 DEF Stopped, Idle, Busy
  <2>2. made'[p] = made[p] \/ (Busy(p) /\ made'[p] = Version(worker.obj))
    BY <1>15, <1>1 DEF Stopped, Busy
  <2>3. made'[p] <= Version(probeCache'[p])
    BY <2>2, <1>1, <1>3, <1>8, <1>9, <1>10
  <2> QED BY <1>4, <1>6, <1>7, <2>1, <2>3
<1> QED BY <1>11, <1>12, <1>13, <1>14, <1>15, WorkerStep DEF WorkerStepped

-----------------------------------------------------------------------------
(* What is not up to date will be looked at again                          *)

LEMMA NoticedInit == Init => Noticed
<1> SUFFICES ASSUME Init, NEW p \in Probes
             PROVE  /\ probeCache[p] = probe[p]
                    /\ ~ Busy(p)
                    /\ probe[p].ready = "none"
                    /\ probe[p].live => Pending(p)
  BY DEF Noticed
<1>1. probeCache[p] = probe[p] /\ probe[p].ready = "none"
  BY DEF Init
<1>2. probe[p].live => p \in queue
  BY DEF Init
<1> QED BY <1>1, <1>2 DEF Pending, Busy, Init, Idle

\* While the worker is busy nothing that waits is forgotten.
LEMMA StillWaits ==
  ASSUME TypeOK, [Next]_vars, NEW p \in Probes, Waiting(p), Busy(p),
         Busy(p)' \/ probe[p].live
  PROVE  Waiting(p)'
<1>1. worker.pc # "idle" /\ (Busy(p)' => worker' # Idle)
  BY DEF Busy, Idle
<1>2. probe[p].live \/ ~ (worker' = Idle)
  BY <1>1
<1> QED BY <1>1, <1>2, WaitingStep DEF WaitingStepped

\* A new state of a BlackboxProbe is an event.
LEMMA NewsOfProbe ==
  ASSUME TypeOK, [Next]_vars, NEW p \in Probes, probe'[p] # probe[p]
  PROVE  Waiting(p)'
BY ProbeStep DEF ProbeStepped, Waiting

\* A Probe that stands for a state of its owner goes on doing so, or there is
\* an event.
LEMMA NewsOfGenerated ==
  ASSUME TypeOK, [Next]_vars, NEW p \in Probes, NEW x \in ProbeObject, Stands(p, x)
  PROVE  \/ UNCHANGED generated[p]
         \/ Waiting(p)'
<1>1. Owned(generated[p])
  <2>1. generated[p].owner = x.uid /\ x.uid \in Nat \ {0}
    BY DEF Stands, ProbeObject
  <2> QED BY <2>1 DEF Stands, Owned
<1>2. Owned(generated[p]) \/ Owned(generated'[p]) = TRUE
  BY <1>1
<1>3. CASE generated'[p] # generated[p]
  <2>1. <<p, Owned(generated[p]) \/ Owned(generated'[p])>> \in generatedEvents'
    BY <1>3, GeneratedStep DEF GeneratedStepped
  <2>2. <<p, TRUE>> \in generatedEvents'
    BY <1>1, <2>1
  <2> QED BY <2>2 DEF Waiting
<1> QED BY <1>3

\* A Probe that was written stands for what the worker read.
LEMMA WrittenStands ==
  ASSUME TypeOK, Versions, [Next]_vars, Written
  PROVE  Stands(worker.key, worker.obj)'
<1> DEFINE p == worker.key
           old == generatedCache[p]
<1>1. /\ worker.pc = "write" /\ worker' = [worker EXCEPT !.pc = "status"]
      /\ \E reply \in Replies : WriteGeneratedProbe(reply)
  BY DEF Written
<1>2. worker \in Work /\ p \in Probes /\ worker.obj \in ProbeObject /\ worker.port \in Ports
  BY <1>1, Working DEF TypeOK
<1>3. worker'.key = p /\ worker'.obj = worker.obj /\ worker' # Idle
  BY <1>1, <1>2 DEF Work, Idle
<1>4. PICK data \in Renderings(p, worker.obj.spec, worker.port) :
        /\ Takes(p, old, data)
        /\ \/ old.live /\ ~ Changes([old EXCEPT !.owner = worker.obj.uid, !.data = data], old)
              /\ UNCHANGED generated
           \/ WriteGenerated(p, [live |-> TRUE, rv |-> generated[p].rv + 1,
                                 owner |-> worker.obj.uid, data |-> data])
  BY <1>1, <1>3, WriteEnds DEF Requeue
<1>5. generated'[p].live /\ generated'[p].owner = worker.obj.uid /\ generated'[p].data = data
  <2>1. CASE WriteGenerated(p, [live |-> TRUE, rv |-> generated[p].rv + 1,
                                owner |-> worker.obj.uid, data |-> data])
    BY <1>2, <2>1 DEF WriteGenerated, TypeOK
  <2>2. CASE /\ old.live /\ UNCHANGED generated
             /\ ~ Changes([old EXCEPT !.owner = worker.obj.uid, !.data = data], old)
    <3>1. generated[p].live /\ generated[p].rv = old.rv
      BY <1>4, <2>2 DEF Takes, Current
    <3>2. old = generated[p]
      BY <1>2, <3>1 DEF Versions, OlderGenerated
    <3>3. [old EXCEPT !.owner = worker.obj.uid, !.data = data] = old /\ old \in GeneratedObject
      BY <1>2, <2>2 DEF Changes, TypeOK
    <3>4. old.owner = worker.obj.uid /\ old.data = data
      BY <3>3 DEF GeneratedObject
    <3> QED BY <2>2, <3>1, <3>2, <3>4
  <2> QED BY <1>4, <2>1, <2>2
<1> QED BY <1>2, <1>3, <1>4, <1>5 DEF Stands

\* Once the worker has reported success, and needs no other go, what it read is
\* still so.
LEMMA ReportedWell ==
  ASSUME TypeOK, Versions, Noticed, [Next]_vars, NEW p \in Probes, Busy(p), ~ Busy(p)',
         probe[p].live, UNCHANGED probe[p]
  PROVE  Waiting(p)' \/ (Done(p)' /\ Stands(p, probe[p])')
<1> SUFFICES ASSUME ~ Waiting(p)' PROVE Done(p)' /\ Stands(p, probe[p])'
  OBVIOUS
<1>1. worker \in Work /\ worker.obj \in ProbeObject /\ worker.key = p /\ worker.pc # "idle"
  BY Working DEF Busy
<1>2. Stopped
  <2>1. CASE UNCHANGED worker
    BY <2>1 DEF Busy
  <2>2. CASE Taken
    BY <1>1, <2>2 DEF Taken
  <2>3. CASE Advanced
    BY <1>1, <2>3 DEF Advanced, Busy
  <2>4. CASE Written
    BY <1>1, <2>4 DEF Written, Busy, Work
  <2> QED BY <2>1, <2>2, <2>3, <2>4, WorkerStep DEF WorkerStepped
<1>3. ~ Requeue
  BY <1>1 DEF Requeue, Waiting
<1>4. ~ Restart
  BY DEF Restart, Waiting
<1>5. PICK reply \in Replies : UpdateStatus(reply) /\ Current(probe[p], worker.obj)
  BY <1>1, <1>2, <1>3, <1>4 DEF Stopped
<1>6. worker.obj = probe[p]
  BY <1>5 DEF Current, Versions, Older
<1>7. worker.pc = "status" /\ UNCHANGED generated /\ reply = "ok"
  BY <1>3, <1>5 DEF UpdateStatus
<1>8. CreatedReport(worker.obj) = worker.obj
  <2>1. CASE Changes(CreatedReport(worker.obj), worker.obj)
    <3>1. p \in probeEvents'
      BY <1>1, <1>5, <1>7, <2>1 DEF UpdateStatus, WriteProbe
    <3> QED BY <3>1 DEF Waiting
  <2> QED BY <2>1 DEF Changes
<1>9. Done(p)'
  <2>1. /\ worker.obj.ready = "ProbeCreated" /\ worker.obj.observed = worker.obj.gen
        /\ worker.obj.targetCount = Len(worker.obj.spec.targets)
    BY <1>1, <1>8 DEF CreatedReport, ProbeObject
  <2> QED BY <2>1, <1>6 DEF Done
<1>10. Stands(p, probe[p])'
  <2>1. ~ Waiting(p)
    BY StillWaits
  <2>2. Stands(p, worker.obj)
    BY <1>7, <2>1 DEF Noticed
  <2> QED BY <2>2, <1>6, <1>7 DEF Stands
<1> QED BY <1>9, <1>10

LEMMA NoticedNext == TypeOK /\ Versions /\ Noticed /\ [Next]_vars => Noticed'
<1> SUFFICES ASSUME TypeOK, Versions, Noticed, [Next]_vars, NEW p \in Probes
             PROVE  /\ probeCache'[p] = probe'[p] \/ p \in probeEvents'
                    /\ Busy(p)' => worker'.obj = probe'[p] \/ Waiting(p)'
                    /\ Busy(p)' /\ worker'.pc = "status" => Stands(p, worker.obj)' \/ Waiting(p)'
                    /\ /\ probe'[p].live /\ probe'[p].ready = "ProbeCreated"
                       /\ probe'[p].observed = probe'[p].gen
                       => Stands(p, probe[p])' \/ Pending(p)'
                    /\ probe'[p].live => Done(p)' \/ Pending(p)'
  BY DEF Noticed, Busy, Waiting, Stands, Done, Pending
<1>0. probe[p] \in ProbeObject /\ probeCache[p] \in ProbeObject
  BY DEF TypeOK
<1>1. probeCache[p] = probe[p] \/ p \in probeEvents
  BY DEF Noticed
<1>2. probeCache'[p] = probe'[p] \/ p \in probeEvents'
  BY <1>1, CacheStep DEF CacheStepped
<1>3. Pending(p)' = (Waiting(p)' \/ Busy(p)') /\ Pending(p) = (Waiting(p) \/ Busy(p))
  BY DEF Pending, Waiting, Busy
<1>4. WorkerStepped
  BY WorkerStep
<1>5. \/ Stopped \/ Taken \/ Written
      \/ worker'.obj = worker.obj /\ (Busy(p)' => Busy(p))
         /\ (Busy(p)' /\ worker'.pc = "status" => worker.pc = "status")
  BY <1>4 DEF WorkerStepped, Advanced, Busy
<1>6. ASSUME Busy(p)' PROVE worker'.obj = probe'[p] \/ Waiting(p)'
  <2>1. CASE probe'[p] # probe[p]
    BY <2>1, NewsOfProbe
  <2>2. CASE Stopped
    BY <1>6, <2>2 DEF Stopped, Idle, Busy
  <2>3. CASE Taken
    BY <1>6, <1>1, <2>3 DEF Taken, Busy, Waiting
  <2>4. CASE worker'.obj = worker.obj /\ Busy(p) /\ probe'[p] = probe[p]
    BY <1>6, <2>4, StillWaits DEF Noticed
  <2>5. CASE Written
    <3>1. worker \in Work
      BY <2>5, Working DEF Written
    <3>2. worker'.obj = worker.obj /\ Busy(p)
      BY <1>6, <2>5, <3>1 DEF Written, Busy, Work
    <3> QED BY <3>2, <2>1, <2>4
  <2> QED BY <1>5, <1>6, <2>1, <2>2, <2>3, <2>4, <2>5
<1>7. ASSUME Busy(p)', worker'.pc = "status" PROVE Stands(p, worker.obj)' \/ Waiting(p)'
  <2>1. CASE Stopped
    BY <1>7, <2>1 DEF Stopped, Idle, Busy
  <2>2. CASE Taken
    BY <1>7, <2>2 DEF Taken
  <2>3. CASE Written
    <3>1. worker'.key = p
      BY <1>7 DEF Busy
    <3>2. Stands(worker.key, worker.obj)'
      BY <2>3, WrittenStands
    <3> QED BY <3>1, <3>2 DEF Stands
  <2>4. CASE worker'.obj = worker.obj /\ Busy(p) /\ worker.pc = "status"
    <3>1. worker.obj \in ProbeObject
      BY <2>4, Working
    <3>2. CASE Waiting(p)
      BY <1>7, <2>4, <3>2, StillWaits
    <3>3. CASE Stands(p, worker.obj)
      <4>1. UNCHANGED generated[p] \/ Waiting(p)'
        BY <3>1, <3>3, NewsOfGenerated
      <4> QED BY <4>1, <3>3, <2>4 DEF Stands
    <3> QED BY <2>4, <3>2, <3>3 DEF Noticed
  <2> QED BY <1>5, <1>7, <2>1, <2>2, <2>3, <2>4
\* A probe that is pending stays so until it has been dealt with.
<1>8. ASSUME probe'[p] = probe[p], probe[p].live, Pending(p)
      PROVE  Pending(p)' \/ (Done(p)' /\ Stands(p, probe[p])')
  <2>1. CASE Busy(p)
    BY <1>3, <1>8, <2>1, ReportedWell
  <2>2. CASE Waiting(p) /\ ~ Busy(p)
    BY <1>1, <1>3, <1>8, <2>2, WaitingStep DEF WaitingStepped, Waiting
  <2> QED BY <1>3, <1>8, <2>1, <2>2
<1>9. CASE probe'[p] # probe[p]
  BY <1>2, <1>3, <1>6, <1>7, <1>9, NewsOfProbe
<1>10. CASE probe'[p] = probe[p]
  <2>1. Done(p) => Done(p)'
    BY <1>10 DEF Done
  <2>2. Stands(p, probe[p]) => Stands(p, probe[p])' \/ Waiting(p)'
    <3>1. ASSUME Stands(p, probe[p]), UNCHANGED generated[p] PROVE Stands(p, probe[p])'
      BY <3>1, <1>10 DEF Stands
    <3> QED BY <3>1, <1>0, NewsOfGenerated
  <2>3. probe[p].live => Done(p) \/ Pending(p)
    BY DEF Noticed
  <2>4. probe[p].live /\ probe[p].ready = "ProbeCreated" /\ probe[p].observed = probe[p].gen
          => Stands(p, probe[p]) \/ Pending(p)
    BY DEF Noticed
  <2> QED BY <1>2, <1>3, <1>6, <1>7, <1>8, <1>10, <2>1, <2>2, <2>3, <2>4
<1> QED BY <1>9, <1>10

-----------------------------------------------------------------------------
(* The theorems                                                            *)

\* Caches and the worker hold earlier states of what is there, and what they
\* miss is on its way.
THEOREM Inductive == Spec => [](TypeOK /\ Versions /\ Noticed)
<1>1. Init => TypeOK /\ Versions /\ Noticed
  BY TypeInit, VersionsInit, NoticedInit
<1>2. TypeOK /\ Versions /\ Noticed /\ [Next]_vars => (TypeOK /\ Versions /\ Noticed)'
  BY TypeNext, VersionsNext, NoticedNext
<1> QED BY <1>1, <1>2, PTL DEF Spec

\* Reported as ready means backed by a Probe, unless another reconcile is due.
THEOREM Backed == Spec => []ReadyBacked
<1>1. Noticed => ReadyBacked
  BY DEF Noticed, ReadyBacked, Stands, Generated
<1> QED BY <1>1, Inductive, PTL

\* At rest every probe is reported ready, in its generation, with the number of
\* its targets.
THEOREM ReportedAtRest == Spec => []ProbeReported
<1>1. Noticed => ProbeReported
  BY DEF Noticed, ProbeReported, Quiescent, Done
<1> QED BY <1>1, Inductive, PTL

\* At rest every probe has the Probe its spec asks for, and no Probe is left
\* over.
THEOREM GeneratedAtRest == Spec => []ProbeGenerated
<1>1. Noticed => ProbeGenerated
  <2> SUFFICES ASSUME Noticed, Quiescent, NEW p \in Probes
               PROVE  IF probe[p].live THEN Generated(p) ELSE ~ Owned(generated[p])
    BY DEF ProbeGenerated
  <2>1. CASE probe[p].live
    <3>1. Done(p) /\ ~ Pending(p)
      BY <2>1 DEF Noticed, Quiescent
    <3>2. Stands(p, probe[p])
      BY <2>1, <3>1 DEF Noticed, Done
    <3> QED BY <2>1, <3>2 DEF Stands, Generated
  <2>2. CASE ~ probe[p].live
    BY <2>2 DEF Quiescent, Garbage
  <2> QED BY <2>1, <2>2
<1> QED BY <1>1, Inductive, PTL

\* A status is written for the generation the probe has then: optimistic
\* locking leaves no other.
THEOREM ReportsCurrent == Spec => ReportForCurrent
<1>1. TypeOK /\ Versions /\ [Next]_vars =>
        \A p \in Probes :
          probe'[p].observed # probe[p].observed /\ edits' = edits
            => probe'[p].observed = probe'[p].gen
  <2> SUFFICES ASSUME TypeOK, Versions, [Next]_vars,
                      NEW p \in Probes,
                      probe'[p].observed # probe[p].observed, edits' = edits
               PROVE  probe'[p].observed = probe'[p].gen
    OBVIOUS
  <2>1. StatusWritten(p)
    BY ProbeStep DEF ProbeStepped, Revised, TypeOK
  <2>2. worker.obj = probe[p]
    BY <2>1 DEF StatusWritten, Current, Versions, Older
  <2> QED BY <2>1, <2>2 DEF StatusWritten
<1> QED BY <1>1, Inductive, PTL DEF Spec, ReportForCurrent

\* The operator never writes over its own Probe to say the same again.
THEOREM WritesTell == Spec => WritesMatter
<1>1. TypeOK /\ Versions /\ [Next]_vars =>
        \A p \in Probes, s \in ProbeSpec, q \in Ports :
          generated'[p] # generated[p] /\ edits' = edits =>
            ~ /\ generated[p].live /\ generated'[p].live
              /\ generated'[p].owner = generated[p].owner
              /\ {generated[p].data, generated'[p].data} \subseteq Renderings(p, s, q)
  <2> SUFFICES ASSUME TypeOK, Versions, [Next]_vars,
                      NEW p \in Probes, NEW s \in ProbeSpec, NEW q \in Ports,
                      generated'[p] # generated[p], edits' = edits,
                      generated[p].live, generated'[p].live,
                      generated'[p].owner = generated[p].owner,
                      generated[p].data \in Renderings(p, s, q),
                      generated'[p].data \in Renderings(p, s, q)
               PROVE  FALSE
    OBVIOUS
  <2>0. edits' # edits + 1 /\ generated \in [Probes -> GeneratedObject]
    BY DEF TypeOK
  <2>1. \A o \in Probes : ~ CreateForeign(o) /\ ~ EditGenerated(o) /\ ~ DeleteGenerated(o)
    BY <2>0 DEF CreateForeign, EditGenerated, DeleteGenerated, Edit
  <2>2. ASSUME NEW o \in Probes, CollectGarbage(o) PROVE FALSE
    BY <2>0, <2>2 DEF CollectGarbage, WriteGenerated, GeneratedObject
  <2>3. ASSUME NEW reply \in Replies, WriteGeneratedProbe(reply) PROVE FALSE
    <3> DEFINE old == generatedCache[p]
    <3>1. worker.key \in Probes /\ worker.pc = "write"
      BY <2>3, Working DEF WriteGeneratedProbe
    <3>2. PICK data \in Renderings(worker.key, worker.obj.spec, worker.port) :
            /\ Takes(worker.key, generatedCache[worker.key], data)
            /\ LET obj == generatedCache[worker.key]
               IN  obj.live => Changes([obj EXCEPT !.owner = worker.obj.uid,
                                                   !.data = data], obj)
            /\ WriteGenerated(worker.key,
                 [live |-> TRUE, rv |-> generated[worker.key].rv + 1,
                  owner |-> worker.obj.uid, data |-> data])
      <4>1. ~ UNCHANGED generated
        OBVIOUS
      <4> QED BY <2>3, <4>1, WriteEnds
    <3>3. worker.key = p
      BY <2>0, <3>1, <3>2 DEF WriteGenerated
    <3>4. generated'[p].owner = worker.obj.uid /\ generated'[p].data = data
      BY <2>0, <3>2, <3>3 DEF WriteGenerated
    <3>5. data = generated[p].data
      BY <3>4, RenderedOnce
    <3>6. old.live /\ old.rv = generated[p].rv
      BY <3>2, <3>3 DEF Takes, Current
    <3>7. old = generated[p]
      BY <3>6 DEF Versions, OlderGenerated
    <3>8. [old EXCEPT !.owner = worker.obj.uid, !.data = data] = old
      BY <2>0, <3>4, <3>5, <3>7 DEF GeneratedObject
    <3> QED BY <3>2, <3>3, <3>6, <3>8 DEF Changes
  <2> QED
    BY <2>1, <2>2, <2>3
    DEF Next, Users, Environment, Reconcile, CreateProbe, EditProbe, DeleteProbe, WriteExporter,
        WriteModule, Restart, Resync, DeliverProbe, DeliverGenerated, DeliverExporter,
        DeliverModule, GetProbe, ResolveExporter, ResolveModule, ReportMissing, UpdateStatus,
        objects, vars
<1> QED BY <1>1, Inductive, PTL DEF Spec, WritesMatter

\* The labels of a Probe that stands for its spec are ranked as documented.
THEOREM LabelsAlwaysKept == Spec => []LabelsKept
<1>1. LabelsKept
  BY RenderedLabels DEF LabelsKept, Generated
<1> QED BY <1>1, PTL

-----------------------------------------------------------------------------
(* ProbeSync implements Projection: whatever caches, events, retries,      *)
(* restarts and other writers do, every step is a step of Projection on    *)
(* the versions of the BlackboxProbe, of its Probe and of its report, or   *)
(* changes none of them.                                                   *)

\* What Projection sees of one probe.
Reported(p) ==
  IF probe[p].ready = "ProbeCreated" THEN probe[p].uid + probe[p].observed - 1 ELSE 0

source   == [p \in Probes |-> Version(probe[p])]
derived  == [p \in Probes |-> [part \in {"probe"} |-> made[p]]]
reported == [p \in Probes |-> Reported(p)]

\* A step changes one BlackboxProbe, or one entry of the history, or none.
LEMMA OneAtATime ==
  ASSUME TypeOK, [Next]_vars
  PROVE  \/ \E p \in Probes : /\ probe' = [probe EXCEPT ![p] = probe'[p]]
                              /\ UNCHANGED made
         \/ /\ UNCHANGED probe /\ Busy(worker.key) /\ worker.key \in Probes
            /\ made' = [made EXCEPT ![worker.key] = Version(worker.obj)]
         \/ UNCHANGED <<probe, made>>
<1> DEFINE Goal ==
      \/ \E p \in Probes : probe' = [probe EXCEPT ![p] = probe'[p]] /\ UNCHANGED made
      \/ /\ UNCHANGED probe /\ Busy(worker.key) /\ worker.key \in Probes
         /\ made' = [made EXCEPT ![worker.key] = Version(worker.obj)]
      \/ UNCHANGED <<probe, made>>
<1>0. \A p \in Probes : \A obj : WriteProbe(p, obj) => probe' = [probe EXCEPT ![p] = probe'[p]]
  BY DEF WriteProbe, TypeOK
<1>1. CASE UNCHANGED vars
  BY <1>1 DEF vars, objects
<1>2. ASSUME NEW p \in Probes, NEW s \in ProbeSpec,
             CreateProbe(p, s) \/ EditProbe(p, s) \/ DeleteProbe(p)
      PROVE  Goal
  <2>1. UNCHANGED made
    BY <1>2 DEF CreateProbe, EditProbe, DeleteProbe, Edit
  <2>2. \E obj : WriteProbe(p, obj)
    BY <1>2 DEF CreateProbe, EditProbe, DeleteProbe
  <2> QED BY <1>0, <2>1, <2>2
<1>3. ASSUME NEW p \in Probes, DeleteProbe(p) PROVE Goal
  <2>1. UNCHANGED made /\ \E obj : WriteProbe(p, obj)
    BY <1>3 DEF DeleteProbe, Edit
  <2> QED BY <1>0, <2>1
<1>4. ASSUME NEW reply \in Replies, ReportMissing(reply) PROVE Goal
  <2>1. worker.key \in Probes /\ UNCHANGED made
    BY <1>4, Working DEF ReportMissing
  <2>2. UNCHANGED probe \/ \E obj : WriteProbe(worker.key, obj)
    BY <1>4 DEF ReportMissing
  <2> QED BY <1>0, <2>1, <2>2
<1>5. ASSUME NEW reply \in Replies, UpdateStatus(reply) PROVE Goal
  <2>1. worker.key \in Probes /\ UNCHANGED made
    BY <1>5, Working DEF UpdateStatus
  <2>2. UNCHANGED probe \/ \E obj : WriteProbe(worker.key, obj)
    BY <1>5 DEF UpdateStatus
  <2> QED BY <1>0, <2>1, <2>2
<1>6. ASSUME NEW reply \in Replies, WriteGeneratedProbe(reply) PROVE Goal
  <2>1. UNCHANGED probe /\ worker.pc # "idle" /\ worker.key \in Probes
    BY <1>6, Working DEF WriteGeneratedProbe
  <2>2. made' = made \/ made' = [made EXCEPT ![worker.key] = Version(worker.obj)]
    BY <1>6, WriteEnds
  <2> QED BY <2>1, <2>2 DEF Busy
<1>7. CASE Environment
  BY <1>7 DEF Environment, Restart, Resync, CollectGarbage, DeliverProbe, DeliverGenerated,
              DeliverExporter, DeliverModule, Edit, objects
<1> QED
  BY <1>1, <1>2, <1>3, <1>4, <1>5, <1>6, <1>7
  DEF Next, Users, Reconcile, CreateForeign, EditGenerated, DeleteGenerated, WriteExporter,
      WriteModule, GetProbe, ResolveExporter, ResolveModule, Edit, objects

\* What a new state of a BlackboxProbe is in the abstract: a revision, a report
\* of the version that was derived, one that is taken back, or nothing.
LEMMA ProbeMaps ==
  ASSUME TypeOK, Versions, [Next]_vars, NEW p \in Probes, probe'[p] # probe[p]
  PROVE  \/ /\ Version(probe[p]) < Version(probe'[p])
            /\ Reported(p)' = Reported(p) \/ Reported(p)' = 0
         \/ /\ Version(probe'[p]) = Version(probe[p])
            /\ \/ Reported(p)' = Version(probe[p]) /\ made[p] = Version(probe[p])
               \/ Reported(p)' = 0
               \/ Reported(p)' = Reported(p)
<1>1. /\ probe[p].rv \in Nat /\ probe[p].uid \in Nat /\ probe[p].gen \in Nat
      /\ probe'[p].uid \in Nat /\ probe'[p].gen \in Nat
  BY TypeNext DEF TypeOK, ProbeObject
<1>2. probe[p].uid + probe[p].gen - 1 <= probe[p].rv
  BY DEF Versions, Version
<1>3. CASE Revised(p)
  <2>1. CASE /\ probe'[p].uid = probe[p].rv + 1 /\ probe'[p].gen = 1
             /\ probe'[p].ready = "none"
    <3>1. Reported(p)' = 0
      BY <2>1 DEF Reported
    <3>2. Version(probe[p]) < Version(probe'[p])
      BY <1>1, <1>2, <2>1 DEF Version
    <3> QED BY <3>1, <3>2
  <2>2. CASE /\ probe'[p].uid = probe[p].uid
             /\ probe'[p].ready = probe[p].ready /\ probe'[p].observed = probe[p].observed
             /\ probe'[p].gen = probe[p].gen + 1 \/ probe'[p].gen = probe[p].gen
    <3>1. Reported(p)' = Reported(p)
      BY <2>2 DEF Reported
    <3>2. Version(probe[p]) < Version(probe'[p]) \/ Version(probe'[p]) = Version(probe[p])
      BY <1>1, <2>2 DEF Version
    <3> QED BY <3>1, <3>2
  <2> QED BY <1>3, <2>1, <2>2 DEF Revised
<1>4. CASE StatusWritten(p)
  <2>1. Version(probe'[p]) = Version(probe[p])
    BY <1>4 DEF StatusWritten, Version
  <2>2. Busy(p) /\ worker.obj = probe[p] /\ probe'[p].observed = probe[p].gen
    BY <1>4 DEF StatusWritten, Current, Versions, Older
  <2>3. CASE worker.pc = "missing" /\ probe'[p].ready = worker.reason
    <3>1. probe'[p].ready # "ProbeCreated"
      BY <2>2, <2>3 DEF Versions
    <3> QED BY <2>1, <3>1 DEF Reported
  <2>4. CASE worker.pc = "status" /\ probe'[p].ready = "ProbeCreated"
    <3>1. made[p] = Version(probe[p])
      BY <2>2, <2>4 DEF Versions
    <3>2. probe'[p].uid = probe[p].uid
      BY <1>4 DEF StatusWritten
    <3>3. Reported(p)' = Version(probe[p])
      BY <2>2, <2>4, <3>2 DEF Reported, Version
    <3> QED BY <2>1, <3>1, <3>3
  <2> QED BY <1>4, <2>3, <2>4 DEF StatusWritten
<1> QED BY <1>3, <1>4, ProbeStep DEF ProbeStepped

LEMMA InitMaps == Init => Promised!Init
<1> SUFFICES ASSUME Init PROVE Promised!Init
  OBVIOUS
<1>1. \A p \in Probes : /\ Version(probe[p]) = 1 /\ made[p] = 0
                        /\ probe[p].ready = "none"
  BY DEF Init, Version
<1> QED BY <1>1 DEF Promised!Init

LEMMA StepMaps ==
  TypeOK /\ Versions /\ [Next]_vars => [Promised!Next]_<<source, derived, reported>>
<1> SUFFICES ASSUME TypeOK, Versions, [Next]_vars,
                    ~ UNCHANGED <<source, derived, reported>>
             PROVE  Promised!Next
  OBVIOUS
<1>0. /\ probe \in [Probes -> ProbeObject] /\ probe' \in [Probes -> ProbeObject]
      /\ made \in [Probes -> Nat] /\ made' \in [Probes -> Nat]
      /\ \A p \in Probes : Version(probe[p]) \in Nat /\ Version(probe'[p]) \in Nat
  <2>1. TypeOK'
    BY TypeNext
  <2>2. \A x \in ProbeObject : Version(x) \in Nat
    BY DEF ProbeObject, Version
  <2> QED BY <2>1, <2>2 DEF TypeOK
<1>1. ASSUME NEW p \in Probes, probe' = [probe EXCEPT ![p] = probe'[p]], UNCHANGED made
      PROVE  Promised!Next
  <2>1. \A o \in Probes : o # p => probe'[o] = probe[o]
    BY <1>0, <1>1
  <2>2. source' = [source EXCEPT ![p] = Version(probe'[p])]
    BY <2>1 DEF source, Version
  <2>3. reported' = [reported EXCEPT ![p] = Reported(p)']
    BY <2>1 DEF reported, Reported
  <2>4. UNCHANGED derived
    BY <1>1 DEF derived
  <2>5. source[p] = Version(probe[p]) /\ reported[p] = Reported(p)
    BY DEF source, reported
  <2>6. probe'[p] # probe[p]
    BY <1>0, <1>1, <2>4 DEF source, reported, Reported
  <2>7. CASE /\ Version(probe[p]) < Version(probe'[p])
             /\ Reported(p)' = Reported(p) \/ Reported(p)' = 0
    <3>1. Version(probe'[p]) \in Nat
      BY <1>0
    <3>2. source'[p] = Version(probe'[p])
      BY <2>2 DEF source
    <3>3. reported' = reported \/ reported' = [reported EXCEPT ![p] = 0]
      BY <2>3, <2>5, <2>7 DEF reported
    <3>4. Promised!Revise(p)
      BY <2>2, <2>4, <2>5, <2>7, <3>1, <3>2, <3>3 DEF Promised!Revise, source, derived, reported, Reported
    <3> QED BY <3>4 DEF Promised!Next
  <2>8. CASE Version(probe'[p]) = Version(probe[p]) /\ Reported(p)' = Reported(p)
    <3>1. UNCHANGED source /\ UNCHANGED reported
      BY <2>2, <2>3, <2>5, <2>8 DEF source, reported
    <3> QED BY <2>4, <3>1
  <2>9. CASE /\ Version(probe'[p]) = Version(probe[p])
             /\ Reported(p)' = Version(probe[p]) /\ made[p] = Version(probe[p])
    <3>1. UNCHANGED source
      BY <2>2, <2>5, <2>9 DEF source
    <3>2. \A part \in {"probe"} : derived[p][part] = source[p]
      BY <2>5, <2>9 DEF derived
    <3>3. reported' = [reported EXCEPT ![p] = source[p]]
      BY <2>3, <2>5, <2>9
    <3>4. Promised!Report(p)
      BY <2>4, <3>1, <3>2, <3>3 DEF Promised!Report, source, derived, reported, Reported
    <3> QED BY <3>4 DEF Promised!Next
  <2>10. CASE Version(probe'[p]) = Version(probe[p]) /\ Reported(p)' = 0
    <3>1. UNCHANGED source
      BY <2>2, <2>5, <2>10 DEF source
    <3>2. reported' = [reported EXCEPT ![p] = 0]
      BY <2>3, <2>10
    <3>3. Promised!Retract(p)
      BY <2>4, <3>1, <3>2 DEF Promised!Retract, source, derived, reported, Reported
    <3> QED BY <3>3 DEF Promised!Next
  <2> QED BY <2>6, <2>7, <2>8, <2>9, <2>10, ProbeMaps
<1>2. ASSUME NEW k \in Probes, UNCHANGED probe, Busy(k),
             made' = [made EXCEPT ![k] = Version(worker.obj)]
      PROVE  Promised!Next
  <2>1. UNCHANGED source /\ UNCHANGED reported
    BY <1>2 DEF source, reported, Reported
  <2>2. made'[k] = Version(worker.obj) /\ \A o \in Probes : o # k => made'[o] = made[o]
    BY <1>0, <1>2
  <2>3. made'[k] # made[k]
    <3>1. made' # made
      BY <2>1 DEF derived
    <3> QED BY <1>0, <2>2, <3>1
  <2>4. made[k] <= made'[k] /\ made'[k] <= Version(probe[k])
    BY <1>2, <2>2 DEF Versions, Older
  <2>5. made'[k] \in made[k] + 1 .. Version(probe[k])
    BY <1>0, <1>2, <2>3, <2>4
  <2>6. derived'[k]["probe"] = made'[k] /\ derived[k]["probe"] = made[k]
        /\ source[k] = Version(probe[k])
    BY <1>2 DEF derived, source
  <2>7. derived' = [derived EXCEPT ![k]["probe"] = made'[k]]
    <3>1. \A o \in Probes : o # k => derived'[o] = derived[o]
      BY <2>2 DEF derived
    <3>2. derived'[k] = [derived[k] EXCEPT !["probe"] = made'[k]]
      BY <1>2 DEF derived
    <3>3. derived' = [derived EXCEPT ![k] = derived'[k]]
      BY <1>2, <3>1 DEF derived
    <3> QED BY <3>2, <3>3
  <2>8. Promised!Derive(k, "probe")
    BY <2>1, <2>5, <2>6, <2>7 DEF Promised!Derive, source, derived, reported, Reported
  <2>9. \E part \in {"probe"} : Promised!Derive(k, part)
    BY <2>8
  <2> QED BY <2>9 DEF Promised!Next
<1>3. CASE UNCHANGED <<probe, made>>
  BY <1>3 DEF source, derived, reported, Reported
<1> QED BY <1>1, <1>2, <1>3, OneAtATime

\* ProbeSync implements Projection: a probe is reported ready only for the spec
\* it has, once its Probe was made from that very spec.
THEOREM Refinement == Spec => Refines
<1>1. UNCHANGED <<source, derived, reported>> => UNCHANGED Promised!vars
  BY DEF Promised!vars, source, derived, reported, Reported
<1>2. TypeOK /\ Versions /\ [Next]_vars => [Promised!Next]_(Promised!vars)
  BY StepMaps, <1>1
<1> QED BY InitMaps, <1>2, Inductive, PTL DEF Spec, Refines, Promised!Spec

Abstract == INSTANCE Projection_proofs WITH Sources <- Probes, Parts <- {"probe"}

\* What that promise amounts to: a probe that is reported ready for a generation
\* has a Probe made from that generation or a later one, never from one that
\* users did not ask for.
THEOREM ReportBacked == Spec => []Promised!Ordered
<1> USE DEF source, derived, reported, Reported
<1>1. Promised!Init => Abstract!Init
  BY DEF Promised!Init, Abstract!Init
<1>2. [Promised!Next]_(Promised!vars) => [Abstract!Next]_(Abstract!vars)
  BY DEF Promised!Next, Promised!Revise, Promised!Derive, Promised!Report, Promised!Retract,
         Promised!vars, Abstract!Next, Abstract!Revise, Abstract!Derive, Abstract!Report,
         Abstract!Retract, Abstract!vars
<1>3. Abstract!Ordered => Promised!Ordered
  BY DEF Promised!Ordered, Abstract!Ordered
<1> QED
  BY <1>1, <1>2, <1>3, Refinement, Abstract!AlwaysOrdered, PTL
  DEF Refines, Promised!Spec, Abstract!Spec
=============================================================================
