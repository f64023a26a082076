------------------------- MODULE ConfigSync_proofs -------------------------
(***************************************************************************)
(* Theorems about ConfigSync, for every value of its constants.            *)
(***************************************************************************)
EXTENDS ConfigSyncInv, FiniteSetTheorems, TLAPS

-----------------------------------------------------------------------------
(* Lemmas about the operators *)

\* The two copies of the selection logic agree: the module controller touches
\* the exporters that collect the module, and no others.
LEMMA SameSelection ==
  ASSUME NEW sel, NEW own, NEW ns, NEW labels, sel.any \in BOOLEAN
  PROVE  Collects(sel, own, ns, labels) <=> Matches(sel, own, ns, labels)
BY DEF Collects, Matches

\* ModuleCount is a number.
LEMMA RenderedCount ==
  ASSUME NEW d PROVE Cardinality(Rendered(d)) \in Nat
BY KeyAssumption, FS_Subset, FS_CardinalityType DEF KeyAssumption, Rendered

\* A list of exporters is a sequence of exporters.
LEMMA OrdersType ==
  ASSUME NEW S \in SUBSET Exporters, NEW s \in Orders(S)
  PROVE  s \in Seq(Exporters)
<1>1. Cardinality(S) \in Nat
  BY KeyAssumption, FS_Subset, FS_CardinalityType DEF KeyAssumption
<1>2. s \in [1 .. Cardinality(S) -> Exporters]
  BY DEF Orders
<1> QED BY <1>1, <1>2

LEMMA EmptyConfigType == EmptyConfig \in ConfigData
BY DEF EmptyConfig, ConfigData

-----------------------------------------------------------------------------
(* Types *)

\* The objects the actions build are objects.
LEMMA ExporterBuilt ==
  ASSUME NEW x \in ExporterObject
  PROVE  /\ Version(x) \in Nat /\ x.uid \in Nat /\ x.gen \in Nat /\ x.observed \in Nat
         /\ x.rv + 1 \in Nat \ {0} /\ x.gen + 1 \in Nat \ {0} /\ x.gen \in Nat \ {0}
         /\ \A r \in Nat \ {0}, s \in Selectors :
              [live |-> TRUE, rv |-> r, uid |-> r, gen |-> 1, spec |-> s, touch |-> {},
               moduleCount |-> 0, observed |-> 0] \in ExporterObject
         /\ \A r \in Nat, g \in Nat \ {0}, s \in Selectors :
              [x EXCEPT !.rv = r, !.gen = g, !.spec = s] \in ExporterObject
         /\ \A r \in Nat : [x EXCEPT !.rv = r, !.live = FALSE] \in ExporterObject
         /\ \A r \in Nat, c \in Nat, i \in Nat :
              [x EXCEPT !.rv = r, !.moduleCount = c, !.observed = i] \in ExporterObject
         /\ \A r \in Nat, g \in Nat \ {0}, s \in Selectors, t \in SUBSET (Modules \X Nat) :
              [x EXCEPT !.rv = r, !.spec = s, !.touch = t, !.gen = g] \in ExporterObject
<1>0. Version(x) \in Nat /\ x.uid \in Nat /\ x.gen \in Nat /\ x.observed \in Nat
  BY DEF ExporterObject, Version
<1>1. x.rv + 1 \in Nat \ {0} /\ x.gen + 1 \in Nat \ {0} /\ x.gen \in Nat \ {0}
  BY DEF ExporterObject
<1>2. \A r \in Nat \ {0}, s \in Selectors :
      [live |-> TRUE, rv |-> r, uid |-> r, gen |-> 1, spec |-> s, touch |-> {},
      moduleCount |-> 0, observed |-> 0] \in ExporterObject
  BY DEF ExporterObject
<1>3. \A r \in Nat, g \in Nat \ {0}, s \in Selectors :
      [x EXCEPT !.rv = r, !.gen = g, !.spec = s] \in ExporterObject
  BY DEF ExporterObject
<1>4. \A r \in Nat : [x EXCEPT !.rv = r, !.live = FALSE] \in ExporterObject
  BY DEF ExporterObject
<1>5. \A r \in Nat, c \in Nat, i \in Nat :
      [x EXCEPT !.rv = r, !.moduleCount = c, !.observed = i] \in ExporterObject
  BY DEF ExporterObject
<1>6. \A r \in Nat, g \in Nat \ {0}, s \in Selectors, t \in SUBSET (Modules \X Nat) :
      [x EXCEPT !.rv = r, !.spec = s, !.touch = t, !.gen = g] \in ExporterObject
  BY DEF ExporterObject
<1> QED BY <1>0, <1>1, <1>2, <1>3, <1>4, <1>5, <1>6

LEMMA ModuleBuilt ==
  ASSUME NEW x \in ModuleObject
  PROVE  /\ x.rv + 1 \in Nat /\ x.gen + 1 \in Nat
         /\ \A r \in Nat, l \in LabelSets, b \in Bodies :
              [live |-> TRUE, rv |-> r, gen |-> 1, labels |-> l, body |-> b,
               valid |-> FALSE, refs |-> <<>>, observed |-> 0] \in ModuleObject
         /\ \A r \in Nat, l \in LabelSets : [x EXCEPT !.rv = r, !.labels = l] \in ModuleObject
         /\ \A r \in Nat, g \in Nat, b \in Bodies :
              [x EXCEPT !.rv = r, !.gen = g, !.body = b] \in ModuleObject
         /\ \A r \in Nat : [x EXCEPT !.rv = r, !.live = FALSE] \in ModuleObject
         /\ \A r \in Nat, v \in BOOLEAN, q \in Seq(Exporters), i \in Nat :
              [x EXCEPT !.rv = r, !.valid = v, !.refs = q, !.observed = i] \in ModuleObject
<1>1. x.rv + 1 \in Nat /\ x.gen + 1 \in Nat
  BY DEF ModuleObject
<1>2. \A r \in Nat, l \in LabelSets, b \in Bodies :
      [live |-> TRUE, rv |-> r, gen |-> 1, labels |-> l, body |-> b,
      valid |-> FALSE, refs |-> <<>>, observed |-> 0] \in ModuleObject
  BY DEF ModuleObject
<1>3. \A r \in Nat, l \in LabelSets : [x EXCEPT !.rv = r, !.labels = l] \in ModuleObject
  BY DEF ModuleObject
<1>4. \A r \in Nat, g \in Nat, b \in Bodies :
      [x EXCEPT !.rv = r, !.gen = g, !.body = b] \in ModuleObject
  BY DEF ModuleObject
<1>5. \A r \in Nat : [x EXCEPT !.rv = r, !.live = FALSE] \in ModuleObject
  BY DEF ModuleObject
<1>6. \A r \in Nat, v \in BOOLEAN, q \in Seq(Exporters), i \in Nat :
      [x EXCEPT !.rv = r, !.valid = v, !.refs = q, !.observed = i] \in ModuleObject
  BY DEF ModuleObject
<1> QED BY <1>1, <1>2, <1>3, <1>4, <1>5, <1>6

LEMMA ConfigMapBuilt ==
  ASSUME NEW x \in ConfigMapObject
  PROVE  /\ x.rv + 1 \in Nat
         /\ \A r \in Nat, n \in Names : [x EXCEPT !.rv = r, !.data[n] = None] \in ConfigMapObject
         /\ \A r \in Nat : [x EXCEPT !.rv = r, !.live = FALSE] \in ConfigMapObject
         /\ \A r \in Nat, u \in Nat, d \in ConfigData :
              [live |-> TRUE, rv |-> r, owner |-> u, data |-> d] \in ConfigMapObject
<1>1. x.rv + 1 \in Nat
  BY DEF ConfigMapObject, ConfigData
<1>2. \A r \in Nat, n \in Names : [x EXCEPT !.rv = r, !.data[n] = None] \in ConfigMapObject
  BY DEF ConfigMapObject, ConfigData
<1>3. \A r \in Nat : [x EXCEPT !.rv = r, !.live = FALSE] \in ConfigMapObject
  BY DEF ConfigMapObject, ConfigData
<1>4. \A r \in Nat, u \in Nat, d \in ConfigData :
      [live |-> TRUE, rv |-> r, owner |-> u, data |-> d] \in ConfigMapObject
  BY DEF ConfigMapObject, ConfigData
<1> QED BY <1>1, <1>2, <1>3, <1>4

\* Writing an object keeps the store well typed.
LEMMA PutExporter ==
  ASSUME TypeOK, NEW e \in Exporters, NEW obj \in ExporterObject, WriteExporter(e, obj)
  PROVE  exporter' \in [Exporters -> ExporterObject] /\ exporterEvents' \subseteq Exporters
BY DEF TypeOK, WriteExporter

LEMMA PutModule ==
  ASSUME TypeOK, NEW m \in Modules, NEW obj \in ModuleObject, WriteModule(m, obj)
  PROVE  module' \in [Modules -> ModuleObject] /\ moduleEvents' \subseteq Modules
BY DEF TypeOK, WriteModule

LEMMA PutConfigMap ==
  ASSUME TypeOK, NEW e \in Exporters, NEW obj \in ConfigMapObject, WriteConfigMap(e, obj)
  PROVE  configMap' \in [Exporters -> ConfigMapObject] /\ configMapEvents' \subseteq Exporters
BY DEF TypeOK, WriteConfigMap

LEMMA TypeInit == Init => TypeOK
<1> SUFFICES ASSUME Init PROVE TypeOK
  OBVIOUS
<1>1. \A l \in BOOLEAN, s \in Selectors :
        [live |-> l, rv |-> 1, uid |-> 1, gen |-> 1, spec |-> s, touch |-> {},
         moduleCount |-> 0, observed |-> 0] \in ExporterObject
  BY DEF ExporterObject
<1>2. \A l \in BOOLEAN, ls \in LabelSets, b \in Bodies :
        [live |-> l, rv |-> 1, gen |-> 1, labels |-> ls, body |-> b, valid |-> FALSE,
         refs |-> <<>>, observed |-> 0] \in ModuleObject
  BY DEF ModuleObject
<1>3. [live |-> FALSE, rv |-> 0, owner |-> 0, data |-> EmptyConfig] \in ConfigMapObject
  BY EmptyConfigType DEF ConfigMapObject
<1>4. exporter \in [Exporters -> ExporterObject]
  BY <1>1 DEF Init
<1>5. module \in [Modules -> ModuleObject]
  BY <1>2 DEF Init
<1>6. configMap \in [Exporters -> ConfigMapObject]
  BY <1>3 DEF Init
<1> QED BY <1>4, <1>5, <1>6 DEF Init, TypeOK

LEMMA TypeUsers == TypeOK /\ Users => TypeOK'
<1> SUFFICES ASSUME TypeOK, Users PROVE TypeOK'
  OBVIOUS
<1> USE DEF Edit, caches, queues, workers
<1>1. ASSUME NEW e \in Exporters, NEW s \in Selectors,
             CreateExporter(e, s) \/ EditExporter(e, s) \/ DeleteExporter(e)
      PROVE  TypeOK'
  <2>1. exporter[e] \in ExporterObject
    BY DEF TypeOK
  <2>2. CASE CreateExporter(e, s)
    <3>1. \E obj \in ExporterObject : WriteExporter(e, obj)
      BY <2>1, <2>2, ExporterBuilt DEF CreateExporter
    <3> QED BY <3>1, <2>2, PutExporter DEF CreateExporter, TypeOK
  <2>3. CASE EditExporter(e, s)
    <3>1. \E obj \in ExporterObject : WriteExporter(e, obj)
      BY <2>1, <2>3, ExporterBuilt DEF EditExporter
    <3> QED BY <3>1, <2>3, PutExporter DEF EditExporter, TypeOK
  <2>4. CASE DeleteExporter(e)
    <3>1. \E obj \in ExporterObject : WriteExporter(e, obj)
      BY <2>1, <2>4, ExporterBuilt DEF DeleteExporter
    <3> QED BY <3>1, <2>4, PutExporter DEF DeleteExporter, TypeOK
  <2> QED BY <1>1, <2>2, <2>3, <2>4
<1>2. ASSUME NEW m \in Modules, NEW l \in LabelSets, NEW b \in Bodies,
             \/ CreateModule(m, l, b) \/ RelabelModule(m, l)
             \/ EditModule(m, b) \/ DeleteModule(m)
      PROVE  TypeOK'
  <2>1. module[m] \in ModuleObject
    BY DEF TypeOK
  <2>2. CASE CreateModule(m, l, b)
    <3>1. \E obj \in ModuleObject : WriteModule(m, obj)
      BY <2>1, <2>2, ModuleBuilt DEF CreateModule
    <3> QED BY <3>1, <2>2, PutModule DEF CreateModule, TypeOK
  <2>3. CASE RelabelModule(m, l)
    <3>1. \E obj \in ModuleObject : WriteModule(m, obj)
      BY <2>1, <2>3, ModuleBuilt DEF RelabelModule
    <3> QED BY <3>1, <2>3, PutModule DEF RelabelModule, TypeOK
  <2>4. CASE EditModule(m, b)
    <3>1. \E obj \in ModuleObject : WriteModule(m, obj)
      BY <2>1, <2>4, ModuleBuilt DEF EditModule
    <3> QED BY <3>1, <2>4, PutModule DEF EditModule, TypeOK
  <2>5. CASE DeleteModule(m)
    <3>1. \E obj \in ModuleObject : WriteModule(m, obj)
      BY <2>1, <2>5, ModuleBuilt DEF DeleteModule
    <3> QED BY <3>1, <2>5, PutModule DEF DeleteModule, TypeOK
  <2> QED BY <1>2, <2>2, <2>3, <2>4, <2>5
<1>3. ASSUME NEW e \in Exporters, NEW n \in Names, EditConfigMap(e, n) PROVE TypeOK'
  <2>1. configMap[e] \in ConfigMapObject
    BY DEF TypeOK
  <2>2. \E obj \in ConfigMapObject : WriteConfigMap(e, obj)
    BY <1>3, <2>1, ConfigMapBuilt DEF EditConfigMap
  <2> QED BY <1>3, <2>2, PutConfigMap DEF EditConfigMap, TypeOK
<1>4. ASSUME NEW e \in Exporters, DeleteConfigMap(e) PROVE TypeOK'
  <2>1. configMap[e] \in ConfigMapObject
    BY DEF TypeOK
  <2>2. \E obj \in ConfigMapObject : WriteConfigMap(e, obj)
    BY <1>4, <2>1, ConfigMapBuilt DEF DeleteConfigMap
  <2> QED BY <1>4, <2>2, PutConfigMap DEF DeleteConfigMap, TypeOK
<1> QED
  BY <1>1, <1>2, <1>3, <1>4, ContentAssumption DEF Users, ContentAssumption

LEMMA TypeEnvironment == TypeOK /\ Environment => TypeOK'
<1> SUFFICES ASSUME TypeOK, Environment PROVE TypeOK'
  OBVIOUS
<1> USE DEF Edit, objects, caches, events, queues, workers, history
<1>1. CASE Resync
  BY <1>1 DEF Resync, TypeOK
<1>2. CASE Restart
  BY <1>2 DEF Restart, TypeOK
<1>3. ASSUME NEW e \in Exporters, CollectGarbage(e) PROVE TypeOK'
  <2>1. configMap[e] \in ConfigMapObject
    BY DEF TypeOK
  <2>2. \E obj \in ConfigMapObject : WriteConfigMap(e, obj)
    BY <1>3, <2>1, ConfigMapBuilt DEF CollectGarbage
  <2> QED BY <1>3, <2>2, PutConfigMap DEF CollectGarbage, TypeOK
<1>4. ASSUME NEW e \in Exporters, DeliverExporter(e) PROVE TypeOK'
  BY <1>4 DEF DeliverExporter, TypeOK
<1>5. ASSUME NEW e \in Exporters, DeliverConfigMap(e) PROVE TypeOK'
  BY <1>5 DEF DeliverConfigMap, TypeOK
<1>6. ASSUME NEW m \in Modules, DeliverModule(m) PROVE TypeOK'
  <2>1. left' \subseteq Exporters \X Modules
    BY <1>6 DEF DeliverModule, Leaving, TypeOK
  <2> QED BY <1>6, <2>1 DEF DeliverModule, TypeOK
<1> QED BY <1>1, <1>2, <1>3, <1>4, <1>5, <1>6 DEF Environment

\* A worker that is not idle is at work.
LEMMA Working ==
  ASSUME TypeOK
  PROVE  /\ xw.pc # "idle" => xw \in ExporterWork
         /\ mw.pc # "idle" => mw \in ModuleWork
BY DEF TypeOK, Idle

LEMMA ExporterWorkBuilt ==
  ASSUME NEW w \in ExporterWork
  PROVE  /\ w.key \in Exporters
         /\ w.obj \in ExporterObject
         /\ w.data \in ConfigData
         /\ \A p \in {"collect", "config", "owned", "status"} : [w EXCEPT !.pc = p] \in ExporterWork
         /\ \A d \in ConfigData : [w EXCEPT !.pc = "config", !.data = d] \in ExporterWork
BY DEF ExporterWork

LEMMA ModuleWorkBuilt ==
  ASSUME NEW w \in ModuleWork
  PROVE  /\ w.key \in Modules
         /\ w.obj \in ModuleObject
         /\ w.refs \in Seq(Exporters)
         /\ w.todo \in SUBSET Exporters
         /\ \A r \in Seq(Exporters), t \in SUBSET Exporters :
              [w EXCEPT !.pc = "status", !.refs = r, !.todo = t] \in ModuleWork
         /\ \A o \in ModuleObject, t \in SUBSET Exporters :
              [w EXCEPT !.pc = "touch", !.obj = o, !.todo = t] \in ModuleWork
BY DEF ModuleWork

LEMMA TypeReconcileExporter == TypeOK /\ ReconcileExporter => TypeOK'
<1> SUFFICES ASSUME TypeOK, ReconcileExporter PROVE TypeOK'
  OBVIOUS
<1> USE DEF RequeueExporter, objects, caches, events, queues, workers, history
<1>1. ASSUME NEW e \in Exporters, GetExporter(e) PROVE TypeOK'
  <2>1. xw' \in {Idle} \cup ExporterWork
    BY <1>1, EmptyConfigType DEF GetExporter, TypeOK, ExporterWork
  <2> QED BY <1>1, <2>1 DEF GetExporter, TypeOK
<1>2. CASE CollectModules
  <2>1. xw \in ExporterWork
    BY <1>2, Working DEF CollectModules
  <2>2. xw' \in {Idle} \cup ExporterWork
    BY <1>2, <2>1, ExporterWorkBuilt DEF CollectModules, Renderings
  <2>3. exporterQueue' \subseteq Exporters
    <3>1. xw.key \in Exporters
      BY <2>1, ExporterWorkBuilt
    <3> QED BY <1>2, <3>1 DEF CollectModules, TypeOK
  <2> QED BY <1>2, <2>2, <2>3 DEF CollectModules, TypeOK
<1>3. ASSUME NEW reply \in Replies, ReconcileConfigMap(reply) PROVE TypeOK'
  <2>1. xw \in ExporterWork
    BY <1>3, Working DEF ReconcileConfigMap
  <2>2. xw.key \in Exporters /\ xw.data \in ConfigData /\ xw.obj.uid \in Nat
    BY <2>1, ExporterWorkBuilt DEF ExporterObject
  <2>3. configMap[xw.key].rv + 1 \in Nat
    BY <2>2, ConfigMapBuilt DEF TypeOK
  <2>4. [live |-> TRUE, rv |-> configMap[xw.key].rv + 1, owner |-> xw.obj.uid,
         data |-> xw.data] \in ConfigMapObject
    BY <2>2, <2>3 DEF ConfigMapObject
  <2>5. configMap' \in [Exporters -> ConfigMapObject] /\ configMapEvents' \subseteq Exporters
    BY <1>3, <2>2, <2>4, PutConfigMap DEF ReconcileConfigMap, TypeOK
  <2>6. xw' \in {Idle} \cup ExporterWork /\ exporterQueue' \subseteq Exporters
    BY <1>3, <2>1, <2>2, ExporterWorkBuilt DEF ReconcileConfigMap, TypeOK
  <2>7. made' \in [Exporters -> Nat]
    <3>1. Version(xw.obj) \in Nat
      BY <2>1, ExporterWorkBuilt, ExporterBuilt
    <3> QED BY <1>3, <3>1 DEF ReconcileConfigMap, TypeOK
  <2> QED BY <1>3, <2>5, <2>6, <2>7 DEF ReconcileConfigMap, TypeOK
<1>4. ASSUME NEW ok \in BOOLEAN, ReconcileOwned(ok) PROVE TypeOK'
  <2>1. xw \in ExporterWork
    BY <1>4, Working DEF ReconcileOwned
  <2>2. xw' \in {Idle} \cup ExporterWork
    BY <1>4, <2>1, ExporterWorkBuilt DEF ReconcileOwned
  <2>3. exporterQueue' \subseteq Exporters
    <3>1. xw.key \in Exporters
      BY <2>1, ExporterWorkBuilt
    <3> QED BY <1>4, <3>1 DEF ReconcileOwned, TypeOK
  <2> QED BY <1>4, <2>2, <2>3 DEF ReconcileOwned, TypeOK
<1>5. ASSUME NEW reply \in Replies, UpdateExporterStatus(reply) PROVE TypeOK'
  <2>1. xw \in ExporterWork
    BY <1>5, Working DEF UpdateExporterStatus
  <2>2. xw.key \in Exporters /\ xw.obj.gen \in Nat
    BY <2>1, ExporterWorkBuilt DEF ExporterObject
  <2> DEFINE obj == ExporterReport(xw.obj, xw.data)
  <2>3. obj.moduleCount \in Nat /\ obj.observed \in Nat
    <3>1. xw.obj \in ExporterObject
      BY <2>1, ExporterWorkBuilt
    <3>2. obj.moduleCount = Cardinality(Rendered(xw.data)) /\ obj.observed = xw.obj.gen
      BY <3>1 DEF ExporterReport, ExporterObject
    <3> QED BY <2>2, <3>2, RenderedCount
  <2>4. exporter[xw.key] \in ExporterObject
    BY <2>2 DEF TypeOK
  <2>5. ExporterStatusUpdated(xw.key, obj) \in ExporterObject
    BY <2>3, <2>4, ExporterBuilt DEF ExporterStatusUpdated
  <2>6. exporter' \in [Exporters -> ExporterObject] /\ exporterEvents' \subseteq Exporters
    BY <1>5, <2>2, <2>5, PutExporter DEF UpdateExporterStatus, TypeOK
  <2>7. xw' = Idle /\ exporterQueue' \subseteq Exporters
    BY <1>5, <2>2 DEF UpdateExporterStatus, TypeOK
  <2> QED BY <1>5, <2>6, <2>7 DEF UpdateExporterStatus, TypeOK
<1> QED BY <1>1, <1>2, <1>3, <1>4, <1>5 DEF ReconcileExporter

LEMMA TypeReconcileModule == TypeOK /\ ReconcileModule => TypeOK'
<1> SUFFICES ASSUME TypeOK, ReconcileModule PROVE TypeOK'
  OBVIOUS
<1> USE DEF RequeueModule, objects, caches, events, queues, workers, history
<1>1. ASSUME NEW m \in Modules, GetModule(m) PROVE TypeOK'
  <2>1. mw' \in {Idle} \cup ModuleWork
    BY <1>1 DEF GetModule, TypeOK, ModuleWork
  <2> QED BY <1>1, <2>1 DEF GetModule, TypeOK
<1>2. CASE ListExporters
  <2>1. mw \in ModuleWork
    BY <1>2, Working DEF ListExporters
  <2>2. Referencing(mw.key, mw.obj) \in SUBSET Exporters
    BY DEF Referencing
  <2>3. mw' \in {Idle} \cup ModuleWork
    <3>1. CASE mw' = Idle
      BY <3>1
    <3>2. CASE \E s \in Orders(Referencing(mw.key, mw.obj)) :
                 mw' = [mw EXCEPT !.pc = "status", !.refs = s,
                                  !.todo = Referencing(mw.key, mw.obj)]
      <4>1. PICK s \in Orders(Referencing(mw.key, mw.obj)) :
                   mw' = [mw EXCEPT !.pc = "status", !.refs = s,
                                    !.todo = Referencing(mw.key, mw.obj)]
        BY <3>2
      <4>2. s \in Seq(Exporters)
        BY <2>2, OrdersType
      <4> QED BY <2>1, <2>2, <4>1, <4>2, ModuleWorkBuilt
    <3> QED BY <1>2, <3>1, <3>2 DEF ListExporters
  <2>4. shuffles' \in Nat /\ moduleQueue' \subseteq Modules
    <3>1. mw.key \in Modules
      BY <2>1, ModuleWorkBuilt
    <3>2. shuffles \in Nat /\ moduleQueue \subseteq Modules
      BY DEF TypeOK
    <3>3. CASE ConvertModule[mw.obj.body] = ConvertPanic
      BY <1>2, <3>1, <3>2, <3>3 DEF ListExporters
    <3>4. CASE ConvertModule[mw.obj.body] # ConvertPanic
      <4>1. shuffles' = shuffles \/ shuffles' = shuffles + 1
        BY <1>2, <3>4 DEF ListExporters
      <4>2. UNCHANGED moduleQueue
        BY <1>2, <3>4 DEF ListExporters
      <4> QED BY <3>2, <4>1, <4>2
    <3> QED BY <3>3, <3>4
  <2> QED BY <1>2, <2>3, <2>4 DEF ListExporters, TypeOK
<1>3. ASSUME NEW reply \in Replies, UpdateModuleStatus(reply) PROVE TypeOK'
  <2>1. mw \in ModuleWork
    BY <1>3, Working DEF UpdateModuleStatus
  <2>2. mw.key \in Modules /\ mw.todo \in SUBSET Exporters /\ mw.refs \in Seq(Exporters)
    BY <2>1, ModuleWorkBuilt
  <2>3. mw.obj.gen \in Nat
    BY <2>1, ModuleWorkBuilt DEF ModuleObject
  <2> DEFINE obj == ModuleReport(mw.obj, mw.refs)
  <2>4. obj.valid \in BOOLEAN /\ obj.refs \in Seq(Exporters) /\ obj.observed \in Nat
    <3>1. mw.obj \in ModuleObject
      BY <2>1, ModuleWorkBuilt
    <3>2. /\ obj.valid = (ConvertModule[mw.obj.body] \in Entries)
          /\ obj.refs = mw.refs /\ obj.observed = mw.obj.gen
      BY <3>1 DEF ModuleReport, ModuleObject
    <3> QED BY <2>2, <2>3, <3>2
  <2>5. module[mw.key] \in ModuleObject
    BY <2>2 DEF TypeOK
  <2>6. ModuleStatusUpdated(mw.key, obj) \in ModuleObject
    BY <2>4, <2>5, ModuleBuilt DEF ModuleStatusUpdated
  <2>7. module' \in [Modules -> ModuleObject] /\ moduleEvents' \subseteq Modules
    BY <1>3, <2>2, <2>6, PutModule DEF UpdateModuleStatus, TypeOK
  <2>8. mw' \in {Idle} \cup ModuleWork /\ moduleQueue' \subseteq Modules
    <3>1. module'[mw.key] \in ModuleObject
      BY <2>2, <2>7
    <3>2. Touching(module'[mw.key], mw.todo) \in {Idle} \cup ModuleWork
      BY <2>1, <2>2, <3>1, ModuleWorkBuilt DEF Touching
    <3> QED BY <1>3, <2>2, <3>2 DEF UpdateModuleStatus, TypeOK
  <2> QED BY <1>3, <2>7, <2>8 DEF UpdateModuleStatus, TypeOK
<1>4. ASSUME NEW e \in Exporters, NEW reply \in Replies, TouchExporter(e, reply) PROVE TypeOK'
  <2>1. mw \in ModuleWork
    BY <1>4, Working DEF TouchExporter
  <2>2. mw.key \in Modules /\ mw.obj.rv \in Nat /\ mw.todo \in SUBSET Exporters
    BY <2>1, ModuleWorkBuilt DEF ModuleObject
  <2> DEFINE obj == Touched(mw.key, mw.obj, exporterCache[e])
  <2>3. obj.spec \in Selectors /\ obj.touch \in SUBSET (Modules \X Nat)
    BY <2>2 DEF Touched, TypeOK, ExporterObject
  <2>4. exporter[e] \in ExporterObject
    BY DEF TypeOK
  <2>5. ExporterUpdated(e, obj) \in ExporterObject
    BY <2>3, <2>4, ExporterBuilt DEF ExporterUpdated
  <2>6. exporter' \in [Exporters -> ExporterObject] /\ exporterEvents' \subseteq Exporters
    BY <1>4, <2>5, PutExporter DEF TouchExporter, TypeOK
  <2>7. mw' \in {Idle} \cup ModuleWork
    BY <1>4, <2>1, <2>2, ModuleWorkBuilt DEF TouchExporter, Touching
  <2>8. drops' \in Nat
    BY <1>4 DEF TouchExporter, TypeOK
  <2>9. lost' \subseteq Exporters \X Modules
    BY <1>4, <2>2 DEF TouchExporter, TypeOK
  <2> QED BY <1>4, <2>6, <2>7, <2>8, <2>9 DEF TouchExporter, TypeOK
<1> QED BY <1>1, <1>2, <1>3, <1>4 DEF ReconcileModule

LEMMA TypeNext == TypeOK /\ [Next]_vars => TypeOK'
<1>1. CASE UNCHANGED vars
  BY <1>1 DEF TypeOK, vars, objects, caches, events, queues, workers, history
<1> QED BY <1>1, TypeUsers, TypeEnvironment, TypeReconcileExporter, TypeReconcileModule DEF Next

\* Every variable keeps its type, whatever the keys, selectors, bodies and
\* bounds are.
THEOREM TypeCorrect == Spec => []TypeOK
BY TypeInit, TypeNext, PTL DEF Spec
=============================================================================
