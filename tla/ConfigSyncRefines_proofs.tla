---------------------- MODULE ConfigSyncRefines_proofs ----------------------
(***************************************************************************)
(* ConfigSync implements Projection: whatever caches, events, conflicts,   *)
(* lost answers, restarts and the touches of the module controller do,     *)
(* every step is a step of Projection on the versions of the exporters, of *)
(* their ConfigMaps and of their reports, or changes none of them.         *)
(***************************************************************************)
EXTENDS ConfigSyncComplete_proofs

\* What Projection sees of one exporter.
Reported(e) ==
  IF exporter[e].observed = 0 THEN 0 ELSE exporter[e].uid + exporter[e].observed - 1

source   == [e \in Exporters |-> Version(exporter[e])]
derived  == [e \in Exporters |-> [part \in {"config"} |-> made[e]]]
reported == [e \in Exporters |-> Reported(e)]

-----------------------------------------------------------------------------
(* The versions a ConfigMap is made from are in order.                     *)

\* A step makes one ConfigMap from the exporter the worker holds, or none.
MadeStepped ==
  \/ UNCHANGED made
  \/ /\ xw.pc = "config" /\ xw.key \in Exporters /\ xw.obj \in ExporterObject
     /\ UNCHANGED <<exporter, exporterCache>>
     /\ made' = [made EXCEPT ![xw.key] = Version(xw.obj)]

LEMMA MadeStep ==
  ASSUME TypeOK, [Next]_vars
  PROVE  MadeStepped
<1>1. CASE UNCHANGED vars
  BY <1>1 DEF vars, history, MadeStepped
<1>2. CASE Users
  BY <1>2 DEF Users, Edit, CreateExporter, EditExporter, DeleteExporter, CreateModule,
       RelabelModule, EditModule, DeleteModule, EditConfigMap, DeleteConfigMap, MadeStepped
<1>3. CASE Environment
  BY <1>3 DEF Environment, Edit, Resync, Restart, CollectGarbage, DeliverExporter,
       DeliverModule, DeliverConfigMap, history, MadeStepped
<1>4. ASSUME NEW reply \in Replies, ReconcileConfigMap(reply) PROVE MadeStepped
  <2>1. xw \in ExporterWork
    BY <1>4, Working DEF ReconcileConfigMap
  <2>2. xw.key \in Exporters /\ xw.obj \in ExporterObject
    BY <2>1, ExporterWorkBuilt
  <2> QED BY <1>4, <2>2 DEF ReconcileConfigMap, caches, MadeStepped
<1>5. CASE ReconcileExporter
  BY <1>4, <1>5 DEF ReconcileExporter, GetExporter, CollectModules, ReconcileOwned,
       UpdateExporterStatus, history, MadeStepped
<1>6. CASE ReconcileModule
  BY <1>6 DEF ReconcileModule, GetModule, ListExporters, UpdateModuleStatus, TouchExporter,
       history, MadeStepped
<1> QED BY <1>1, <1>2, <1>3, <1>5, <1>6 DEF Next

\* A worker that is past the ConfigMap was so before, or just made it.
LEMMA PastConfigStep ==
  ASSUME TypeOK, [Next]_vars, xw'.pc \in {"owned", "status"}
  PROVE  /\ xw'.key = xw.key /\ xw'.obj = xw.obj
         /\ \/ xw.pc \in {"owned", "status"}
            \/ xw.pc = "config" /\ made' = [made EXCEPT ![xw.key] = Version(xw.obj)]
<1> DEFINE Goal == /\ xw'.key = xw.key /\ xw'.obj = xw.obj
                   /\ \/ xw.pc \in {"owned", "status"}
                      \/ /\ xw.pc = "config"
                         /\ made' = [made EXCEPT ![xw.key] = Version(xw.obj)]
<1>0. UNCHANGED xw => Goal
  OBVIOUS
<1>1. xw' # Idle
  BY DEF Idle
<1>2. ASSUME NEW p \in {"owned", "status"}, xw \in ExporterWork, xw' = [xw EXCEPT !.pc = p]
      PROVE  xw'.key = xw.key /\ xw'.obj = xw.obj
  BY <1>2 DEF ExporterWork
<1>3. ASSUME NEW reply \in Replies, ReconcileConfigMap(reply) PROVE Goal
  <2>1. xw \in ExporterWork
    BY <1>3, Working DEF ReconcileConfigMap
  <2> QED BY <1>1, <1>2, <1>3, <2>1 DEF ReconcileConfigMap, RequeueExporter
<1>4. ASSUME NEW ok \in BOOLEAN, ReconcileOwned(ok) PROVE Goal
  <2>1. xw \in ExporterWork
    BY <1>4, Working DEF ReconcileOwned
  <2> QED BY <1>1, <1>2, <1>4, <2>1 DEF ReconcileOwned, RequeueExporter
<1>5. CASE CollectModules
  <2>1. xw \in ExporterWork
    BY <1>5, Working DEF CollectModules
  <2>2. \A d : [xw EXCEPT !.pc = "config", !.data = d].pc = "config"
    BY <2>1 DEF ExporterWork
  <2> QED BY <1>1, <1>5, <2>2 DEF CollectModules, RequeueExporter
<1>6. ASSUME NEW e \in Exporters, GetExporter(e) PROVE Goal
  BY <1>1, <1>6 DEF GetExporter
<1>7. ASSUME NEW reply \in Replies, UpdateExporterStatus(reply) PROVE Goal
  BY <1>1, <1>7 DEF UpdateExporterStatus, RequeueExporter
<1>8. CASE Users \/ Environment
  BY <1>0, <1>1, <1>8 DEF Users, CreateExporter, EditExporter, DeleteExporter, CreateModule,
       RelabelModule, EditModule, DeleteModule, EditConfigMap, DeleteConfigMap, Environment,
       Resync, Restart, CollectGarbage, DeliverExporter, DeliverModule, DeliverConfigMap, workers
<1>9. CASE ReconcileModule
  BY <1>0, <1>9 DEF ReconcileModule, GetModule, ListExporters, UpdateModuleStatus, TouchExporter
<1>10. CASE UNCHANGED vars
  BY <1>0, <1>10 DEF vars, workers
<1> QED
  BY <1>3, <1>4, <1>5, <1>6, <1>7, <1>8, <1>9, <1>10 DEF Next, ReconcileExporter

\* Users make the version of an exporter grow, and nobody else changes it.
LEMMA VersionStep ==
  ASSUME TypeOK, Versions, MadeInOrder, [Next]_vars, NEW e \in Exporters
  PROVE  /\ Version(exporter[e]) \in Nat /\ Version(exporter'[e]) \in Nat
         /\ Version(exporter[e]) <= Version(exporter'[e])
         /\ Version(exporter'[e]) <= exporter'[e].rv
<1>1. /\ exporter[e] \in ExporterObject /\ exporter'[e] \in ExporterObject
      /\ exporter[e].rv \in Nat
  BY TypeNext, VersionType DEF TypeOK
<1>2. /\ Version(exporter[e]) \in Nat /\ Version(exporter'[e]) \in Nat
      /\ exporter[e].uid \in Nat /\ exporter[e].gen \in Nat
  BY <1>1, ExporterBuilt
<1>3. Version(exporter[e]) <= exporter[e].rv
  BY DEF MadeInOrder
<1>4. CASE exporter'[e] = exporter[e]
  BY <1>2, <1>3, <1>4
<1>5. CASE exporter'[e].rv = exporter[e].rv + 1 /\ ExporterUserWrite(e)
  <2>1. CASE exporter'[e].uid = exporter[e].rv + 1 /\ exporter'[e].gen = 1
    BY <1>1, <1>2, <1>3, <1>5, <2>1 DEF Version
  <2>2. CASE /\ exporter'[e].uid = exporter[e].uid
             /\ exporter'[e].gen \in {exporter[e].gen, exporter[e].gen + 1}
    BY <1>1, <1>2, <1>3, <1>5, <2>2 DEF Version
  <2> QED BY <1>5, <2>1, <2>2 DEF ExporterUserWrite
<1>6. CASE /\ exporter'[e].rv = exporter[e].rv + 1
           /\ ExporterStatusWrite(e) \/ ExporterTouchWrite(e)
  <2>1. exporter'[e].uid = exporter[e].uid /\ exporter'[e].gen = exporter[e].gen
    BY <1>6 DEF ExporterStatusWrite, ExporterTouchWrite, Current, Versions, CachesOlder, Older
  <2> QED BY <1>1, <1>2, <1>3, <1>6, <2>1 DEF Version
<1> QED BY <1>4, <1>5, <1>6, ExporterStep DEF ExporterStepped

LEMMA MadeInOrderInit == Init => MadeInOrder
<1> SUFFICES ASSUME Init, NEW e \in Exporters
             PROVE  /\ made[e] = 0 /\ exporterCache[e] = exporter[e]
                    /\ exporter[e].rv = 1 /\ Version(exporter[e]) = 1
                    /\ xw.pc = "idle"
  BY DEF MadeInOrder, ExporterAt
<1> QED BY DEF Init, Version, Idle

LEMMA MadeInOrderNext ==
  TypeOK /\ Versions /\ MadeInOrder /\ [Next]_vars => MadeInOrder'
<1> SUFFICES ASSUME TypeOK, Versions, MadeInOrder, [Next]_vars, NEW e \in Exporters
             PROVE  /\ made'[e] <= Version(exporterCache'[e])
                    /\ Version(exporterCache'[e]) <= Version(exporter'[e])
                    /\ Version(exporter'[e]) <= exporter'[e].rv
                    /\ ExporterAt(e, Places)' =>
                         /\ made'[e] <= Version(xw'.obj)
                         /\ Version(xw'.obj) <= Version(exporterCache'[e])
                    /\ ExporterAt(e, {"owned", "status"})' => made'[e] = Version(xw'.obj)
  BY DEF MadeInOrder, ExporterAt, Places
<1>1. /\ Version(exporter[e]) \in Nat /\ Version(exporter'[e]) \in Nat
      /\ Version(exporter[e]) <= Version(exporter'[e])
      /\ Version(exporter'[e]) <= exporter'[e].rv
  BY VersionStep
<1>2. /\ Version(exporterCache[e]) \in Nat /\ Version(exporterCache'[e]) \in Nat
      /\ made \in [Exporters -> Nat] /\ made[e] \in Nat /\ made'[e] \in Nat
      /\ ExporterAt(e, Places) => Version(xw.obj) \in Nat
  <2>1. exporterCache[e] \in ExporterObject /\ exporterCache'[e] \in ExporterObject
    BY TypeNext DEF TypeOK
  <2>2. xw.pc # "idle" => xw.obj \in ExporterObject
    BY Working, ExporterWorkBuilt
  <2> QED BY <2>1, <2>2, TypeNext, ExporterBuilt DEF TypeOK, ExporterAt, Places
<1>3. /\ made[e] <= Version(exporterCache[e])
      /\ Version(exporterCache[e]) <= Version(exporter[e])
      /\ ExporterAt(e, Places) => /\ made[e] <= Version(xw.obj)
                                  /\ Version(xw.obj) <= Version(exporterCache[e])
      /\ ExporterAt(e, {"owned", "status"}) => made[e] = Version(xw.obj)
  BY DEF MadeInOrder, ExporterAt, Places
<1>4. /\ Version(exporterCache[e]) <= Version(exporterCache'[e])
      /\ Version(exporterCache'[e]) <= Version(exporter'[e])
  <2>1. exporterCache'[e] \in {exporterCache[e], exporter[e]}
    BY CacheStep DEF ExporterCacheStepped
  <2> QED BY <1>1, <1>2, <1>3, <2>1
<1>5. \/ made'[e] = made[e]
      \/ /\ ExporterAt(e, {"config"}) /\ made'[e] = Version(xw.obj)
         /\ exporterCache'[e] = exporterCache[e]
  BY <1>2, MadeStep DEF MadeStepped, ExporterAt
<1>6. made'[e] <= Version(exporterCache'[e])
  BY <1>1, <1>2, <1>3, <1>4, <1>5 DEF ExporterAt, Places
<1>7. ASSUME ExporterAt(e, Places)'
      PROVE  made'[e] <= Version(xw'.obj) /\ Version(xw'.obj) <= Version(exporterCache'[e])
  <2>1. xw' # Idle /\ xw'.key = e
    BY <1>7 DEF ExporterAt, Places, Idle
  <2>2. CASE /\ xw.pc = "idle" /\ xw'.obj = exporterCache[xw'.key]
    BY <1>1, <1>2, <1>3, <1>4, <1>5, <2>1, <2>2 DEF ExporterAt
  <2>3. CASE /\ xw.pc # "idle" <=> xw'.pc # "idle"
             /\ xw.pc # "idle" => xw'.key = xw.key /\ xw'.obj = xw.obj
    <3>1. ExporterAt(e, Places) /\ xw'.obj = xw.obj
      <4>1. xw.pc # "idle"
        BY <1>7, <2>3 DEF ExporterAt, Places
      <4>2. xw.pc \in Places
        BY <4>1, Working DEF ExporterWork, Places
      <4> QED BY <2>1, <2>3, <4>1, <4>2 DEF ExporterAt
    <3> QED BY <1>1, <1>2, <1>3, <1>4, <1>5, <3>1
  <2> QED BY <2>1, <2>2, <2>3, ExporterWorkerStep DEF ExporterWorkerStepped
<1>8. ASSUME ExporterAt(e, {"owned", "status"})' PROVE made'[e] = Version(xw'.obj)
  <2>1. /\ xw'.key = xw.key /\ xw'.obj = xw.obj
        /\ \/ xw.pc \in {"owned", "status"}
           \/ xw.pc = "config" /\ made' = [made EXCEPT ![xw.key] = Version(xw.obj)]
    BY <1>8, PastConfigStep DEF ExporterAt
  <2>2. xw.key = e
    BY <1>8, <2>1 DEF ExporterAt
  <2> QED BY <1>2, <1>3, <1>5, <2>1, <2>2 DEF ExporterAt
<1> QED BY <1>1, <1>4, <1>6, <1>7, <1>8

\* The whole invariant that the runs check.
THEOREM InvariantHolds == Spec => []IInv
<1>1. Safe /\ MadeInOrder /\ [Next]_vars => MadeInOrder'
  BY SafeParts, MadeInOrderNext
<1>2. Safe /\ Complete /\ MadeInOrder => IInv
  BY DEF IInv
<1> QED BY <1>1, <1>2, SafeInvariant, CompleteInvariant, MadeInOrderInit, PTL DEF Spec

-----------------------------------------------------------------------------
(* The refinement.                                                         *)

\* A step writes one BlackboxExporter, or none.
LEMMA OneExporter ==
  ASSUME TypeOK, [Next]_vars
  PROVE  \/ UNCHANGED exporter
         \/ \E e \in Exporters : exporter' = [exporter EXCEPT ![e] = exporter'[e]]
<1> DEFINE Goal == \/ UNCHANGED exporter
                   \/ \E e \in Exporters : exporter' = [exporter EXCEPT ![e] = exporter'[e]]
<1>0. ASSUME NEW e \in Exporters, NEW obj, WriteExporter(e, obj) PROVE Goal
  BY <1>0 DEF WriteExporter, TypeOK
<1>1. CASE UNCHANGED vars
  BY <1>1 DEF vars, objects
<1>2. ASSUME NEW e \in Exporters, NEW s \in Selectors, CreateExporter(e, s) PROVE Goal
  BY <1>0, <1>2 DEF CreateExporter
<1>3. ASSUME NEW e \in Exporters, NEW s \in Selectors, EditExporter(e, s) PROVE Goal
  BY <1>0, <1>3 DEF EditExporter
<1>4. ASSUME NEW e \in Exporters, DeleteExporter(e) PROVE Goal
  BY <1>0, <1>4 DEF DeleteExporter
<1>5. ASSUME NEW reply \in Replies, UpdateExporterStatus(reply) PROVE Goal
  <2>1. xw.key \in Exporters
    BY <1>5, VersionType DEF UpdateExporterStatus
  <2> QED BY <1>0, <1>5, <2>1 DEF UpdateExporterStatus
<1>6. ASSUME NEW e \in Exporters, NEW reply \in Replies, TouchExporter(e, reply) PROVE Goal
  BY <1>0, <1>6 DEF TouchExporter
<1>7. CASE Environment
  BY <1>7 DEF Environment, Resync, Restart, CollectGarbage, DeliverExporter, DeliverModule,
       DeliverConfigMap, objects
<1> QED
  BY <1>1, <1>2, <1>3, <1>4, <1>5, <1>6, <1>7
  DEF Next, Users, CreateModule, RelabelModule, EditModule, DeleteModule, EditConfigMap,
      DeleteConfigMap, ReconcileExporter, GetExporter, CollectModules, ReconcileConfigMap,
      ReconcileOwned, ReconcileModule, GetModule, ListExporters, UpdateModuleStatus, objects

\* What a new state of an exporter is in the abstract: a revision, which keeps
\* the report or takes it back, a report of the version its ConfigMap was made
\* from, or nothing.
LEMMA ExporterMaps ==
  ASSUME TypeOK, Versions, MadeInOrder, [Next]_vars, NEW e \in Exporters,
         exporter'[e] # exporter[e]
  PROVE  \/ /\ Version(exporter[e]) < Version(exporter'[e])
            /\ Reported(e)' = Reported(e) \/ Reported(e)' = 0
         \/ /\ Version(exporter'[e]) = Version(exporter[e])
            /\ \/ Reported(e)' = Reported(e)
               \/ /\ Reported(e)' = Version(exporter[e])
                  /\ made[e] = Version(exporter[e])
<1>1. /\ exporter[e].rv \in Nat /\ exporter[e].uid \in Nat /\ exporter[e].gen \in Nat \ {0}
      /\ exporter'[e].uid \in Nat /\ exporter'[e].gen \in Nat
  BY TypeNext, ExporterBuilt, VersionType DEF TypeOK
<1>2. exporter[e].uid + exporter[e].gen - 1 <= exporter[e].rv
  BY DEF MadeInOrder, Version
<1>3. CASE ExporterUserWrite(e)
  <2>1. CASE exporter'[e].uid = exporter[e].rv + 1 /\ exporter'[e].gen = 1
             /\ exporter'[e].observed = 0
    <3>1. Version(exporter[e]) < Version(exporter'[e])
      BY <1>1, <1>2, <2>1 DEF Version
    <3>2. Reported(e)' = 0
      BY <2>1 DEF Reported
    <3> QED BY <3>1, <3>2
  <2>2. CASE /\ exporter'[e].uid = exporter[e].uid
             /\ exporter'[e].gen \in {exporter[e].gen, exporter[e].gen + 1}
             /\ exporter'[e].observed = exporter[e].observed
    <3>1. Reported(e)' = Reported(e)
      BY <2>2 DEF Reported
    <3>2. Version(exporter[e]) < Version(exporter'[e]) \/ Version(exporter'[e]) = Version(exporter[e])
      BY <1>1, <2>2 DEF Version
    <3> QED BY <3>1, <3>2
  <2> QED BY <1>3, <2>1, <2>2 DEF ExporterUserWrite
<1>4. CASE ExporterTouchWrite(e)
  <2>1. exporter'[e].uid = exporter[e].uid /\ exporter'[e].gen = exporter[e].gen
        /\ exporter'[e].observed = exporter[e].observed
    BY <1>4 DEF ExporterTouchWrite, Current, Versions, CachesOlder, Older
  <2> QED BY <2>1 DEF Version, Reported
<1>5. CASE ExporterStatusWrite(e)
  <2>1. xw.obj = exporter[e] /\ ExporterAt(e, {"owned", "status"})
    BY <1>5 DEF ExporterStatusWrite, Current, Versions, ExporterWorkerVersion, Older, ExporterAt
  <2>2. made[e] = Version(exporter[e])
    BY <2>1 DEF MadeInOrder
  <2>3. /\ exporter'[e].uid = exporter[e].uid /\ exporter'[e].gen = exporter[e].gen
        /\ exporter'[e].observed = exporter[e].gen
    BY <1>5, <2>1 DEF ExporterStatusWrite
  <2>4. Reported(e)' = Version(exporter[e])
    BY <1>1, <2>3 DEF Reported, Version
  <2>5. Version(exporter'[e]) = Version(exporter[e])
    BY <2>3 DEF Version
  <2> QED BY <2>2, <2>4, <2>5
<1> QED BY <1>3, <1>4, <1>5, ExporterStep DEF ExporterStepped

LEMMA InitMaps == Init => Promised!Init
<1> SUFFICES ASSUME Init PROVE Promised!Init
  OBVIOUS
<1>1. \A e \in Exporters : /\ Version(exporter[e]) = 1 /\ made[e] = 0
                           /\ exporter[e].observed = 0
  BY DEF Init, Version
<1> QED BY <1>1 DEF Promised!Init

LEMMA StepMaps ==
  TypeOK /\ Versions /\ MadeInOrder /\ [Next]_vars =>
    [Promised!Next]_<<source, derived, reported>>
<1> SUFFICES ASSUME TypeOK, Versions, MadeInOrder, [Next]_vars,
                    ~ UNCHANGED <<source, derived, reported>>
             PROVE  Promised!Next
  OBVIOUS
<1>0. /\ exporter \in [Exporters -> ExporterObject] /\ exporter' \in [Exporters -> ExporterObject]
      /\ made \in [Exporters -> Nat] /\ made' \in [Exporters -> Nat]
      /\ \A e \in Exporters : Version(exporter[e]) \in Nat /\ Version(exporter'[e]) \in Nat
  BY TypeNext, VersionStep DEF TypeOK
<1>1. CASE made' = made
  <2>1. ~ UNCHANGED exporter
    BY <1>1 DEF source, derived, reported, Reported
  <2>2. PICK e \in Exporters : exporter' = [exporter EXCEPT ![e] = exporter'[e]]
    BY <2>1, OneExporter
  <2>3. \A o \in Exporters : o # e => exporter'[o] = exporter[o]
    BY <1>0, <2>2
  <2>4. exporter'[e] # exporter[e]
    BY <1>0, <2>1, <2>2
  <2>5. /\ source' = [source EXCEPT ![e] = Version(exporter'[e])]
        /\ source[e] = Version(exporter[e]) /\ source'[e] = Version(exporter'[e])
    BY <2>3 DEF source, Version
  <2>6. /\ reported' = [reported EXCEPT ![e] = Reported(e)']
        /\ reported[e] = Reported(e)
    BY <2>3 DEF reported, Reported
  <2>7. UNCHANGED derived
    BY <1>1 DEF derived
  <2>8. CASE /\ Version(exporter[e]) < Version(exporter'[e])
             /\ Reported(e)' = Reported(e) \/ Reported(e)' = 0
    <3>1. Version(exporter'[e]) \in Nat
      BY <1>0
    <3>2. reported' = reported \/ reported' = [reported EXCEPT ![e] = 0]
      BY <2>6, <2>8 DEF reported
    <3>3. Promised!Revise(e)
      BY <2>5, <2>7, <2>8, <3>1, <3>2 DEF Promised!Revise, source, derived, reported, Reported
    <3> QED BY <3>3 DEF Promised!Next
  <2>9. CASE Version(exporter'[e]) = Version(exporter[e]) /\ Reported(e)' = Reported(e)
    <3>1. UNCHANGED source /\ UNCHANGED reported
      BY <2>5, <2>6, <2>9 DEF source, reported
    <3> QED BY <2>7, <3>1
  <2>10. CASE /\ Version(exporter'[e]) = Version(exporter[e])
              /\ Reported(e)' = Version(exporter[e])
              /\ made[e] = Version(exporter[e])
    <3>1. UNCHANGED source
      BY <2>5, <2>10 DEF source
    <3>2. \A part \in {"config"} : derived[e][part] = source[e]
      BY <2>5, <2>10 DEF derived
    <3>3. reported' = [reported EXCEPT ![e] = source[e]]
      BY <2>5, <2>6, <2>10
    <3>4. Promised!Report(e)
      BY <2>7, <3>1, <3>2, <3>3 DEF Promised!Report, source, derived, reported, Reported
    <3> QED BY <3>4 DEF Promised!Next
  <2> QED BY <2>4, <2>8, <2>9, <2>10, ExporterMaps
<1>2. CASE made' # made
  <2>1. PICK e \in Exporters : /\ xw.pc = "config" /\ xw.key = e /\ UNCHANGED exporter
                               /\ made' = [made EXCEPT ![e] = Version(xw.obj)]
    BY <1>2, MadeStep DEF MadeStepped
  <2>2. UNCHANGED source /\ UNCHANGED reported
    BY <2>1 DEF source, reported, Reported
  <2>3. made'[e] = Version(xw.obj) /\ \A o \in Exporters : o # e => made'[o] = made[o]
    BY <1>0, <2>1
  <2>4. made'[e] # made[e]
    BY <1>0, <1>2, <2>3
  <2>5. made[e] <= made'[e] /\ made'[e] <= Version(exporter[e])
    <3>1. /\ made[e] <= Version(xw.obj) /\ Version(xw.obj) <= Version(exporterCache[e])
          /\ Version(exporterCache[e]) <= Version(exporter[e])
      BY <2>1 DEF MadeInOrder, ExporterAt
    <3>2. exporterCache[e] \in ExporterObject
      BY DEF TypeOK
    <3>3. Version(exporterCache[e]) \in Nat
      BY <3>2, ExporterBuilt
    <3> QED BY <1>0, <2>3, <3>1, <3>3
  <2>6. made'[e] \in made[e] + 1 .. Version(exporter[e])
    BY <1>0, <2>4, <2>5
  <2>7. /\ derived'[e]["config"] = made'[e] /\ derived[e]["config"] = made[e]
        /\ source[e] = Version(exporter[e])
    BY DEF derived, source
  <2>8. derived' = [derived EXCEPT ![e]["config"] = made'[e]]
    <3>1. \A o \in Exporters : o # e => derived'[o] = derived[o]
      BY <2>3 DEF derived
    <3>2. derived'[e] = [derived[e] EXCEPT !["config"] = made'[e]]
      BY DEF derived
    <3>3. derived' = [derived EXCEPT ![e] = derived'[e]]
      BY <3>1 DEF derived
    <3> QED BY <3>2, <3>3
  <2>9. Promised!Derive(e, "config")
    BY <2>2, <2>6, <2>7, <2>8 DEF Promised!Derive, source, derived, reported, Reported
  <2>10. \E part \in {"config"} : Promised!Derive(e, part)
    BY <2>9
  <2> QED BY <2>10 DEF Promised!Next
<1> QED BY <1>1, <1>2

\* ConfigSync implements Projection: a generation of an exporter is reported as
\* observed only while it is the current one, once its ConfigMap was rendered
\* for that generation, and no older one is rendered after it.
THEOREM Refinement == Spec => Refines
<1>1. UNCHANGED <<source, derived, reported>> => UNCHANGED Promised!vars
  BY DEF Promised!vars, source, derived, reported, Reported
<1>2. IInv /\ [Next]_vars => [Promised!Next]_(Promised!vars)
  BY StepMaps, <1>1, SafeParts DEF IInv
<1> QED BY InitMaps, <1>2, InvariantHolds, PTL DEF Spec, Refines, Promised!Spec

Abstract == INSTANCE Projection_proofs WITH Sources <- Exporters, Parts <- {"config"}

\* What that promise amounts to: a reported generation is at most the one the
\* ConfigMap was last made from, and that is at most the one users ask for.
THEOREM ReportBacked == Spec => []Promised!Ordered
<1> USE DEF source, derived, reported, Reported
<1>1. Promised!Init => Abstract!Init
  BY DEF Promised!Init, Abstract!Init
<1>2. [Promised!Next]_(Promised!vars) => [Abstract!Next]_(Abstract!vars)
  BY DEF Promised!Next, Promised!Revise, Promised!Derive, Promised!Report, Promised!Retract,
         Promised!vars, Abstract!Next, Abstract!Revise, Abstract!Derive, Abstract!Report,
         Abstract!Retract, Abstract!vars
<1>3. Abstract!Ordered => Promised!Ordered
  BY DEF Promised!Ordered, Abstract!Ordered
<1> QED
  BY <1>1, <1>2, <1>3, Refinement, Abstract!AlwaysOrdered, PTL
  DEF Refines, Promised!Spec, Abstract!Spec
=============================================================================
