------------------------ MODULE ConfigSyncInv_proofs ------------------------
(***************************************************************************)
(* The safety theorems of ConfigSync that do not depend on names: caches,  *)
(* versions, status and ownership.  The steps of the specification are     *)
(* first summed up per variable (what a step may do to an object, a cache, *)
(* a worker); the invariants follow from the summaries.                    *)
(***************************************************************************)
EXTENDS ConfigSync_proofs

-----------------------------------------------------------------------------
(* What a step does to an exporter: nothing, or it makes a new version and *)
(* an event, in one of three ways.                                         *)

ExporterUserWrite(e) ==
  /\ edits' = edits + 1
  /\ exporter'[e].touch \subseteq exporter[e].touch
  /\ \/ /\ exporter'[e].uid = exporter[e].rv + 1 /\ exporter'[e].gen = 1
        /\ exporter'[e].observed = 0
     \/ /\ exporter'[e].uid = exporter[e].uid
        /\ exporter'[e].gen \in {exporter[e].gen, exporter[e].gen + 1}
        /\ exporter'[e].observed = exporter[e].observed

ExporterStatusWrite(e) ==
  /\ xw.pc = "status" /\ xw.key = e
  /\ Current(exporter[e], xw.obj)
  /\ exporter'[e].live = exporter[e].live /\ exporter'[e].uid = exporter[e].uid
  /\ exporter'[e].gen = exporter[e].gen /\ exporter'[e].spec = exporter[e].spec
  /\ exporter'[e].touch = exporter[e].touch
  /\ exporter'[e].observed = xw.obj.gen

ExporterTouchWrite(e) ==
  /\ mw.pc = "touch"
  /\ Current(exporter[e], exporterCache[e])
  /\ exporter'[e].live = exporter[e].live /\ exporter'[e].uid = exporter[e].uid
  /\ exporter'[e].spec = exporterCache[e].spec
  /\ exporter'[e].spec = exporter[e].spec => exporter'[e].gen = exporter[e].gen
  /\ exporter'[e].touch = {<<mw.key, mw.obj.rv>>}
  /\ exporter'[e].moduleCount = exporter[e].moduleCount
  /\ exporter'[e].observed = exporter[e].observed

ExporterStepped(e) ==
  \/ exporter'[e] = exporter[e]
  \/ /\ exporter'[e].rv = exporter[e].rv + 1 /\ e \in exporterEvents'
     /\ ExporterUserWrite(e) \/ ExporterStatusWrite(e) \/ ExporterTouchWrite(e)

LEMMA ExporterStep ==
  ASSUME TypeOK, [Next]_vars, NEW e \in Exporters
  PROVE  ExporterStepped(e)
<1>0. /\ exporter \in [Exporters -> ExporterObject]
      /\ \A o \in Exporters : exporter[o] \in ExporterObject
      /\ edits \in Nat
  BY DEF TypeOK
<1>. UNCHANGED exporter => ExporterStepped(e)
  BY DEF ExporterStepped
<1>1. CASE UNCHANGED vars
  BY <1>1 DEF vars, objects
<1>2. ASSUME NEW o \in Exporters, NEW s \in Selectors, CreateExporter(o, s)
      PROVE  ExporterStepped(e)
  BY <1>2, <1>0 DEF ExporterStepped, CreateExporter, WriteExporter, Edit, ExporterUserWrite
<1>3. ASSUME NEW o \in Exporters, NEW s \in Selectors, EditExporter(o, s)
      PROVE  ExporterStepped(e)
  BY <1>3, <1>0 DEF ExporterStepped, EditExporter, WriteExporter, Edit, ExporterUserWrite, ExporterObject
<1>4. ASSUME NEW o \in Exporters, DeleteExporter(o) PROVE ExporterStepped(e)
  BY <1>4, <1>0 DEF ExporterStepped, DeleteExporter, WriteExporter, Edit, ExporterUserWrite, ExporterObject
<1>5. ASSUME NEW reply \in Replies, UpdateExporterStatus(reply) PROVE ExporterStepped(e)
  <2> DEFINE obj == ExporterReport(xw.obj, xw.data)
  <2>1. CASE UNCHANGED exporter
    BY <2>1
  <2>2. CASE /\ Current(exporter[xw.key], xw.obj)
             /\ WriteExporter(xw.key, ExporterStatusUpdated(xw.key, obj))
    <3>1. xw \in ExporterWork /\ xw.key \in Exporters /\ xw.obj \in ExporterObject
      BY <1>5, Working, ExporterWorkBuilt DEF UpdateExporterStatus
    <3>2. obj.observed = xw.obj.gen
      BY <3>1 DEF ExporterReport, ExporterObject
    <3>3. e # xw.key => exporter'[e] = exporter[e]
      BY <2>2, <1>0 DEF WriteExporter
    <3>4. e = xw.key => exporter'[e] = ExporterStatusUpdated(e, obj) /\ e \in exporterEvents'
      BY <2>2, <1>0 DEF WriteExporter
    <3>5. e = xw.key => exporter'[e].rv = exporter[e].rv + 1 /\ ExporterStatusWrite(e)
      BY <1>5, <2>2, <3>2, <3>4, <1>0
      DEF UpdateExporterStatus, ExporterStatusUpdated, ExporterStatusWrite, ExporterObject
    <3> QED BY <3>3, <3>4, <3>5 DEF ExporterStepped
  <2> QED BY <1>5, <2>1, <2>2 DEF UpdateExporterStatus
<1>6. ASSUME NEW o \in Exporters, NEW reply \in Replies, TouchExporter(o, reply)
      PROVE  ExporterStepped(e)
  <2> DEFINE obj == Touched(mw.key, mw.obj, exporterCache[o])
  <2>1. CASE UNCHANGED exporter
    BY <2>1
  <2>2. CASE Current(exporter[o], exporterCache[o]) /\ WriteExporter(o, ExporterUpdated(o, obj))
    <3>1. exporterCache[o] \in ExporterObject
      BY DEF TypeOK
    <3>2. obj.spec = exporterCache[o].spec /\ obj.touch = {<<mw.key, mw.obj.rv>>}
      BY <3>1 DEF Touched, ExporterObject
    <3>3. e # o => exporter'[e] = exporter[e]
      BY <2>2, <1>0 DEF WriteExporter
    <3>4. e = o => exporter'[e] = ExporterUpdated(e, obj) /\ e \in exporterEvents'
      BY <2>2, <1>0 DEF WriteExporter
    <3>5. e = o => exporter'[e].rv = exporter[e].rv + 1 /\ ExporterTouchWrite(e)
      <4>1. mw.pc = "touch"
        BY <1>6 DEF TouchExporter
      <4> QED BY <2>2, <3>2, <3>4, <4>1, <1>0
              DEF ExporterUpdated, ExporterTouchWrite, ExporterObject
    <3> QED BY <3>3, <3>4, <3>5 DEF ExporterStepped
  <2> QED BY <1>6, <2>1, <2>2 DEF TouchExporter
<1>7. ASSUME NEW m \in Modules, NEW l \in LabelSets, NEW b \in Bodies,
             \/ CreateModule(m, l, b) \/ RelabelModule(m, l) \/ EditModule(m, b) \/ DeleteModule(m)
      PROVE  UNCHANGED exporter
  BY <1>7 DEF CreateModule, RelabelModule, EditModule, DeleteModule
<1>8. ASSUME NEW o \in Exporters, DeleteConfigMap(o) \/ \E n \in Names : EditConfigMap(o, n)
      PROVE  UNCHANGED exporter
  BY <1>8 DEF EditConfigMap, DeleteConfigMap
<1>9. CASE Environment
  BY <1>9 DEF Environment, Resync, Restart, CollectGarbage, DeliverExporter, DeliverModule,
              DeliverConfigMap, objects
<1>10. CASE ReconcileExporter
  BY <1>5, <1>10 DEF ReconcileExporter, GetExporter, CollectModules, ReconcileConfigMap,
                     ReconcileOwned, objects
<1>11. CASE ReconcileModule
  BY <1>6, <1>11 DEF ReconcileModule, GetModule, ListExporters, UpdateModuleStatus, objects
<1>12. CASE Users
  BY <1>2, <1>3, <1>4, <1>7, <1>8, <1>12, ContentAssumption DEF Users, ContentAssumption
<1> QED BY <1>1, <1>9, <1>10, <1>11, <1>12 DEF Next

-----------------------------------------------------------------------------
(* ... to a module.                                                        *)

ModuleUserWrite(m) ==
  /\ edits' = edits + 1
  /\ \/ module'[m].observed = 0 /\ module'[m].gen = 1
     \/ /\ module'[m].observed = module[m].observed
        /\ \/ module'[m].gen = module[m].gen + 1
           \/ /\ module'[m].gen = module[m].gen
              /\ module'[m].body = module[m].body
              /\ module'[m].valid = module[m].valid
              /\ module'[m].live => module[m].live

ModuleStatusWrite(m) ==
  /\ mw.pc = "status" /\ mw.key = m
  /\ Current(module[m], mw.obj)
  /\ SameContent(module'[m], module[m])
  /\ module'[m].gen = module[m].gen
  /\ module'[m].observed = mw.obj.gen
  /\ module'[m].valid <=> ConvertModule[mw.obj.body] \in Entries

ModuleStepped(m) ==
  \/ module'[m] = module[m]
  \/ /\ module'[m].rv = module[m].rv + 1 /\ m \in moduleEvents'
     /\ ModuleUserWrite(m) \/ ModuleStatusWrite(m)

LEMMA ModuleStep ==
  ASSUME TypeOK, [Next]_vars, NEW m \in Modules
  PROVE  ModuleStepped(m)
<1>0. /\ module \in [Modules -> ModuleObject]
      /\ \A k \in Modules : module[k] \in ModuleObject
      /\ edits \in Nat
  BY DEF TypeOK
<1>. UNCHANGED module => ModuleStepped(m)
  BY DEF ModuleStepped
<1>1. CASE UNCHANGED vars
  BY <1>1 DEF vars, objects
<1>2. ASSUME NEW k \in Modules, NEW l \in LabelSets, NEW b \in Bodies, CreateModule(k, l, b)
      PROVE  ModuleStepped(m)
  BY <1>2, <1>0 DEF ModuleStepped, CreateModule, WriteModule, Edit, ModuleUserWrite
<1>3. ASSUME NEW k \in Modules, NEW l \in LabelSets, RelabelModule(k, l) PROVE ModuleStepped(m)
  BY <1>3, <1>0 DEF ModuleStepped, RelabelModule, WriteModule, Edit, ModuleUserWrite, ModuleObject
<1>4. ASSUME NEW k \in Modules, NEW b \in Bodies, EditModule(k, b) PROVE ModuleStepped(m)
  BY <1>4, <1>0 DEF ModuleStepped, EditModule, WriteModule, Edit, ModuleUserWrite, ModuleObject
<1>5. ASSUME NEW k \in Modules, DeleteModule(k) PROVE ModuleStepped(m)
  BY <1>5, <1>0 DEF ModuleStepped, DeleteModule, WriteModule, Edit, ModuleUserWrite, ModuleObject
<1>6. ASSUME NEW reply \in Replies, UpdateModuleStatus(reply) PROVE ModuleStepped(m)
  <2> DEFINE obj == ModuleReport(mw.obj, mw.refs)
  <2>1. CASE UNCHANGED module
    BY <2>1
  <2>2. CASE /\ Current(module[mw.key], mw.obj)
             /\ WriteModule(mw.key, ModuleStatusUpdated(mw.key, obj))
    <3>1. mw \in ModuleWork /\ mw.key \in Modules /\ mw.obj \in ModuleObject
      BY <1>6, Working, ModuleWorkBuilt DEF UpdateModuleStatus
    <3>2. obj.observed = mw.obj.gen /\ obj.valid = (ConvertModule[mw.obj.body] \in Entries)
      BY <3>1 DEF ModuleReport, ModuleObject
    <3>3. m # mw.key => module'[m] = module[m]
      BY <2>2, <1>0 DEF WriteModule
    <3>4. m = mw.key => module'[m] = ModuleStatusUpdated(m, obj) /\ m \in moduleEvents'
      BY <2>2, <1>0 DEF WriteModule
    <3>5. m = mw.key => module'[m].rv = module[m].rv + 1 /\ ModuleStatusWrite(m)
      BY <1>6, <2>2, <3>2, <3>4, <1>0
      DEF UpdateModuleStatus, ModuleStatusUpdated, ModuleStatusWrite, SameContent, ModuleObject
    <3> QED BY <3>3, <3>4, <3>5 DEF ModuleStepped
  <2> QED BY <1>6, <2>1, <2>2 DEF UpdateModuleStatus
<1>7. ASSUME NEW o \in Exporters, NEW s \in Selectors,
             CreateExporter(o, s) \/ EditExporter(o, s) \/ DeleteExporter(o)
      PROVE  UNCHANGED module
  BY <1>7 DEF CreateExporter, EditExporter, DeleteExporter
<1>8. ASSUME NEW o \in Exporters, DeleteConfigMap(o) \/ \E n \in Names : EditConfigMap(o, n)
      PROVE  UNCHANGED module
  BY <1>8 DEF EditConfigMap, DeleteConfigMap
<1>9. CASE Environment
  BY <1>9 DEF Environment, Resync, Restart, CollectGarbage, DeliverExporter, DeliverModule,
              DeliverConfigMap, objects
<1>10. CASE ReconcileExporter
  BY <1>10 DEF ReconcileExporter, GetExporter, CollectModules, ReconcileConfigMap,
               ReconcileOwned, UpdateExporterStatus, objects
<1>11. CASE ReconcileModule
  BY <1>6, <1>11 DEF ReconcileModule, GetModule, ListExporters, TouchExporter, objects
<1>12. CASE Users
  BY <1>2, <1>3, <1>4, <1>5, <1>7, <1>8, <1>12, ContentAssumption DEF Users, ContentAssumption
<1> QED BY <1>1, <1>9, <1>10, <1>11, <1>12 DEF Next

\* ... and to a ConfigMap.
ConfigMapStepped(e) ==
  \/ configMap'[e] = configMap[e]
  \/ configMap'[e].rv = configMap[e].rv + 1 /\ e \in configMapEvents'

LEMMA ConfigMapStep ==
  ASSUME TypeOK, [Next]_vars, NEW e \in Exporters
  PROVE  ConfigMapStepped(e)
<1>0. /\ configMap \in [Exporters -> ConfigMapObject]
      /\ \A o \in Exporters : configMap[o] \in ConfigMapObject
  BY DEF TypeOK
<1>. UNCHANGED configMap => ConfigMapStepped(e)
  BY DEF ConfigMapStepped
<1>1. CASE UNCHANGED vars
  BY <1>1 DEF vars, objects
<1>2. ASSUME NEW o \in Exporters, NEW n \in Names, EditConfigMap(o, n) PROVE ConfigMapStepped(e)
  BY <1>2, <1>0 DEF ConfigMapStepped, EditConfigMap, WriteConfigMap, ConfigMapObject
<1>3. ASSUME NEW o \in Exporters, DeleteConfigMap(o) PROVE ConfigMapStepped(e)
  BY <1>3, <1>0 DEF ConfigMapStepped, DeleteConfigMap, WriteConfigMap, ConfigMapObject
<1>4. ASSUME NEW o \in Exporters, CollectGarbage(o) PROVE ConfigMapStepped(e)
  BY <1>4, <1>0 DEF ConfigMapStepped, CollectGarbage, WriteConfigMap, ConfigMapObject
<1>5. ASSUME NEW reply \in Replies, ReconcileConfigMap(reply) PROVE ConfigMapStepped(e)
  BY <1>5, <1>0 DEF ConfigMapStepped, ReconcileConfigMap, WriteConfigMap
<1>6. CASE Users
  BY <1>2, <1>3, <1>6 DEF Users, CreateExporter, EditExporter, DeleteExporter,
                          CreateModule, RelabelModule, EditModule, DeleteModule
<1>7. CASE Environment
  BY <1>4, <1>7 DEF Environment, Resync, Restart, DeliverExporter, DeliverModule,
                    DeliverConfigMap, objects
<1>8. CASE ReconcileExporter
  BY <1>5, <1>8 DEF ReconcileExporter, GetExporter, CollectModules, ReconcileOwned,
                    UpdateExporterStatus, objects
<1>9. CASE ReconcileModule
  BY <1>9 DEF ReconcileModule, GetModule, ListExporters, UpdateModuleStatus, TouchExporter, objects
<1> QED BY <1>1, <1>6, <1>7, <1>8, <1>9 DEF Next

-----------------------------------------------------------------------------
(* What a step does to the caches: nothing, and no event is forgotten, or  *)
(* it brings them up to date with an object it does not write.             *)

ExporterCacheStepped(e) ==
  \/ /\ exporterCache'[e] = exporterCache[e]
     /\ e \in exporterEvents => e \in exporterEvents'
  \/ /\ exporterCache'[e] = exporter[e] /\ exporter'[e] = exporter[e]
     /\ e \in exporterQueue' \/ xw' = Idle

ModuleCacheStepped(m) ==
  \/ /\ moduleCache'[m] = moduleCache[m]
     /\ m \in moduleEvents => m \in moduleEvents'
  \/ /\ moduleCache'[m] = module[m] /\ module'[m] = module[m]
     /\ m \in moduleQueue' \/ mw' = Idle

ConfigMapCacheStepped(e) ==
  \/ /\ configMapCache'[e] = configMapCache[e]
     /\ e \in configMapEvents => e \in configMapEvents'
  \/ configMapCache'[e] = configMap[e] /\ configMap'[e] = configMap[e]

LEMMA CacheStep ==
  ASSUME TypeOK, [Next]_vars
  PROVE  /\ \A e \in Exporters : ExporterCacheStepped(e) /\ ConfigMapCacheStepped(e)
         /\ \A m \in Modules : ModuleCacheStepped(m)
<1> DEFINE Stepped == /\ \A e \in Exporters : ExporterCacheStepped(e) /\ ConfigMapCacheStepped(e)
                      /\ \A m \in Modules : ModuleCacheStepped(m)
<1> USE DEF ExporterCacheStepped, ModuleCacheStepped, ConfigMapCacheStepped
<1>0. /\ exporterCache \in [Exporters -> ExporterObject]
      /\ moduleCache \in [Modules -> ModuleObject]
      /\ configMapCache \in [Exporters -> ConfigMapObject]
  BY DEF TypeOK
<1>1. /\ UNCHANGED caches
      /\ exporterEvents \subseteq exporterEvents'
      /\ moduleEvents \subseteq moduleEvents'
      /\ configMapEvents \subseteq configMapEvents'
      => Stepped
  BY DEF caches
<1>2. CASE UNCHANGED vars
  BY <1>1, <1>2 DEF vars, events
<1>3. CASE Users
  BY <1>1, <1>3 DEF Users, CreateExporter, EditExporter, DeleteExporter, CreateModule,
       RelabelModule, EditModule, DeleteModule, EditConfigMap, DeleteConfigMap,
       WriteExporter, WriteModule, WriteConfigMap
<1>4. CASE Resync
  BY <1>1, <1>4 DEF Resync, events
<1>5. CASE Restart
  BY <1>5 DEF Restart, objects
<1>6. ASSUME NEW o \in Exporters, CollectGarbage(o) PROVE Stepped
  BY <1>1, <1>6 DEF CollectGarbage, WriteConfigMap
<1>7. ASSUME NEW o \in Exporters, DeliverExporter(o) PROVE Stepped
  BY <1>7, <1>0 DEF DeliverExporter, objects
<1>8. ASSUME NEW o \in Exporters, DeliverConfigMap(o) PROVE Stepped
  BY <1>8, <1>0 DEF DeliverConfigMap, objects
<1>9. ASSUME NEW k \in Modules, DeliverModule(k) PROVE Stepped
  BY <1>9, <1>0 DEF DeliverModule, objects
<1>10. CASE ReconcileExporter
  BY <1>1, <1>10 DEF ReconcileExporter, GetExporter, CollectModules, ReconcileConfigMap,
       ReconcileOwned, UpdateExporterStatus, WriteExporter, WriteConfigMap, events
<1>11. CASE ReconcileModule
  BY <1>1, <1>11 DEF ReconcileModule, GetModule, ListExporters, UpdateModuleStatus,
       TouchExporter, WriteExporter, WriteModule, events
<1> QED
  BY <1>2, <1>3, <1>4, <1>5, <1>6, <1>7, <1>8, <1>9, <1>10, <1>11 DEF Next, Environment

-----------------------------------------------------------------------------
(* What a step does to a worker's key and object.                          *)

ExporterWorkerStepped ==
  \/ xw' = Idle
  \/ /\ xw.pc = "idle" /\ xw'.key \in Exporters
     /\ xw'.obj = exporterCache[xw'.key]
     /\ UNCHANGED <<exporter, exporterCache>>
  \/ /\ xw.pc # "idle" <=> xw'.pc # "idle"
     /\ xw.pc # "idle" => xw'.key = xw.key /\ xw'.obj = xw.obj
     /\ exporterQueue \subseteq exporterQueue'

LEMMA ExporterWorkerStep ==
  ASSUME TypeOK, [Next]_vars
  PROVE  ExporterWorkerStepped
<1>1. xw' = xw /\ exporterQueue \subseteq exporterQueue' => ExporterWorkerStepped
  BY DEF ExporterWorkerStepped
<1>2. CASE UNCHANGED vars
  BY <1>1, <1>2 DEF vars, workers, queues
<1>3. CASE Users
  BY <1>1, <1>3 DEF Users, CreateExporter, EditExporter, DeleteExporter, CreateModule,
       RelabelModule, EditModule, DeleteModule, EditConfigMap, DeleteConfigMap, workers, queues
<1>4. CASE Environment
  <2>1. CASE Restart
    BY <2>1 DEF Restart, ExporterWorkerStepped
  <2> QED
    BY <1>1, <1>4, <2>1 DEF Environment, Resync, CollectGarbage, DeliverExporter,
         DeliverModule, DeliverConfigMap, workers, queues
<1>5. ASSUME NEW e \in Exporters, GetExporter(e) PROVE ExporterWorkerStepped
  BY <1>5 DEF GetExporter, ExporterWorkerStepped, objects, caches
<1>6. ASSUME xw \in ExporterWork, NEW p \in {"config", "owned", "status"},
             NEW d, xw' = [xw EXCEPT !.pc = p] \/ xw' = [xw EXCEPT !.pc = p, !.data = d],
             UNCHANGED exporterQueue
      PROVE  ExporterWorkerStepped
  BY <1>6 DEF ExporterWork, ExporterWorkerStepped
<1>7. CASE CollectModules
  BY <1>6, <1>7, Working DEF CollectModules, RequeueExporter, ExporterWorkerStepped
<1>8. ASSUME NEW reply \in Replies, ReconcileConfigMap(reply) PROVE ExporterWorkerStepped
  BY <1>6, <1>8, Working DEF ReconcileConfigMap, RequeueExporter, ExporterWorkerStepped
<1>9. ASSUME NEW ok \in BOOLEAN, ReconcileOwned(ok) PROVE ExporterWorkerStepped
  BY <1>6, <1>9, Working DEF ReconcileOwned, RequeueExporter, ExporterWorkerStepped
<1>10. ASSUME NEW reply \in Replies, UpdateExporterStatus(reply) PROVE ExporterWorkerStepped
  BY <1>10 DEF UpdateExporterStatus, RequeueExporter, ExporterWorkerStepped
<1>11. CASE ReconcileModule
  BY <1>1, <1>11 DEF ReconcileModule, GetModule, ListExporters, UpdateModuleStatus,
       TouchExporter, queues
<1> QED
  BY <1>2, <1>3, <1>4, <1>5, <1>7, <1>8, <1>9, <1>10, <1>11 DEF Next, ReconcileExporter

ModuleWorkerStarted ==
  /\ mw.pc = "idle" /\ mw'.pc = "list"
  /\ mw'.key \in Modules /\ mw'.obj = moduleCache[mw'.key]
  /\ UNCHANGED <<module, moduleCache>>

ModuleWorkerContinued ==
  /\ mw.pc \in {"list", "status"} <=> mw'.pc \in {"list", "status"}
  /\ mw.pc = "touch" <=> mw'.pc = "touch"
  /\ mw'.pc = "status" => mw.pc = "status" \/ ConvertModule[mw.obj.body] # ConvertPanic
  /\ mw.pc # "idle" => mw'.key = mw.key /\ mw'.obj = mw.obj
  /\ moduleQueue \subseteq moduleQueue'

ModuleWorkerReported ==
  /\ mw.pc = "status" /\ mw'.pc = "touch"
  /\ mw'.key = mw.key /\ mw'.obj = module'[mw.key]
  /\ Current(module[mw.key], mw.obj)
  /\ SameContent(module'[mw.key], module[mw.key])
  /\ UNCHANGED moduleCache

ModuleWorkerStepped ==
  mw' = Idle \/ ModuleWorkerStarted \/ ModuleWorkerContinued \/ ModuleWorkerReported

LEMMA ModuleWorkerStep ==
  ASSUME TypeOK, [Next]_vars
  PROVE  ModuleWorkerStepped
<1>1. mw' = mw /\ moduleQueue \subseteq moduleQueue' => ModuleWorkerStepped
  BY DEF ModuleWorkerStepped, ModuleWorkerContinued
<1>2. CASE UNCHANGED vars
  BY <1>1, <1>2 DEF vars, workers, queues
<1>3. CASE Users
  BY <1>1, <1>3 DEF Users, CreateExporter, EditExporter, DeleteExporter, CreateModule,
       RelabelModule, EditModule, DeleteModule, EditConfigMap, DeleteConfigMap, workers, queues
<1>4. CASE Environment
  <2>1. CASE Restart
    BY <2>1 DEF Restart, ModuleWorkerStepped
  <2> QED
    BY <1>1, <1>4, <2>1 DEF Environment, Resync, CollectGarbage, DeliverExporter,
         DeliverModule, DeliverConfigMap, workers, queues
<1>5. CASE ReconcileExporter
  BY <1>1, <1>5 DEF ReconcileExporter, GetExporter, CollectModules, ReconcileConfigMap,
       ReconcileOwned, UpdateExporterStatus
<1>6. ASSUME NEW m \in Modules, GetModule(m) PROVE ModuleWorkerStepped
  BY <1>6 DEF GetModule, ModuleWorkerStepped, ModuleWorkerStarted, objects, caches
<1>7. CASE ListExporters
  <2>1. mw \in ModuleWork
    BY <1>7, Working DEF ListExporters
  <2>2. CASE RequeueModule
    BY <2>2 DEF RequeueModule, ModuleWorkerStepped
  <2>3. ASSUME NEW s, NEW t, mw' = [mw EXCEPT !.pc = "status", !.refs = s, !.todo = t],
               ConvertModule[mw.obj.body] # ConvertPanic, UNCHANGED moduleQueue
        PROVE  ModuleWorkerStepped
    BY <1>7, <2>1, <2>3 DEF ListExporters, ModuleWork, ModuleWorkerStepped, ModuleWorkerContinued
  <2> QED BY <1>7, <2>2, <2>3 DEF ListExporters
<1>8. ASSUME NEW reply \in Replies, UpdateModuleStatus(reply) PROVE ModuleWorkerStepped
  <2>1. mw \in ModuleWork /\ mw.key \in Modules
    BY <1>8, Working, ModuleWorkBuilt DEF UpdateModuleStatus
  <2>2. CASE RequeueModule
    BY <2>2 DEF RequeueModule, ModuleWorkerStepped
  <2>3. CASE Current(module[mw.key], mw.obj) /\ mw' = Touching(module'[mw.key], mw.todo)
    <3>1. ModuleStepped(mw.key)
      BY <2>1, ModuleStep
    <3>2. edits' = edits /\ edits \in Nat
      BY <1>8 DEF UpdateModuleStatus, history, TypeOK
    <3>3. SameContent(module'[mw.key], module[mw.key])
      BY <3>1, <3>2 DEF ModuleStepped, ModuleUserWrite, ModuleStatusWrite, SameContent
    <3> QED
      BY <1>8, <2>1, <2>3, <3>3 DEF Touching, ModuleWork, ModuleWorkerStepped,
           ModuleWorkerReported, UpdateModuleStatus, caches
  <2> QED BY <1>8, <2>2, <2>3 DEF UpdateModuleStatus
<1>9. ASSUME NEW e \in Exporters, NEW reply \in Replies, TouchExporter(e, reply)
      PROVE  ModuleWorkerStepped
  <2>1. mw \in ModuleWork
    BY <1>9, Working DEF TouchExporter
  <2> QED
    BY <1>9, <2>1 DEF TouchExporter, Touching, ModuleWork, ModuleWorkerStepped,
         ModuleWorkerContinued, queues
<1> QED
  BY <1>2, <1>3, <1>4, <1>5, <1>6, <1>7, <1>8, <1>9 DEF Next, ReconcileModule

-----------------------------------------------------------------------------
(* Caches and versions.                                                    *)

Versions ==
  CachesOlder /\ CachesCurrent /\ ExporterWorkerVersion /\ ModuleWorkerVersion /\ TouchVersion

\* Every object has a version, and users' edits are counted.
LEMMA VersionType ==
  ASSUME TypeOK
  PROVE  /\ edits \in Nat
         /\ \A e \in Exporters : /\ exporter[e].rv \in Nat /\ exporterCache[e].rv \in Nat
                                 /\ exporter[e].touch \in SUBSET (Modules \X Nat)
         /\ \A m \in Modules : /\ module[m].rv \in Nat /\ moduleCache[m].rv \in Nat
                               /\ module[m].gen \in Nat /\ module[m].observed \in Nat
         /\ xw.pc # "idle" => xw.key \in Exporters /\ xw.obj.rv \in Nat
         /\ mw.pc # "idle" => mw.key \in Modules /\ mw.obj.rv \in Nat /\ mw.obj \in ModuleObject
<1>1. /\ \A e \in Exporters : exporter[e] \in ExporterObject /\ exporterCache[e] \in ExporterObject
      /\ \A m \in Modules : module[m] \in ModuleObject /\ moduleCache[m] \in ModuleObject
      /\ edits \in Nat
  BY DEF TypeOK
<1>2. /\ \A x \in ExporterObject : x.rv \in Nat /\ x.touch \in SUBSET (Modules \X Nat)
      /\ \A x \in ModuleObject : x.rv \in Nat /\ x.gen \in Nat /\ x.observed \in Nat
  BY DEF ExporterObject, ModuleObject
<1>3. xw.pc # "idle" => xw.key \in Exporters /\ xw.obj \in ExporterObject
  BY Working, ExporterWorkBuilt
<1>4. mw.pc # "idle" => mw.key \in Modules /\ mw.obj \in ModuleObject
  BY Working, ModuleWorkBuilt
<1> QED BY <1>1, <1>2, <1>3, <1>4

LEMMA CachesNext ==
  ASSUME TypeOK, [Next]_vars, CachesOlder, CachesCurrent
  PROVE  CachesOlder' /\ CachesCurrent'
<1>1. ASSUME NEW e \in Exporters
      PROVE  /\ Older(exporterCache'[e], exporter'[e])
             /\ e \notin exporterEvents' => exporterCache'[e] = exporter'[e]
  <2>1. ExporterStepped(e) /\ ExporterCacheStepped(e)
    BY ExporterStep, CacheStep
  <2> QED BY <2>1, VersionType DEF ExporterStepped, ExporterCacheStepped, CachesOlder, CachesCurrent, Older
<1>2. ASSUME NEW m \in Modules
      PROVE  /\ Older(moduleCache'[m], module'[m])
             /\ m \notin moduleEvents' => moduleCache'[m] = module'[m]
  <2>1. ModuleStepped(m) /\ ModuleCacheStepped(m)
    BY ModuleStep, CacheStep
  <2> QED BY <2>1, VersionType DEF ModuleStepped, ModuleCacheStepped, CachesOlder, CachesCurrent, Older
<1>3. ASSUME NEW e \in Exporters
      PROVE  e \notin configMapEvents' => configMapCache'[e] = configMap'[e]
  <2>1. ConfigMapStepped(e) /\ ConfigMapCacheStepped(e)
    BY ConfigMapStep, CacheStep
  <2> QED BY <2>1 DEF ConfigMapStepped, ConfigMapCacheStepped, CachesCurrent
<1> QED BY <1>1, <1>2, <1>3 DEF CachesOlder, CachesCurrent

LEMMA ExporterWorkerVersionNext ==
  ASSUME TypeOK, [Next]_vars, CachesOlder, ExporterWorkerVersion
  PROVE  ExporterWorkerVersion'
<1> SUFFICES ASSUME xw'.pc # "idle"
             PROVE  /\ Older(xw'.obj, exporter'[xw'.key])
                    /\ xw'.key \notin exporterQueue' => xw'.obj = exporterCache'[xw'.key]
  BY DEF ExporterWorkerVersion
<1>1. xw' # Idle
  BY DEF Idle
<1>2. CASE /\ xw.pc = "idle" /\ xw'.key \in Exporters
           /\ xw'.obj = exporterCache[xw'.key]
           /\ UNCHANGED <<exporter, exporterCache>>
  BY <1>2 DEF CachesOlder
<1>3. CASE /\ xw.pc # "idle" /\ xw'.key = xw.key /\ xw'.obj = xw.obj
           /\ exporterQueue \subseteq exporterQueue'
  <2>1. xw.key \in Exporters
    BY <1>3, VersionType
  <2>2. ExporterStepped(xw.key) /\ ExporterCacheStepped(xw.key)
    BY <2>1, ExporterStep, CacheStep
  <2>3. Older(xw.obj, exporter'[xw.key])
    BY <1>3, <2>1, <2>2, VersionType DEF ExporterWorkerVersion, Older, ExporterStepped
  <2>4. xw.key \notin exporterQueue' => xw.obj = exporterCache'[xw.key]
    BY <1>1, <1>3, <2>2 DEF ExporterWorkerVersion, ExporterCacheStepped, Older, ExporterStepped
  <2> QED BY <1>3, <2>3, <2>4
<1> QED BY <1>1, <1>2, <1>3, ExporterWorkerStep DEF ExporterWorkerStepped

LEMMA ModuleWorkerVersionNext ==
  ASSUME TypeOK, [Next]_vars, CachesOlder, CachesCurrent, ModuleWorkerVersion
  PROVE  ModuleWorkerVersion'
<1> SUFFICES ASSUME mw' # Idle PROVE ModuleWorkerVersion'
  BY DEF ModuleWorkerVersion, Idle
<1>1. CASE ModuleWorkerStarted
  BY <1>1, CachesNext, VersionType DEF ModuleWorkerStarted, ModuleWorkerVersion, CachesOlder, Older
<1>2. CASE ModuleWorkerContinued /\ mw.pc \in {"list", "status"}
  <2> DEFINE m == mw.key
  <2>1. m \in Modules /\ mw'.key = m /\ mw'.obj = mw.obj /\ mw'.pc \in {"list", "status"}
    BY <1>2, VersionType DEF ModuleWorkerContinued
  <2>2. ModuleStepped(m) /\ ModuleCacheStepped(m)
    BY <2>1, ModuleStep, CacheStep
  <2>3. Older(mw.obj, module'[m])
    BY <1>2, <2>1, <2>2, VersionType DEF ModuleWorkerVersion, Older, ModuleStepped
  <2>4. mw.obj.rv <= moduleCache'[m].rv
    BY <1>2, <2>1, <2>2, VersionType DEF ModuleWorkerVersion, Older, ModuleCacheStepped
  <2>5. m \notin moduleQueue' => mw.obj = moduleCache'[m]
    BY <1>2, <2>2 DEF ModuleWorkerVersion, ModuleCacheStepped, ModuleWorkerContinued
  <2> QED BY <2>1, <2>3, <2>4, <2>5 DEF ModuleWorkerVersion
<1>3. CASE ModuleWorkerContinued /\ mw.pc = "touch"
  <2> DEFINE m == mw.key
  <2>1. m \in Modules /\ mw'.key = m /\ mw'.obj = mw.obj /\ mw'.pc = "touch"
    BY <1>3, VersionType DEF ModuleWorkerContinued
  <2>2. ModuleStepped(m) /\ ModuleCacheStepped(m)
    BY <2>1, ModuleStep, CacheStep
  <2>3. mw.obj.rv <= module'[m].rv
    BY <1>3, <2>1, <2>2, VersionType DEF ModuleWorkerVersion, ModuleStepped
  <2>4. ~ ModulePending(m)' => mw.obj.rv = module'[m].rv
    BY <1>3, <2>2 DEF ModuleWorkerVersion, ModulePending, ModuleStepped, ModuleCacheStepped,
                      ModuleWorkerContinued
  <2>5. mw.obj.rv = module'[m].rv => SameContent(moduleCache'[m], module'[m])
    BY <1>3, <2>1, <2>2, VersionType
    DEF ModuleWorkerVersion, ModuleStepped, ModuleCacheStepped, SameContent
  <2> QED BY <2>1, <2>3, <2>4, <2>5 DEF ModuleWorkerVersion, ModulePending
<1>4. CASE ModuleWorkerReported
  <2> DEFINE m == mw.key
  <2>1. m \in Modules
    BY <1>4, VersionType DEF ModuleWorkerReported
  <2>2. moduleCache[m] = module[m]
    BY <1>4, <2>1, VersionType
    DEF ModuleWorkerReported, ModuleWorkerVersion, CachesOlder, Older, Current
  <2>3. SameContent(moduleCache'[m], module'[m])
    BY <1>4, <2>1, <2>2 DEF ModuleWorkerReported, SameContent
  <2>4. module'[m].rv \in Nat
    BY <2>1, TypeNext DEF TypeOK, ModuleObject
  <2> QED BY <1>4, <2>3, <2>4 DEF ModuleWorkerReported, ModuleWorkerVersion
<1>5. CASE ModuleWorkerContinued /\ mw.pc = "idle"
  BY <1>5 DEF ModuleWorkerContinued, ModuleWorkerVersion
<1> QED
  <2>1. mw.pc \in {"idle", "list", "status", "touch"}
    BY Working DEF ModuleWork
  <2> QED BY <1>1, <1>2, <1>3, <1>4, <1>5, <2>1, ModuleWorkerStep DEF ModuleWorkerStepped

LEMMA TouchVersionNext ==
  ASSUME TypeOK, [Next]_vars, CachesOlder, ModuleWorkerVersion, TouchVersion
  PROVE  TouchVersion'
<1> SUFFICES ASSUME NEW e \in Exporters, NEW t \in exporter'[e].touch
             PROVE  /\ t[2] <= module'[t[1]].rv
                    /\ t[2] = module'[t[1]].rv => SameContent(moduleCache'[t[1]], module'[t[1]])
  BY DEF TouchVersion
<1>1. /\ t[1] \in Modules /\ t[2] \in Nat
      /\ t[2] <= module[t[1]].rv
      /\ t[2] = module[t[1]].rv => SameContent(moduleCache[t[1]], module[t[1]])
  <2>1. ExporterStepped(e)
    BY ExporterStep
  <2>2. CASE t \in exporter[e].touch
    BY <2>2, VersionType DEF TouchVersion
  <2>3. CASE mw.pc = "touch" /\ t = <<mw.key, mw.obj.rv>>
    BY <2>3, VersionType DEF ModuleWorkerVersion
  <2> QED
    BY <2>1, <2>2, <2>3
    DEF ExporterStepped, ExporterUserWrite, ExporterStatusWrite, ExporterTouchWrite
<1>2. ModuleStepped(t[1]) /\ ModuleCacheStepped(t[1])
  BY <1>1, ModuleStep, CacheStep
<1> QED
  BY <1>1, <1>2, VersionType DEF ModuleStepped, ModuleCacheStepped, SameContent

LEMMA VersionsInit == Init => Versions
<1> SUFFICES ASSUME Init PROVE Versions
  OBVIOUS
<1>1. TypeOK
  BY TypeInit
<1>2. \A e \in Exporters : exporter[e].touch = {}
  BY DEF Init
<1>3. TouchVersion
  BY <1>2 DEF TouchVersion
<1> QED
  BY <1>1, <1>3, VersionType
  DEF Init, Versions, CachesOlder, CachesCurrent, Older, ExporterWorkerVersion,
      ModuleWorkerVersion, Idle

LEMMA VersionsNext == TypeOK /\ Versions /\ [Next]_vars => Versions'
BY CachesNext, ExporterWorkerVersionNext, ModuleWorkerVersionNext, TouchVersionNext DEF Versions

-----------------------------------------------------------------------------
(* Verdicts, users' intent and honest status.                              *)

Verdicts == ObservedBounded /\ JudgedConverted /\ VerdictCurrent

LEMMA VerdictsInit == Init => Verdicts
<1> SUFFICES ASSUME Init, NEW m \in Modules
             PROVE  /\ module[m].observed = 0 /\ module[m].gen = 1
                    /\ mw.pc = "idle"
  BY DEF Verdicts, ObservedBounded, JudgedConverted, VerdictCurrent, Init, Idle
<1> QED BY DEF Init, Idle

\* A worker goes on to report only on a module it could convert.
LEMMA JudgedConvertedNext ==
  ASSUME TypeOK, JudgedConverted, [Next]_vars
  PROVE  JudgedConverted'
<1>1. mw' # Idle /\ ~ ModuleWorkerStarted /\ ~ ModuleWorkerReported => ModuleWorkerContinued
  BY ModuleWorkerStep DEF ModuleWorkerStepped
<1>2. mw'.pc = "status" => mw' # Idle /\ ~ ModuleWorkerStarted /\ ~ ModuleWorkerReported
  BY DEF Idle, ModuleWorkerStarted, ModuleWorkerReported
<1>3. mw'.pc = "status" /\ ModuleWorkerContinued => mw.pc # "idle"
  BY DEF ModuleWorkerContinued
<1> QED BY <1>1, <1>2, <1>3 DEF JudgedConverted, ModuleWorkerContinued

LEMMA VerdictsNext == TypeOK /\ Versions /\ Verdicts /\ [Next]_vars => Verdicts'
<1> SUFFICES ASSUME TypeOK, Versions, Verdicts, [Next]_vars, NEW m \in Modules
             PROVE  /\ module'[m].observed <= module'[m].gen
                    /\ module'[m].live /\ module'[m].observed = module'[m].gen =>
                         /\ module'[m].valid <=> ConvertModule[module'[m].body] \in Entries
                         /\ ConvertModule[module'[m].body] # ConvertPanic
  BY JudgedConvertedNext DEF Verdicts, ObservedBounded, VerdictCurrent
<1>1. ModuleStepped(m) /\ TypeOK'
  BY ModuleStep, TypeNext
<1>2. /\ module[m].observed <= module[m].gen
      /\ module[m].live /\ module[m].observed = module[m].gen =>
           /\ module[m].valid <=> ConvertModule[module[m].body] \in Entries
           /\ ConvertModule[module[m].body] # ConvertPanic
  BY DEF Verdicts, ObservedBounded, VerdictCurrent
<1>3. CASE module'[m] = module[m]
  BY <1>2, <1>3
<1>4. CASE ModuleUserWrite(m)
  <2>1. CASE module'[m].observed = 0 /\ module'[m].gen = 1
    BY <2>1
  <2> QED BY <1>2, <1>4, <2>1, VersionType DEF ModuleUserWrite
<1>5. CASE ModuleStatusWrite(m)
  <2>1. mw.obj = module[m]
    BY <1>5 DEF ModuleStatusWrite, Current, Versions, ModuleWorkerVersion, Older
  <2>2. module'[m].observed = module'[m].gen /\ module'[m].body = module[m].body
    BY <1>5, <2>1 DEF ModuleStatusWrite, SameContent
  <2>3. module'[m].gen \in Nat
    BY <1>1 DEF TypeOK, ModuleObject
  <2>4. ConvertModule[module'[m].body] # ConvertPanic
    BY <1>5, <2>1, <2>2 DEF ModuleStatusWrite, Verdicts, JudgedConverted
  <2> QED BY <1>5, <2>1, <2>2, <2>3, <2>4 DEF ModuleStatusWrite
<1> QED BY <1>1, <1>3, <1>4, <1>5 DEF ModuleStepped

\* A verdict is never left over from an older spec, and none is given on a
\* module whose conversion panics.
THEOREM VerdictsCurrent == Spec => []VerdictCurrent
<1>1. Init => TypeOK /\ Versions /\ Verdicts
  BY TypeInit, VersionsInit, VerdictsInit
<1>2. TypeOK /\ Versions /\ Verdicts /\ [Next]_vars => (TypeOK /\ Versions /\ Verdicts)'
  BY TypeNext, VersionsNext, VerdictsNext
<1>3. Verdicts => VerdictCurrent
  BY DEF Verdicts
<1> QED BY <1>1, <1>2, <1>3, PTL DEF Spec

\* What a step changes of an exporter's spec, and of any observedGeneration,
\* is what the properties allow.
LEMMA IntentStep ==
  TypeOK /\ Versions /\ [Next]_vars =>
    \A e \in Exporters : exporter'[e].spec # exporter[e].spec => edits' = edits + 1
<1> SUFFICES ASSUME TypeOK, Versions, [Next]_vars, NEW e \in Exporters,
                    exporter'[e].spec # exporter[e].spec
             PROVE  edits' = edits + 1
  OBVIOUS
<1>1. ExporterStepped(e)
  BY ExporterStep
<1>2. ~ ExporterTouchWrite(e)
  BY DEF ExporterTouchWrite, Current, Versions, CachesOlder, Older
<1> QED BY <1>1, <1>2 DEF ExporterStepped, ExporterUserWrite, ExporterStatusWrite

LEMMA ReportStep ==
  TypeOK /\ Versions /\ [Next]_vars =>
    /\ \A e \in Exporters :
         exporter'[e].observed # exporter[e].observed /\ edits' = edits
           => exporter'[e].observed = exporter'[e].gen
    /\ \A m \in Modules :
         module'[m].observed # module[m].observed /\ edits' = edits
           => module'[m].observed = module'[m].gen
<1> SUFFICES ASSUME TypeOK, Versions, [Next]_vars, edits' = edits
             PROVE  /\ \A e \in Exporters :
                         exporter'[e].observed # exporter[e].observed
                           => exporter'[e].observed = exporter'[e].gen
                    /\ \A m \in Modules :
                         module'[m].observed # module[m].observed
                           => module'[m].observed = module'[m].gen
  OBVIOUS
<1>1. edits' # edits + 1
  BY VersionType
<1>2. ASSUME NEW e \in Exporters, exporter'[e].observed # exporter[e].observed
      PROVE  exporter'[e].observed = exporter'[e].gen
  <2>1. ExporterStatusWrite(e)
    BY <1>1, <1>2, ExporterStep DEF ExporterStepped, ExporterUserWrite, ExporterTouchWrite
  <2>2. xw.obj = exporter[e]
    BY <2>1 DEF ExporterStatusWrite, Current, Versions, ExporterWorkerVersion, Older
  <2> QED BY <2>1, <2>2 DEF ExporterStatusWrite
<1>3. ASSUME NEW m \in Modules, module'[m].observed # module[m].observed
      PROVE  module'[m].observed = module'[m].gen
  <2>1. ModuleStatusWrite(m)
    BY <1>1, <1>3, ModuleStep DEF ModuleStepped, ModuleUserWrite
  <2>2. mw.obj = module[m]
    BY <2>1 DEF ModuleStatusWrite, Current, Versions, ModuleWorkerVersion, Older
  <2> QED BY <2>1, <2>2 DEF ModuleStatusWrite
<1> QED BY <1>2, <1>3

\* The module controller writes back exporters it read from a cache; no such
\* write ever undoes an edit of a user, at any number of exporters, modules
\* and edits.
THEOREM IntentKept == Spec => UserIntentKept
<1>1. Init => TypeOK /\ Versions
  BY TypeInit, VersionsInit
<1>2. TypeOK /\ Versions /\ [Next]_vars => (TypeOK /\ Versions)'
  BY TypeNext, VersionsNext
<1>3. TypeOK /\ Versions /\ [Next]_vars =>
        [\A e \in Exporters : exporter'[e].spec # exporter[e].spec => edits' = edits + 1]_vars
  BY IntentStep
<1> QED BY <1>1, <1>2, <1>3, PTL DEF Spec, UserIntentKept

\* A status written by either controller is about the generation the object
\* has when it is written.
THEOREM StatusHonest == Spec => StatusForCurrent
<1>1. Init => TypeOK /\ Versions
  BY TypeInit, VersionsInit
<1>2. TypeOK /\ Versions /\ [Next]_vars => (TypeOK /\ Versions)'
  BY TypeNext, VersionsNext
<1>3. TypeOK /\ Versions /\ [Next]_vars =>
        [/\ \A e \in Exporters :
              exporter'[e].observed # exporter[e].observed /\ edits' = edits
                => exporter'[e].observed = exporter'[e].gen
         /\ \A m \in Modules :
              module'[m].observed # module[m].observed /\ edits' = edits
                => module'[m].observed = module'[m].gen]_vars
  BY ReportStep
<1> QED BY <1>1, <1>2, <1>3, PTL DEF Spec, StatusForCurrent

-----------------------------------------------------------------------------
(* A key that is pending stays so until its worker takes it.               *)

LEMMA ExporterPendingStep ==
  ASSUME TypeOK, Versions, [Next]_vars, NEW e \in Exporters, ExporterPending(e)
  PROVE  ExporterPending(e)' \/ ExporterAt(e, {"collect"})' \/ ~ exporter'[e].live
<1> DEFINE Goal == ExporterPending(e)' \/ ExporterAt(e, {"collect"})' \/ ~ exporter'[e].live
<1>1. /\ exporterEvents \subseteq exporterEvents'
      /\ configMapEvents \subseteq configMapEvents'
      /\ exporterQueue \subseteq exporterQueue'
      => Goal
  BY DEF ExporterPending
<1>2. CASE UNCHANGED vars
  BY <1>1, <1>2 DEF vars, events, queues
<1>3. CASE Users
  BY <1>1, <1>3 DEF Users, CreateExporter, EditExporter, DeleteExporter, CreateModule,
       RelabelModule, EditModule, DeleteModule, EditConfigMap, DeleteConfigMap,
       WriteExporter, WriteModule, WriteConfigMap, queues
<1>4. CASE Resync
  BY <1>1, <1>4 DEF Resync, events
<1>5. CASE Restart
  BY <1>5 DEF Restart, ExporterPending, objects
<1>6. ASSUME NEW o \in Exporters, CollectGarbage(o) PROVE Goal
  BY <1>1, <1>6 DEF CollectGarbage, WriteConfigMap, queues
<1>7. ASSUME NEW o \in Exporters, DeliverExporter(o) \/ DeliverConfigMap(o) PROVE Goal
  BY <1>7 DEF DeliverExporter, DeliverConfigMap, ExporterPending
<1>8. ASSUME NEW k \in Modules, DeliverModule(k) PROVE Goal
  BY <1>1, <1>8 DEF DeliverModule
<1>9. ASSUME NEW o \in Exporters, GetExporter(o) PROVE Goal
  <2>1. CASE o # e
    BY <1>9, <2>1 DEF GetExporter, ExporterPending, events
  <2>2. CASE o = e /\ exporterCache[e].live
    BY <1>9, <2>2 DEF GetExporter, ExporterAt
  <2>3. CASE o = e /\ ~ exporterCache[e].live
    BY <1>9, <2>3 DEF GetExporter, ExporterPending, events, objects, Versions, CachesCurrent
  <2> QED BY <2>1, <2>2, <2>3
<1>10. CASE CollectModules \/ (\E reply \in Replies : ReconcileConfigMap(reply))
            \/ (\E ok \in BOOLEAN : ReconcileOwned(ok))
            \/ (\E reply \in Replies : UpdateExporterStatus(reply))
  BY <1>1, <1>10 DEF CollectModules, ReconcileConfigMap, ReconcileOwned, UpdateExporterStatus,
       RequeueExporter, WriteExporter, WriteConfigMap, events
<1>11. CASE ReconcileModule
  BY <1>1, <1>11 DEF ReconcileModule, GetModule, ListExporters, UpdateModuleStatus,
       TouchExporter, WriteExporter, WriteModule, events, queues
<1> QED
  BY <1>2, <1>3, <1>4, <1>5, <1>6, <1>7, <1>8, <1>9, <1>10, <1>11
  DEF Next, Environment, ReconcileExporter

LEMMA ModulePendingStep ==
  ASSUME TypeOK, Versions, [Next]_vars, NEW m \in Modules, ModulePending(m)
  PROVE  ModulePending(m)' \/ ModuleAt(m, {"list"})' \/ ~ module'[m].live
<1> DEFINE Goal == ModulePending(m)' \/ ModuleAt(m, {"list"})' \/ ~ module'[m].live
<1>1. moduleEvents \subseteq moduleEvents' /\ moduleQueue \subseteq moduleQueue' => Goal
  BY DEF ModulePending
<1>2. CASE UNCHANGED vars
  BY <1>1, <1>2 DEF vars, events, queues
<1>3. CASE Users
  BY <1>1, <1>3 DEF Users, CreateExporter, EditExporter, DeleteExporter, CreateModule,
       RelabelModule, EditModule, DeleteModule, EditConfigMap, DeleteConfigMap,
       WriteExporter, WriteModule, WriteConfigMap, queues
<1>4. CASE Resync
  BY <1>1, <1>4 DEF Resync, events
<1>5. CASE Restart
  BY <1>5 DEF Restart, ModulePending, objects
<1>6. ASSUME NEW o \in Exporters, CollectGarbage(o) \/ DeliverExporter(o) \/ DeliverConfigMap(o)
      PROVE  Goal
  BY <1>1, <1>6 DEF CollectGarbage, DeliverExporter, DeliverConfigMap, WriteConfigMap, queues
<1>7. ASSUME NEW k \in Modules, DeliverModule(k) PROVE Goal
  BY <1>7 DEF DeliverModule, ModulePending
<1>8. CASE ReconcileExporter
  BY <1>1, <1>8 DEF ReconcileExporter, GetExporter, CollectModules, ReconcileConfigMap,
       ReconcileOwned, UpdateExporterStatus, WriteExporter, WriteConfigMap, events
<1>9. ASSUME NEW k \in Modules, GetModule(k) PROVE Goal
  <2>1. CASE k # m
    BY <1>9, <2>1 DEF GetModule, ModulePending, events
  <2>2. CASE k = m /\ moduleCache[m].live
    BY <1>9, <2>2 DEF GetModule, ModuleAt
  <2>3. CASE k = m /\ ~ moduleCache[m].live
    BY <1>9, <2>3 DEF GetModule, ModulePending, events, objects, Versions, CachesCurrent
  <2> QED BY <2>1, <2>2, <2>3
<1>10. CASE ListExporters \/ (\E reply \in Replies : UpdateModuleStatus(reply))
            \/ (\E e \in Exporters, reply \in Replies : TouchExporter(e, reply))
  BY <1>1, <1>10 DEF ListExporters, UpdateModuleStatus, TouchExporter, RequeueModule,
       WriteExporter, WriteModule, events, queues
<1> QED
  BY <1>2, <1>3, <1>4, <1>5, <1>6, <1>7, <1>8, <1>9, <1>10
  DEF Next, Environment, ReconcileModule

-----------------------------------------------------------------------------
(* How the exporter worker proceeds while no new reconcile becomes due.    *)

Places == {"collect", "config", "owned", "status"}

Rendering(e) ==
  /\ xw.pc = "collect" /\ xw'.pc = "config"
  /\ xw.key = e /\ xw'.key = e
  /\ xw'.data \in Renderings(e, xw.obj)
  /\ UNCHANGED <<module, moduleCache, moduleQueue, moduleEvents, mw>>

FoundUpToDate(e) ==
  /\ xw.pc = "config" /\ xw'.pc = "owned"
  /\ xw.key = e /\ xw'.key = e /\ xw'.data = xw.data
  /\ ConfigMapUpToDate

OwnedDone(e) ==
  /\ xw.pc = "owned" /\ xw'.pc = "status"
  /\ xw.key = e /\ xw'.key = e /\ xw'.data = xw.data

FoundReported(e) ==
  /\ xw.pc = "status" /\ xw.key = e /\ xw' = Idle
  /\ xw.obj.moduleCount = Cardinality(Rendered(xw.data))
  /\ xw.obj.observed = xw.obj.gen

ExporterProgressed(e) ==
  \/ xw' = xw
  \/ ~ ExporterAt(e, Places) /\ ~ ExporterAt(e, Places)'
  \/ ExporterAt(e, {"collect"})'
  \/ Rendering(e) \/ FoundUpToDate(e) \/ OwnedDone(e) \/ FoundReported(e)

LEMMA ExporterProgress ==
  ASSUME TypeOK, [Next]_vars, NEW e \in Exporters, ~ ExporterPending(e)', exporter'[e].live
  PROVE  ExporterProgressed(e)
<1>1. CASE xw' = xw
  BY <1>1 DEF ExporterProgressed
<1>2. CASE UNCHANGED vars
  BY <1>1, <1>2 DEF vars, workers
<1>3. CASE Users
  BY <1>1, <1>3 DEF Users, CreateExporter, EditExporter, DeleteExporter, CreateModule,
       RelabelModule, EditModule, DeleteModule, EditConfigMap, DeleteConfigMap, workers
<1>4. CASE Environment
  <2>1. ~ Restart
    BY DEF Restart, ExporterPending, objects
  <2> QED
    BY <1>1, <1>4, <2>1 DEF Environment, Resync, CollectGarbage, DeliverExporter,
         DeliverModule, DeliverConfigMap, workers
<1>5. ASSUME NEW o \in Exporters, GetExporter(o) PROVE ExporterProgressed(e)
  <2>1. xw.pc = "idle"
    BY <1>5 DEF GetExporter
  <2>2. ~ ExporterAt(e, Places)
    BY <2>1 DEF ExporterAt, Places
  <2>3. xw' = Idle \/ (xw'.pc = "collect" /\ xw'.key = o)
    BY <1>5 DEF GetExporter
  <2> QED BY <2>2, <2>3 DEF ExporterProgressed, ExporterAt, Places, Idle
<1>6. ASSUME RequeueExporter, xw \in ExporterWork PROVE ExporterProgressed(e)
  <2>1. xw.key # e
    BY <1>6 DEF RequeueExporter, ExporterPending
  <2> QED BY <1>6, <2>1 DEF RequeueExporter, ExporterProgressed, ExporterAt, Idle, Places
<1>7. ASSUME xw \in ExporterWork, xw.key # e, NEW p \in Places, NEW d,
             xw' = [xw EXCEPT !.pc = p] \/ xw' = [xw EXCEPT !.pc = p, !.data = d]
      PROVE  ExporterProgressed(e)
  BY <1>7 DEF ExporterProgressed, ExporterWork, ExporterAt, Places
<1>8. CASE CollectModules
  <2>1. xw \in ExporterWork
    BY <1>8, Working DEF CollectModules
  <2>2. ASSUME NEW d \in Renderings(xw.key, xw.obj), xw.key = e,
               xw' = [xw EXCEPT !.pc = "config", !.data = d]
        PROVE  Rendering(e)
    BY <1>8, <2>1, <2>2 DEF CollectModules, Rendering, ExporterWork, objects, caches, events
  <2> QED BY <1>6, <1>7, <1>8, <2>1, <2>2 DEF CollectModules, ExporterProgressed, Places
<1>9. ASSUME NEW reply \in Replies, ReconcileConfigMap(reply) PROVE ExporterProgressed(e)
  <2>1. xw \in ExporterWork
    BY <1>9, Working DEF ReconcileConfigMap
  <2>2. CASE RequeueExporter
    BY <1>6, <2>1, <2>2
  <2>3. CASE xw' = [xw EXCEPT !.pc = "owned"] /\ xw.key # e
    BY <1>7, <2>1, <2>3 DEF Places
  <2>4. CASE xw' = [xw EXCEPT !.pc = "owned"] /\ xw.key = e
    <3>1. ~ (ConfigMapWritable /\ reply = "ok" /\ ~ ConfigMapUpToDate)
      BY <1>9, <2>4 DEF ReconcileConfigMap, WriteConfigMap, ExporterPending
    <3>2. ConfigMapUpToDate
      BY <1>9, <2>1, <2>4, <3>1 DEF ReconcileConfigMap, RequeueExporter, Idle, ExporterWork
    <3> QED BY <1>9, <2>1, <2>4, <3>2
            DEF ReconcileConfigMap, FoundUpToDate, ExporterProgressed, ExporterWork
  <2> QED BY <1>9, <2>2, <2>3, <2>4 DEF ReconcileConfigMap
<1>10. ASSUME NEW ok \in BOOLEAN, ReconcileOwned(ok) PROVE ExporterProgressed(e)
  <2>1. xw \in ExporterWork
    BY <1>10, Working DEF ReconcileOwned
  <2>2. xw' = [xw EXCEPT !.pc = "status"] /\ xw.key = e => OwnedDone(e)
    BY <1>10, <2>1 DEF ReconcileOwned, OwnedDone, ExporterWork
  <2> QED BY <1>6, <1>7, <1>10, <2>1, <2>2 DEF ReconcileOwned, ExporterProgressed, Places
<1>11. ASSUME NEW reply \in Replies, UpdateExporterStatus(reply) PROVE ExporterProgressed(e)
  <2>1. xw \in ExporterWork /\ xw.key \in Exporters /\ xw.obj \in ExporterObject
    BY <1>11, Working, ExporterWorkBuilt DEF UpdateExporterStatus
  <2> DEFINE obj == ExporterReport(xw.obj, xw.data)
  <2>2. CASE RequeueExporter
    BY <1>6, <2>1, <2>2
  <2>3. CASE xw' = Idle /\ xw.key # e
    BY <2>3 DEF ExporterProgressed, ExporterAt, Places, Idle
  <2>4. CASE Current(exporter[e], xw.obj) /\ reply = "ok" /\ xw.key = e
    <3>1. obj = xw.obj
      BY <1>11, <2>4 DEF UpdateExporterStatus, Changes, WriteExporter, ExporterPending
    <3>2. obj.moduleCount = Cardinality(Rendered(xw.data)) /\ obj.observed = xw.obj.gen
      BY <2>1 DEF ExporterReport, ExporterObject
    <3>3. xw' = Idle
      BY <1>11, <2>4 DEF UpdateExporterStatus
    <3> QED BY <1>11, <2>4, <3>1, <3>2, <3>3
            DEF UpdateExporterStatus, FoundReported, ExporterProgressed
  <2> QED BY <1>11, <2>2, <2>3, <2>4 DEF UpdateExporterStatus
<1>12. CASE ReconcileModule
  BY <1>1, <1>12 DEF ReconcileModule, GetModule, ListExporters, UpdateModuleStatus,
       TouchExporter
<1> QED
  BY <1>2, <1>3, <1>4, <1>5, <1>8, <1>9, <1>10, <1>11, <1>12 DEF Next, ReconcileExporter

\* While nothing becomes due for e, its objects and caches are what they were,
\* and nothing was due before, unless the worker has just taken the key.
LEMMA ExporterSteady ==
  ASSUME TypeOK, Versions, [Next]_vars, NEW e \in Exporters,
         ~ ExporterPending(e)', exporter'[e].live
  PROVE  /\ exporter'[e] = exporter[e]
         /\ configMap'[e] = configMap[e]
         /\ ~ ExporterAt(e, {"collect"})' =>
              /\ ~ ExporterPending(e)
              /\ exporterCache[e] = exporter[e] /\ configMapCache[e] = configMap[e]
              /\ ExporterAt(e, Places) => xw.obj = exporter[e]
<1>1. exporter'[e] = exporter[e]
  BY ExporterStep DEF ExporterStepped, ExporterPending
<1>2. configMap'[e] = configMap[e]
  BY ConfigMapStep DEF ConfigMapStepped, ExporterPending
<1>3. ASSUME ~ ExporterAt(e, {"collect"})' PROVE ~ ExporterPending(e)
  BY <1>3, ExporterPendingStep
<1>4. ASSUME ~ ExporterPending(e)
      PROVE  /\ exporterCache[e] = exporter[e] /\ configMapCache[e] = configMap[e]
             /\ ExporterAt(e, Places) => xw.obj = exporter[e]
  BY <1>4 DEF ExporterPending, Versions, CachesCurrent, ExporterWorkerVersion, ExporterAt, Places
<1> QED BY <1>1, <1>2, <1>3, <1>4

-----------------------------------------------------------------------------
(* Ownership and status.                                                   *)

ExporterTraced == OwnerTraced /\ DataTraced /\ ExporterStatusTraced

LEMMA ExporterTracedInit == Init => ExporterTraced
<1> SUFFICES ASSUME Init, NEW e \in Exporters
             PROVE  /\ exporter[e].live => ExporterPending(e)
                    /\ ~ ExporterAt(e, {"owned", "status"})
  BY DEF ExporterTraced, OwnerTraced, DataTraced, ExporterStatusTraced
<1> QED BY DEF Init, ExporterPending, ExporterAt, Idle

LEMMA ExporterTracedNext == TypeOK /\ Versions /\ ExporterTraced /\ [Next]_vars => ExporterTraced'
<1> SUFFICES ASSUME TypeOK, Versions, ExporterTraced, [Next]_vars, NEW e \in Exporters,
                    exporter'[e].live, ~ ExporterPending(e)'
             PROVE  /\ \/ ExporterAt(e, {"collect", "config"})'
                       \/ configMap'[e].live /\ configMap'[e].owner = exporter'[e].uid
                    /\ ExporterAt(e, {"owned", "status"})' => configMap'[e].data = xw'.data
                    /\ \/ ExporterAt(e, Places)'
                       \/ /\ exporter'[e].observed = exporter'[e].gen
                          /\ exporter'[e].moduleCount = Cardinality(Rendered(configMap'[e].data))
  BY DEF ExporterTraced, OwnerTraced, DataTraced, ExporterStatusTraced, Places
<1>1. CASE ExporterAt(e, {"collect"})'
  BY <1>1 DEF ExporterAt, Places
<1>2. CASE ~ ExporterAt(e, {"collect"})'
  <2>1. /\ exporter'[e] = exporter[e] /\ configMap'[e] = configMap[e]
        /\ ~ ExporterPending(e)
        /\ configMapCache[e] = configMap[e]
        /\ ExporterAt(e, Places) => xw.obj = exporter[e]
    BY <1>2, ExporterSteady
  <2>2. /\ \/ ExporterAt(e, {"collect", "config"})
           \/ configMap[e].live /\ configMap[e].owner = exporter[e].uid
        /\ ExporterAt(e, {"owned", "status"}) => configMap[e].data = xw.data
        /\ \/ ExporterAt(e, Places)
           \/ /\ exporter[e].observed = exporter[e].gen
              /\ exporter[e].moduleCount = Cardinality(Rendered(configMap[e].data))
    BY <2>1 DEF ExporterTraced, OwnerTraced, DataTraced, ExporterStatusTraced, Places
  <2>3. CASE xw' = xw
    BY <2>1, <2>2, <2>3 DEF ExporterAt
  <2>4. CASE ~ ExporterAt(e, Places) /\ ~ ExporterAt(e, Places)'
    BY <2>1, <2>2, <2>4 DEF ExporterAt, Places
  <2>5. CASE Rendering(e)
    BY <2>5 DEF Rendering, ExporterAt, Places
  <2>6. CASE FoundUpToDate(e)
    BY <2>1, <2>6 DEF FoundUpToDate, ConfigMapUpToDate, ExporterAt, Places
  <2>7. CASE OwnedDone(e)
    BY <2>1, <2>2, <2>7 DEF OwnedDone, ExporterAt, Places
  <2>8. CASE FoundReported(e)
    BY <2>1, <2>2, <2>8 DEF FoundReported, ExporterAt, Places, Idle
  <2>9. ExporterProgressed(e)
    BY ExporterProgress
  <2> QED BY <1>2, <2>3, <2>4, <2>5, <2>6, <2>7, <2>8, <2>9 DEF ExporterProgressed
<1> QED BY <1>1, <1>2

-----------------------------------------------------------------------------
(* How the module worker proceeds while no new reconcile becomes due.      *)

Listing(m) ==
  /\ mw.pc = "list" /\ mw'.pc = "status"
  /\ mw.key = m /\ mw'.key = m
  /\ mw'.todo = Referencing(m, mw.obj)
  /\ UNCHANGED <<exporter, exporterCache, exporterEvents, configMapEvents, exporterQueue, xw>>

ModuleReported(m) ==
  /\ mw.pc = "status" /\ mw.key = m
  /\ mw.obj.observed = mw.obj.gen
  /\ \A e \in mw.todo : mw'.pc = "touch" /\ mw'.key = m /\ e \in mw'.todo
  /\ mw'.pc \notin {"list", "status"}
  /\ Current(module[m], mw.obj)

TouchTurn(m, e) ==
  /\ mw.pc = "touch" /\ mw.key = m /\ e \in mw.todo
  /\ \A o \in mw.todo \ {e} : mw'.pc = "touch" /\ mw'.key = m /\ o \in mw'.todo
  /\ mw'.pc \notin {"list", "status"}
  /\ \E reply \in Replies : TouchExporter(e, reply)

ModuleProgressed(m) ==
  \/ mw' = mw
  \/ mw.pc = "idle"
  \/ mw.key # m /\ ~ ModuleAt(m, {"list", "status", "touch"})'
  \/ Listing(m) \/ ModuleReported(m) \/ \E e \in Exporters : TouchTurn(m, e)

LEMMA ModuleProgress ==
  ASSUME TypeOK, [Next]_vars, NEW m \in Modules, ~ ModulePending(m)', module'[m].live
  PROVE  ModuleProgressed(m)
<1>1. CASE mw' = mw
  BY <1>1 DEF ModuleProgressed
<1>2. CASE UNCHANGED vars
  BY <1>1, <1>2 DEF vars, workers
<1>3. CASE Users
  BY <1>1, <1>3 DEF Users, CreateExporter, EditExporter, DeleteExporter, CreateModule,
       RelabelModule, EditModule, DeleteModule, EditConfigMap, DeleteConfigMap, workers
<1>4. CASE Environment
  <2>1. ~ Restart
    BY DEF Restart, ModulePending, objects
  <2> QED
    BY <1>1, <1>4, <2>1 DEF Environment, Resync, CollectGarbage, DeliverExporter,
         DeliverModule, DeliverConfigMap, workers
<1>5. CASE ReconcileExporter
  BY <1>1, <1>5 DEF ReconcileExporter, GetExporter, CollectModules, ReconcileConfigMap,
       ReconcileOwned, UpdateExporterStatus
<1>6. ASSUME NEW k \in Modules, GetModule(k) PROVE ModuleProgressed(m)
  BY <1>6 DEF GetModule, ModuleProgressed
<1>7. ASSUME RequeueModule PROVE ModuleProgressed(m)
  BY <1>7 DEF RequeueModule, ModulePending, ModuleProgressed, ModuleAt, Idle
<1>8. CASE ListExporters
  <2>1. mw \in ModuleWork /\ mw.pc = "list"
    BY <1>8, Working DEF ListExporters
  <2>2. ASSUME NEW s, mw' = [mw EXCEPT !.pc = "status", !.refs = s,
                                       !.todo = Referencing(mw.key, mw.obj)]
        PROVE  ModuleProgressed(m)
    <3>1. mw'.pc = "status" /\ mw'.key = mw.key /\ mw'.todo = Referencing(mw.key, mw.obj)
      BY <2>1, <2>2 DEF ModuleWork
    <3>2. UNCHANGED <<exporter, exporterCache, exporterEvents, configMapEvents, exporterQueue, xw>>
      BY <1>8 DEF ListExporters, objects, caches, events
    <3> QED BY <2>1, <3>1, <3>2 DEF ModuleProgressed, Listing, ModuleAt
  <2> QED BY <1>7, <1>8, <2>2 DEF ListExporters
<1>9. ASSUME NEW reply \in Replies, UpdateModuleStatus(reply) PROVE ModuleProgressed(m)
  <2>1. mw \in ModuleWork /\ mw.key \in Modules /\ mw.obj \in ModuleObject /\ mw.pc = "status"
    BY <1>9, Working, ModuleWorkBuilt DEF UpdateModuleStatus
  <2> DEFINE obj == ModuleReport(mw.obj, mw.refs)
  <2>2. CASE RequeueModule
    BY <1>7, <2>2
  <2>3. CASE Current(module[mw.key], mw.obj) /\ reply = "ok"
    <3>1. mw' = Touching(module'[mw.key], mw.todo)
      BY <1>9, <2>3 DEF UpdateModuleStatus
    <3>2. /\ mw'.pc \notin {"list", "status"}
          /\ mw'.pc = "touch" => mw'.key = mw.key
          /\ \A e \in mw.todo : mw'.pc = "touch" /\ mw'.key = mw.key /\ e \in mw'.todo
      BY <2>1, <3>1 DEF Touching, ModuleWork, Idle
    <3>3. CASE mw.key # m
      BY <3>2, <3>3 DEF ModuleProgressed, ModuleAt
    <3>4. CASE mw.key = m
      <4>1. obj = mw.obj
        BY <1>9, <2>3, <3>4 DEF UpdateModuleStatus, Changes, WriteModule, ModulePending
      <4>2. obj.observed = mw.obj.gen
        BY <2>1 DEF ModuleReport, ModuleObject
      <4> QED BY <2>1, <2>3, <3>2, <3>4, <4>1, <4>2 DEF ModuleProgressed, ModuleReported
    <3> QED BY <3>3, <3>4
  <2> QED BY <1>9, <2>2, <2>3 DEF UpdateModuleStatus
<1>10. ASSUME NEW e \in Exporters, NEW reply \in Replies, TouchExporter(e, reply)
       PROVE  ModuleProgressed(m)
  <2>1. mw \in ModuleWork /\ mw.pc = "touch" /\ e \in mw.todo
    BY <1>10, Working DEF TouchExporter
  <2>2. mw' = Touching(mw.obj, mw.todo \ {e})
    BY <1>10 DEF TouchExporter
  <2>3. /\ mw'.pc \notin {"list", "status"}
        /\ mw'.pc = "touch" => mw'.key = mw.key
        /\ \A o \in mw.todo \ {e} : mw'.pc = "touch" /\ mw'.key = mw.key /\ o \in mw'.todo
    BY <2>1, <2>2 DEF Touching, ModuleWork, Idle
  <2> QED BY <1>10, <2>1, <2>3 DEF ModuleProgressed, TouchTurn, ModuleAt
<1> QED
  BY <1>2, <1>3, <1>4, <1>5, <1>6, <1>8, <1>9, <1>10 DEF Next, ReconcileModule

LEMMA ModuleSteady ==
  ASSUME TypeOK, Versions, [Next]_vars, NEW m \in Modules,
         ~ ModulePending(m)', module'[m].live
  PROVE  /\ module'[m] = module[m]
         /\ ~ ModuleAt(m, {"list"})' =>
              /\ ~ ModulePending(m)
              /\ moduleCache[m] = module[m]
              /\ ModuleAt(m, {"list", "status"}) => mw.obj = module[m]
<1>1. module'[m] = module[m]
  BY ModuleStep DEF ModuleStepped, ModulePending
<1>2. ASSUME ~ ModuleAt(m, {"list"})' PROVE ~ ModulePending(m)
  BY <1>2, ModulePendingStep
<1>3. ASSUME ~ ModulePending(m)
      PROVE  /\ moduleCache[m] = module[m]
             /\ ModuleAt(m, {"list", "status"}) => mw.obj = module[m]
  BY <1>3 DEF ModulePending, Versions, CachesCurrent, ModuleWorkerVersion, ModuleAt
<1> QED BY <1>1, <1>2, <1>3

LEMMA ModuleTracedInit == Init => ModuleStatusTraced
BY DEF Init, ModuleStatusTraced, ModulePending

LEMMA ModuleTracedNext ==
  TypeOK /\ Versions /\ ModuleStatusTraced /\ [Next]_vars => ModuleStatusTraced'
<1> SUFFICES ASSUME TypeOK, Versions, ModuleStatusTraced, [Next]_vars, NEW m \in Modules,
                    module'[m].live, ~ ModulePending(m)', ~ ModuleAt(m, {"list", "status"})'
             PROVE  module'[m].observed = module'[m].gen
  BY DEF ModuleStatusTraced
<1>1. /\ module'[m] = module[m] /\ ~ ModulePending(m)
      /\ ModuleAt(m, {"list", "status"}) => mw.obj = module[m]
  BY ModuleSteady DEF ModuleAt
<1>2. CASE module[m].observed = module[m].gen
  BY <1>1, <1>2
<1>3. CASE ModuleAt(m, {"list", "status"})
  <2>1. ModuleReported(m)
    BY <1>3, ModuleProgress DEF ModuleProgressed, ModuleAt, Listing, TouchTurn
  <2> QED BY <1>1, <1>3, <2>1 DEF ModuleReported
<1> QED BY <1>1, <1>2, <1>3 DEF ModuleStatusTraced

-----------------------------------------------------------------------------
(* The safety part of the invariant, and what it means for a system at     *)
(* rest.                                                                   *)

LEMMA SafeParts == Safe <=> TypeOK /\ Versions /\ Verdicts /\ ExporterTraced /\ ModuleStatusTraced
BY DEF Safe, Versions, Verdicts, ExporterTraced

LEMMA SafeInvariant == Spec => []Safe
<1>1. Init => Safe
  BY SafeParts, TypeInit, VersionsInit, VerdictsInit, ExporterTracedInit, ModuleTracedInit
<1>2. Safe /\ [Next]_vars => Safe'
  <2>1. Safe' <=> (TypeOK /\ Versions /\ Verdicts /\ ExporterTraced /\ ModuleStatusTraced)'
    BY DEF Safe, Versions, Verdicts, ExporterTraced
  <2> QED
    BY <2>1, SafeParts, TypeNext, VersionsNext, VerdictsNext, ExporterTracedNext, ModuleTracedNext
<1> QED BY <1>1, <1>2, PTL DEF Spec

LEMMA AtRest ==
  ASSUME Quiescent
  PROVE  /\ \A e \in Exporters : /\ ~ ExporterPending(e) /\ ~ ExporterAt(e, Places)
                                 /\ ~ Garbage(e)
         /\ \A m \in Modules : /\ ~ ModulePending(m)
                               /\ ~ ModuleAt(m, {"list", "status", "touch"})
BY DEF Quiescent, ExporterPending, ModulePending, ExporterAt, ModuleAt, Places, Idle

\* At rest every exporter owns its ConfigMap and no other ConfigMap is left,
\* whatever was deleted and recreated on the way.
THEOREM OwnedAtRest == Spec => []ConfigMapOwned
<1>1. Safe => ConfigMapOwned
  <2> SUFFICES ASSUME Safe, Quiescent, NEW e \in Exporters
               PROVE  /\ configMap[e].live <=> exporter[e].live
                      /\ exporter[e].live => configMap[e].owner = exporter[e].uid
    BY DEF ConfigMapOwned
  <2>1. ~ ExporterPending(e) /\ ~ ExporterAt(e, {"collect", "config"}) /\ ~ Garbage(e)
    BY AtRest DEF ExporterAt, Places
  <2>2. configMap[e].live \in BOOLEAN /\ exporter[e].live \in BOOLEAN
    BY DEF Safe, TypeOK, ConfigMapObject, ExporterObject
  <2> QED BY <2>1, <2>2 DEF Safe, OwnerTraced, Garbage
<1> QED BY <1>1, SafeInvariant, PTL

\* At rest every status is about the last generation, and an exporter reports
\* exactly the modules its ConfigMap holds.
THEOREM StatusAtRest == Spec => []StatusSettled
<1>1. Safe => StatusSettled
  <2> SUFFICES ASSUME Safe, Quiescent
               PROVE  /\ \A e \in Exporters : exporter[e].live =>
                           /\ exporter[e].observed = exporter[e].gen
                           /\ exporter[e].moduleCount = Cardinality(Rendered(configMap[e].data))
                      /\ \A m \in Modules : module[m].live =>
                           module[m].observed = module[m].gen
    BY DEF StatusSettled
  <2> QED BY AtRest DEF Safe, ExporterStatusTraced, ModuleStatusTraced, Places, ModuleAt
<1> QED BY <1>1, SafeInvariant, PTL
=============================================================================
