--------------------- MODULE ConfigSyncComplete_proofs ---------------------
(***************************************************************************)
(* The main theorems of ConfigSync: a system at rest has rendered every    *)
(* selected module as it is now, but for modules that share their name     *)
(* with another or of which a touch was lost, and it has rendered nothing  *)
(* else, but for modules that an exporter no longer selects.               *)
(***************************************************************************)
EXTENDS ConfigSyncInv_proofs

\* A rendering is right about every collected module.
LEMMA RenderedSuits ==
  ASSUME NEW e \in Exporters, NEW eo, NEW m \in Collected(e, eo),
         moduleCache[m].body = module[m].body, NEW d \in Renderings(e, eo)
  PROVE  Suits(d, m)
<1> DEFINE n == ModuleName[m]
           entry == ConvertModule[module[m].body]
<1>1. m \in Modules /\ n \in Names
  BY KeyAssumption DEF Collected, KeyAssumption
<1>2. ASSUME Unshared(m) PROVE \A c \in Candidates(e, eo, n) : c = entry
  <2>1. \A k \in Collected(e, eo) : ModuleName[k] = n => k = m
    BY <1>2 DEF Unshared, Collected
  <2> QED BY <2>1 DEF Candidates
<1>3. CASE entry \in Entries
  <2>1. entry \in Candidates(e, eo, n)
    BY <1>1, <1>3 DEF Candidates
  <2>2. d[n] \in Candidates(e, eo, n)
    BY <1>1, <2>1 DEF Renderings
  <2>3. d[n] \in Entries
    BY <2>2 DEF Candidates
  <2> QED BY <1>2, <1>3, <2>2, <2>3 DEF Suits, Holds
<1>4. CASE entry \notin Entries
  <2>1. ASSUME Unshared(m) PROVE d[n] = None
    <3>1. Candidates(e, eo, n) = {}
      BY <1>2, <1>4, <2>1 DEF Candidates
    <3> QED BY <1>1, <3>1 DEF Renderings
  <2> QED BY <1>4, <2>1 DEF Suits
<1> QED BY <1>3, <1>4

\* A rendering has no entry but those of collected modules.
LEMMA RenderedCollected ==
  ASSUME NEW e \in Exporters, NEW eo, NEW m \in Modules, Unshared(m),
         NEW d \in Renderings(e, eo), d[ModuleName[m]] # None
  PROVE  m \in Collected(e, eo)
<1>1. ModuleName[m] \in Names
  BY KeyAssumption DEF KeyAssumption
<1>2. Candidates(e, eo, ModuleName[m]) # {}
  BY <1>1 DEF Renderings
<1>3. PICK k \in Collected(e, eo) : ModuleName[k] = ModuleName[m]
  BY <1>2 DEF Candidates
<1> QED BY <1>3 DEF Unshared, Collected

\* What users decide about a wanted module settles what is wanted.
LEMMA SameWish ==
  ASSUME NEW e \in Exporters, NEW eo, NEW m \in Modules, NEW a, NEW b, SameContent(a, b)
  PROVE  Selected(e, eo, m, a) <=> Selected(e, eo, m, b)
BY DEF SameContent, Selected

\* The exporter worker keeps a fresh entry fresh.
LEMMA FreshNext ==
  ASSUME TypeOK, Versions, [Next]_vars,
         NEW e \in Exporters, NEW m \in Modules,
         Selects(e, m)', module'[m] = module[m], ~ ExporterPending(e)',
         Fresh(e, m), SameContent(moduleCache[m], module[m])
  PROVE  Fresh(e, m)'
<1>1. exporter'[e].live
  BY DEF Selects
<1>2. CASE ExporterAt(e, {"collect"})'
  BY <1>2 DEF Fresh
<1>3. CASE ~ ExporterAt(e, {"collect"})'
  <2>1. /\ exporter'[e] = exporter[e] /\ configMap'[e] = configMap[e]
        /\ configMapCache[e] = configMap[e]
        /\ ExporterAt(e, Places) => xw.obj = exporter[e]
    BY <1>1, <1>3, ExporterSteady
  <2>2. \/ ExporterAt(e, {"collect"})
        \/ ExporterAt(e, {"config"}) /\ Suits(xw.data, m)
        \/ /\ ~ ExporterAt(e, {"collect", "config"})
           /\ configMap[e].live /\ Suits(configMap[e].data, m)
    BY DEF Fresh
  <2>3. ASSUME \/ ExporterAt(e, {"config"})' /\ Suits(xw'.data, m)
               \/ /\ ~ ExporterAt(e, {"collect", "config"})'
                  /\ configMap[e].live /\ Suits(configMap[e].data, m)
        PROVE  Fresh(e, m)'
    <3>1. Suits(xw.data, m)' <=> Suits(xw'.data, m)
      BY DEF Suits, Holds, Unshared
    <3>2. Suits(configMap[e].data, m)' <=> Suits(configMap[e].data, m)
      BY <2>1 DEF Suits, Holds, Unshared
    <3> QED BY <2>1, <2>3, <3>1, <3>2 DEF Fresh
  <2>4. CASE xw' = xw
    BY <1>3, <2>2, <2>3, <2>4 DEF ExporterAt
  <2>5. CASE ~ ExporterAt(e, Places) /\ ~ ExporterAt(e, Places)'
    BY <2>2, <2>3, <2>5 DEF ExporterAt, Places
  <2>6. CASE Rendering(e)
    <3>1. xw.obj = exporter[e] /\ xw'.data \in Renderings(e, exporter[e])
      BY <2>1, <2>6 DEF Rendering, ExporterAt, Places
    <3>2. Selected(e, exporter[e], m, module[m])
      BY <2>1 DEF Selects
    <3>3. m \in Collected(e, exporter[e])
      BY <3>2, SameWish DEF Collected
    <3>4. moduleCache[m].body = module[m].body
      BY DEF SameContent
    <3>5. Suits(xw'.data, m)
      BY <3>1, <3>3, <3>4, RenderedSuits
    <3> QED BY <2>3, <2>6, <3>5 DEF Rendering, ExporterAt
  <2>7. CASE FoundUpToDate(e)
    BY <2>1, <2>2, <2>3, <2>7 DEF FoundUpToDate, ConfigMapUpToDate, ExporterAt
  <2>8. CASE OwnedDone(e)
    BY <2>2, <2>3, <2>8 DEF OwnedDone, ExporterAt
  <2>9. CASE FoundReported(e)
    BY <2>2, <2>3, <2>9 DEF FoundReported, ExporterAt, Idle
  <2>10. ExporterProgressed(e)
    BY <1>1, ExporterProgress
  <2> QED
    BY <1>3, <2>4, <2>5, <2>6, <2>7, <2>8, <2>9, <2>10 DEF ExporterProgressed
<1> QED BY <1>2, <1>3

LEMMA TouchSufficesNext ==
  TypeOK /\ Versions /\ TouchSuffices /\ [Next]_vars => TouchSuffices'
<1> SUFFICES ASSUME TypeOK, Versions, TouchSuffices, [Next]_vars,
                    NEW e \in Exporters, NEW m \in Modules, Selects(e, m)',
                    <<m, module'[m].rv>> \in exporter'[e].touch, ~ ExporterPending(e)'
             PROVE  Fresh(e, m)'
  BY DEF TouchSuffices
<1>1. exporter'[e].live
  BY DEF Selects
<1>2. exporter'[e] = exporter[e]
  BY <1>1, ExporterSteady
<1>3. module'[m].rv <= module[m].rv
  BY <1>2 DEF Versions, TouchVersion
<1>4. module'[m] = module[m]
  BY <1>3, ModuleStep, VersionType DEF ModuleStepped
<1>5. SameContent(moduleCache[m], module[m])
  BY <1>2, <1>4 DEF Versions, TouchVersion
<1>6. CASE ExporterAt(e, {"collect"})'
  BY <1>6 DEF Fresh
<1>7. CASE ~ ExporterAt(e, {"collect"})'
  <2>1. ~ ExporterPending(e)
    BY <1>1, <1>7, ExporterSteady
  <2>2. Selects(e, m)
    BY <1>2, <1>4 DEF Selects
  <2>3. Fresh(e, m)
    BY <1>2, <1>4, <2>1, <2>2 DEF TouchSuffices
  <2> QED BY <1>4, <1>5, <2>3, FreshNext
<1> QED BY <1>6, <1>7

\* What is known of e is known until e collects its modules, or not at all.
LEMMA KnownStep ==
  ASSUME TypeOK, [Next]_vars, NEW e \in Exporters, NEW m \in Modules
  PROVE  /\ <<e, m>> \in lost => <<e, m>> \in lost' \/ ExporterAt(e, {"collect"})
         /\ <<e, m>> \in left => <<e, m>> \in left' \/ ExporterAt(e, {"collect"})
<1> DEFINE Goal == /\ <<e, m>> \in lost => <<e, m>> \in lost' \/ ExporterAt(e, {"collect"})
                   /\ <<e, m>> \in left => <<e, m>> \in left' \/ ExporterAt(e, {"collect"})
<1>1. lost \subseteq lost' /\ left \subseteq left' => Goal
  OBVIOUS
<1>2. CASE UNCHANGED vars
  BY <1>1, <1>2 DEF vars, history
<1>3. CASE Users
  BY <1>1, <1>3 DEF Users, Edit, CreateExporter, EditExporter, DeleteExporter, CreateModule,
       RelabelModule, EditModule, DeleteModule, EditConfigMap, DeleteConfigMap
<1>4. CASE Environment
  BY <1>1, <1>4 DEF Environment, Edit, Resync, Restart, CollectGarbage, DeliverExporter,
       DeliverModule, DeliverConfigMap, history
<1>5. CASE CollectModules
  BY <1>5 DEF CollectModules, ExporterAt
<1>6. CASE ReconcileExporter /\ ~ CollectModules
  BY <1>1, <1>6 DEF ReconcileExporter, GetExporter, ReconcileConfigMap, ReconcileOwned,
       UpdateExporterStatus, history
<1>7. CASE ReconcileModule
  BY <1>1, <1>7 DEF ReconcileModule, GetModule, ListExporters, UpdateModuleStatus,
       TouchExporter, history
<1> QED BY <1>2, <1>3, <1>4, <1>5, <1>6, <1>7 DEF Next

\* A touch that changes nothing was made before, and suffices.
LEMMA TouchedStep ==
  ASSUME TypeOK, Versions, NEW e \in Exporters, NEW m \in Modules,
         TouchTurn(m, e), Selects(e, m), exporterCache[e] = exporter[e],
         ~ ModulePending(m), ~ ExporterPending(e)', <<e, m>> \notin lost'
  PROVE  <<m, module[m].rv>> \in exporter[e].touch
<1> DEFINE old == exporterCache[e]
           obj == Touched(mw.key, mw.obj, old)
           due == old.live /\ Current(exporter[e], old) /\ Changes(obj, old)
<1>1. PICK reply \in Replies : TouchExporter(e, reply)
  BY DEF TouchTurn
<1>2. exporter[e].live
  BY DEF Selects
<1>3. mw.key = m /\ mw.obj.rv = module[m].rv
  BY DEF TouchTurn, Versions, ModuleWorkerVersion
<1>4. due => reply = "error"
  BY <1>1 DEF TouchExporter, WriteExporter, ExporterPending
<1>5. ~ (due /\ reply = "error")
  BY <1>1, <1>3 DEF TouchExporter
<1>6. obj = old
  BY <1>2, <1>4, <1>5 DEF Current, Changes
<1>7. exporterCache[e] \in ExporterObject
  BY DEF TypeOK
<1>8. old.touch = {<<mw.key, mw.obj.rv>>}
  BY <1>6, <1>7 DEF Touched, ExporterObject
<1> QED BY <1>3, <1>8

LEMMA TracedNext ==
  TypeOK /\ Versions /\ TouchSuffices /\ Traced /\ [Next]_vars => Traced'
<1> SUFFICES ASSUME TypeOK, Versions, TouchSuffices, Traced, [Next]_vars,
                    NEW e \in Exporters, NEW m \in Modules, Selects(e, m)',
                    <<e, m>> \notin lost',
                    ~ ExporterPending(e)', ~ ModulePending(m)', ~ TouchPending(e, m)'
             PROVE  Fresh(e, m)'
  BY DEF Traced
<1>1. exporter'[e].live /\ module'[m].live
  BY DEF Selects, Selected
<1>2. CASE ExporterAt(e, {"collect"})'
  BY <1>2 DEF Fresh
<1>3. CASE ~ ExporterAt(e, {"collect"})'
  <2>1. exporter'[e] = exporter[e] /\ ~ ExporterPending(e) /\ exporterCache[e] = exporter[e]
    BY <1>1, <1>3, ExporterSteady
  <2>2. ~ ModuleAt(m, {"list"})'
    BY DEF TouchPending
  <2>3. /\ module'[m] = module[m] /\ ~ ModulePending(m) /\ moduleCache[m] = module[m]
        /\ ModuleAt(m, {"list", "status"}) => mw.obj = module[m]
    BY <1>1, <2>2, ModuleSteady
  <2>4. Selects(e, m)
    BY <2>1, <2>3 DEF Selects
  <2>5. CASE Fresh(e, m)
    BY <2>3, <2>5, FreshNext DEF SameContent
  <2>6. CASE TouchPending(e, m)
    <3>1. mw.pc # "idle" /\ mw.key = m /\ mw' # mw
      BY <2>6 DEF TouchPending, ModuleAt
    <3>2. ~ Listing(m)
      <4>1. SUFFICES ASSUME Listing(m) PROVE FALSE
        OBVIOUS
      <4>2. mw.obj = module[m]
        BY <2>3, <4>1 DEF Listing, ModuleAt
      <4>3. exporter[e].spec.any \in BOOLEAN
        BY SelectorAssumption DEF TypeOK, ExporterObject, SelectorAssumption
      <4>4. Matches(exporter[e].spec, NamespaceOf[e], NamespaceOf[m], module[m].labels)
        BY <2>4, <4>3, SameSelection DEF Selects, Selected
      <4>5. e \in Referencing(m, mw.obj)
        BY <2>1, <2>4, <4>2, <4>4 DEF Referencing, Selects
      <4> QED BY <4>1, <4>5 DEF Listing, TouchPending, ModuleAt
    <3>3. ~ ModuleReported(m)
      BY <2>6, <3>1 DEF ModuleReported, TouchPending, ModuleAt
    <3>4. PICK o \in Exporters : TouchTurn(m, o)
      BY <1>1, <2>6, <3>1, <3>2, <3>3, ModuleProgress DEF ModuleProgressed
    <3>5. o = e
      BY <2>6, <3>4 DEF TouchTurn, TouchPending, ModuleAt
    <3>6. <<m, module[m].rv>> \in exporter[e].touch
      BY <2>1, <2>3, <2>4, <3>4, <3>5, TouchedStep
    <3>7. Fresh(e, m)
      BY <2>1, <2>4, <3>6 DEF TouchSuffices
    <3> QED BY <2>3, <3>7, FreshNext DEF SameContent
  <2>7. CASE <<e, m>> \in lost
    <3>1. Fresh(e, m)
      BY <2>7, KnownStep DEF Fresh
    <3> QED BY <2>3, <3>1, FreshNext DEF SameContent
  <2> QED BY <2>1, <2>3, <2>4, <2>5, <2>6, <2>7 DEF Traced
<1> QED BY <1>2, <1>3

\* A module that is no longer selected by the cache is remembered, or the
\* exporter will be reconciled.
LEMMA LeavingStep ==
  ASSUME TypeOK, [Next]_vars, NEW e \in Exporters, NEW m \in Modules,
         exporterCache[e] = exporter[e], exporter'[e].live, ~ ExporterPending(e)',
         Selected(e, exporter[e], m, moduleCache[m]),
         ~ Selected(e, exporter[e], m, moduleCache'[m])
  PROVE  <<e, m>> \in left'
<1>1. moduleCache'[m] # moduleCache[m]
  OBVIOUS
<1>2. CASE UNCHANGED moduleCache
  BY <1>1, <1>2
<1>3. ASSUME NEW k \in Modules, DeliverModule(k) PROVE <<e, m>> \in left'
  <2>1. moduleCache' = [moduleCache EXCEPT ![k] = module[k]]
    BY <1>3 DEF DeliverModule
  <2>2. moduleCache \in [Modules -> ModuleObject]
    BY DEF TypeOK
  <2>3. k = m /\ moduleCache'[m] = module[m]
    BY <1>1, <2>1, <2>2
  <2>4. e \in Leaving(m)
    BY <2>3 DEF Leaving
  <2> QED BY <1>3, <2>3, <2>4 DEF DeliverModule
<1>4. ~ Restart
  BY DEF Restart, ExporterPending, objects
<1>5. CASE UNCHANGED vars
  BY <1>2, <1>5 DEF vars, caches
<1>6. CASE Users
  BY <1>2, <1>6 DEF Users, CreateExporter, EditExporter, DeleteExporter, CreateModule,
       RelabelModule, EditModule, DeleteModule, EditConfigMap, DeleteConfigMap, caches
<1>7. CASE Environment
  BY <1>2, <1>3, <1>4, <1>7 DEF Environment, Resync, CollectGarbage, DeliverExporter,
       DeliverConfigMap, caches
<1>8. CASE ReconcileExporter
  BY <1>2, <1>8 DEF ReconcileExporter, GetExporter, CollectModules, ReconcileConfigMap,
       ReconcileOwned, UpdateExporterStatus, caches
<1>9. CASE ReconcileModule
  BY <1>2, <1>9 DEF ReconcileModule, GetModule, ListExporters, UpdateModuleStatus,
       TouchExporter, caches
<1> QED BY <1>5, <1>6, <1>7, <1>8, <1>9 DEF Next

LEMMA AccountedNext == TypeOK /\ Versions /\ Accounted /\ [Next]_vars => Accounted'
<1> SUFFICES ASSUME TypeOK, Versions, Accounted, [Next]_vars,
                    NEW e \in Exporters, NEW m \in Modules, exporter'[e].live,
                    ~ ExporterPending(e)', ~ ExporterAt(e, {"collect"})',
                    Unshared(m), Coming(e)'[ModuleName[m]] # None
             PROVE  Selected(e, exporter'[e], m, moduleCache'[m]) \/ <<e, m>> \in left'
  BY DEF Accounted, Selected, Unshared
<1>1. /\ exporter'[e] = exporter[e] /\ configMap'[e] = configMap[e]
      /\ ~ ExporterPending(e)
      /\ exporterCache[e] = exporter[e] /\ configMapCache[e] = configMap[e]
      /\ ExporterAt(e, Places) => xw.obj = exporter[e]
  BY ExporterSteady
<1>2. CASE Rendering(e)
  <2>1. xw.obj = exporter[e] /\ xw'.data \in Renderings(e, exporter[e])
    BY <1>1, <1>2 DEF Rendering, ExporterAt, Places
  <2>2. Coming(e)' = xw'.data
    BY <1>2 DEF Rendering, Coming, ExporterAt
  <2>3. m \in Collected(e, exporter[e])
    BY <2>1, <2>2, RenderedCollected
  <2> QED BY <1>1, <1>2, <2>3 DEF Collected, Rendering
<1>3. CASE ~ ExporterAt(e, {"collect"}) /\ Coming(e)' = Coming(e)
  <2>1. Selected(e, exporter[e], m, moduleCache[m]) \/ <<e, m>> \in left
    BY <1>1, <1>3 DEF Accounted
  <2>2. <<e, m>> \in left => <<e, m>> \in left'
    BY <1>3, KnownStep
  <2> QED BY <1>1, <2>1, <2>2, LeavingStep
<1>4. CASE xw' = xw
  BY <1>1, <1>3, <1>4 DEF Coming, ExporterAt
<1>5. CASE ~ ExporterAt(e, Places) /\ ~ ExporterAt(e, Places)'
  BY <1>1, <1>3, <1>5 DEF Coming, ExporterAt, Places
<1>6. CASE FoundUpToDate(e)
  BY <1>1, <1>3, <1>6 DEF FoundUpToDate, ConfigMapUpToDate, Coming, ExporterAt
<1>7. CASE OwnedDone(e)
  BY <1>1, <1>3, <1>7 DEF OwnedDone, Coming, ExporterAt
<1>8. CASE FoundReported(e)
  BY <1>1, <1>3, <1>8 DEF FoundReported, Coming, ExporterAt, Idle
<1> QED
  BY <1>2, <1>4, <1>5, <1>6, <1>7, <1>8, ExporterProgress DEF ExporterProgressed

LEMMA CompleteInvariant == Spec => [](Safe /\ Complete)
<1>1. Init => Complete
  <2> SUFFICES ASSUME Init, NEW e \in Exporters PROVE exporter[e].live => ExporterPending(e)
    BY DEF Complete, Traced, TouchSuffices, Accounted, Selects
  <2> QED BY DEF Init, ExporterPending
<1>2. Safe /\ Complete /\ [Next]_vars => Complete'
  BY SafeParts, TouchSufficesNext, TracedNext, AccountedNext DEF Complete
<1> QED BY <1>1, <1>2, SafeInvariant, PTL DEF Spec

\* At rest the exporter's ConfigMap is right about every module it selects.
LEMMA SuitsAtRest ==
  ASSUME Safe, Complete, Quiescent, NEW e \in Exporters, NEW m \in Modules, Selects(e, m)
  PROVE  \/ configMap[e].live /\ Suits(configMap[e].data, m)
         \/ <<e, m>> \in lost
<1>1. /\ ~ ExporterPending(e) /\ ~ ExporterAt(e, Places)
      /\ ~ ModulePending(m) /\ ~ ModuleAt(m, {"list", "status", "touch"})
  BY AtRest
<1>2. Fresh(e, m) \/ <<e, m>> \in lost
  BY <1>1 DEF Complete, Traced, TouchPending, ModuleAt
<1> QED BY <1>1, <1>2 DEF Fresh, ExporterAt, Places

\* When the operator has come to rest, every module an exporter selects is in
\* its blackbox.yml as it is now, or another one under the same name.  A request
\* of the module controller to touch an exporter that is lost costs that module
\* on that exporter, and no longer than until the exporter is reconciled.
THEOREM CompleteAtRest == Spec => []ConfigComplete
<1>1. Safe /\ Complete => ConfigComplete
  <2> SUFFICES ASSUME Safe, Complete, Quiescent,
                      NEW e \in Exporters, NEW m \in Modules, Wants(e, m)
               PROVE  Serves(e, m) \/ <<e, m>> \in lost
    BY DEF ConfigComplete
  <2> QED BY SuitsAtRest DEF Wants, Selects, Suits, Serves
<1> QED BY <1>1, CompleteInvariant, PTL

\* When the operator has come to rest, blackbox.yml has no entry but those of the
\* modules that belong into it, of those whose touch was lost, and of those the
\* exporter stopped selecting, which the module controller does not tell it.
THEOREM NothingElseAtRest == Spec => []NothingElse
<1>1. Safe /\ Complete => NothingElse
  <2> SUFFICES ASSUME Safe, Complete, Quiescent,
                      NEW e \in Exporters, NEW m \in Modules, exporter[e].live, Unshared(m),
                      configMap[e].data[ModuleName[m]] # None, <<e, m>> \notin left
               PROVE  Wants(e, m) \/ <<e, m>> \in lost
    BY DEF NothingElse
  <2>1. ~ ExporterPending(e) /\ ~ ExporterAt(e, Places)
    BY AtRest
  <2>2. Selected(e, exporter[e], m, moduleCache[m])
    BY <2>1 DEF Complete, Accounted, Coming, ExporterAt, Places
  <2>3. moduleCache[m] = module[m]
    BY DEF Quiescent, Safe, CachesCurrent
  <2>4. Selects(e, m)
    BY <2>2, <2>3 DEF Selects
  <2> QED BY <2>4, SuitsAtRest DEF Selects, Suits, Wants
<1> QED BY <1>1, CompleteInvariant, PTL
=============================================================================
