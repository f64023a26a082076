----------------------------- MODULE ConfigSync -----------------------------
(***************************************************************************)
(* How a BlackboxModule reaches the blackbox.yml of the exporters that     *)
(* select it: the exporter controller, which renders the ConfigMap, and    *)
(* the module controller, which tells it that a module changed by writing  *)
(* an annotation on the exporter.                                          *)
(*                                                                         *)
(* Around them: the API server's objects (writes carry a resourceVersion   *)
(* and conflict when it is old), the informer caches every read is served  *)
(* from, the watch events that refresh a cache and enqueue a key, one work *)
(* queue and one worker per controller, users who edit objects, the        *)
(* garbage collector, write requests that fail or whose answer is lost,    *)
(* and restarts of the operator.                                           *)
(***************************************************************************)
EXTENDS Integers, FiniteSets, Sequences, Functions, Selector

CONSTANTS
  Exporters,      \* the BlackboxExporter keys (namespace/name)
  Modules,        \* the BlackboxModule keys
  NamespaceOf,    \* the namespace of each key
  Selectors,      \* the module selectors users write (spec.moduleSelector)
  LabelSets,      \* the label maps users put on modules
  Bodies,         \* the module specs users write
  Names,          \* the names of modules inside blackbox.yml
  ModuleName,     \* converter.ModuleName of each module key
  Entries,        \* the rendered module configurations
  ConvertModule,  \* converter.ConvertModule of each body
  ConvertError,   \* ... when it returns an error
  ConvertPanic,   \* ... when it panics (MustNewRegexp on a bad pattern)
  None,           \* no entry under a name
  Replies,        \* the outcomes of a write request, see ReplyAssumption
  MaxEdits,       \* bound on what users, restarts and resyncs do
  MaxDrops,       \* bound on touches of an exporter lost to a failed request
  MaxShuffles     \* bound on lists of one set of exporters in another order

ASSUME KeyAssumption ==
  /\ IsFiniteSet(Exporters)
  /\ IsFiniteSet(Names)
  /\ ModuleName \in [Modules -> Names]

ASSUME ContentAssumption ==
  /\ Selectors # {} /\ LabelSets # {} /\ Bodies # {}
  /\ ConvertModule \in [Bodies -> Entries \cup {ConvertError, ConvertPanic}]
  /\ ConvertError \notin Entries /\ ConvertPanic \notin Entries
  /\ ConvertError # ConvertPanic
  /\ None \notin Entries

ASSUME SelectorAssumption == \A s \in Selectors : s.any \in BOOLEAN

\* A write request is answered; or fails before it is applied; or is applied
\* and the answer is lost.
ASSUME ReplyAssumption == "ok" \in Replies /\ Replies \subseteq {"ok", "error", "lost"}

ASSUME BoundAssumption ==
  MaxEdits \in Nat /\ MaxDrops \in Nat /\ MaxShuffles \in Nat

VARIABLES
  exporter,         \* the BlackboxExporter objects of the API server
  module,           \* the BlackboxModule objects
  configMap,        \* the ConfigMap of each exporter
  exporterCache,    \* the manager's informer caches
  moduleCache,
  configMapCache,
  exporterEvents,   \* keys with watch events that are not delivered yet
  moduleEvents,
  configMapEvents,
  exporterQueue,    \* the controllers' work queues
  moduleQueue,
  xw,               \* the exporter controller's worker
  mw,               \* the module controller's worker
  edits,            \* what users, restarts and resyncs did so far
  drops,            \* touches lost so far
  shuffles,         \* lists in another order so far
  made,             \* the version of each exporter its ConfigMap was last made from
  lost,             \* touches lost since the exporter last collected its modules
  left              \* modules no longer selected, of which it was not told, since then

objects   == <<exporter, module, configMap>>
caches    == <<exporterCache, moduleCache, configMapCache>>
events    == <<exporterEvents, moduleEvents, configMapEvents>>
queues    == <<exporterQueue, moduleQueue>>
workers   == <<xw, mw>>
history   == <<edits, drops, shuffles, made, lost, left>>
vars      == <<objects, caches, events, queues, workers, history>>

-----------------------------------------------------------------------------
(* Types *)

\* A deleted object keeps its record with live = FALSE; rv grows with every
\* write of the key, its deletion included.  touch is the annotation
\* monitoring.gaiser.bayern/module-updated: none, or the one resourceVersion
\* written last (of one module: versions are unique in a cluster).
ExporterObject ==
  [live : BOOLEAN, rv : Nat, uid : Nat \ {0}, gen : Nat \ {0}, spec : Selectors,
   touch : SUBSET (Modules \X Nat), moduleCount : Nat, observed : Nat]

ModuleObject ==
  [live : BOOLEAN, rv : Nat, gen : Nat, labels : LabelSets, body : Bodies,
   valid : BOOLEAN, refs : Seq(Exporters), observed : Nat]

ConfigData == [Names -> Entries \cup {None}]

ConfigMapObject == [live : BOOLEAN, rv : Nat, owner : Nat, data : ConfigData]

\* A worker is idle, or inside one call of Reconcile for one key.
Idle == [pc |-> "idle"]

ExporterWork ==
  [pc : {"collect", "config", "owned", "status"}, key : Exporters,
   obj : ExporterObject, data : ConfigData]

ModuleWork ==
  [pc : {"list", "status", "touch"}, key : Modules, obj : ModuleObject,
   refs : Seq(Exporters), todo : SUBSET Exporters]

TypeOK ==
  /\ exporter \in [Exporters -> ExporterObject]
  /\ module \in [Modules -> ModuleObject]
  /\ configMap \in [Exporters -> ConfigMapObject]
  /\ exporterCache \in [Exporters -> ExporterObject]
  /\ moduleCache \in [Modules -> ModuleObject]
  /\ configMapCache \in [Exporters -> ConfigMapObject]
  /\ exporterEvents \subseteq Exporters
  /\ moduleEvents \subseteq Modules
  /\ configMapEvents \subseteq Exporters
  /\ exporterQueue \subseteq Exporters
  /\ moduleQueue \subseteq Modules
  /\ xw \in {Idle} \cup ExporterWork
  /\ mw \in {Idle} \cup ModuleWork
  /\ edits \in Nat /\ drops \in Nat /\ shuffles \in Nat
  /\ made \in [Exporters -> Nat]
  /\ lost \subseteq Exporters \X Modules
  /\ left \subseteq Exporters \X Modules

-----------------------------------------------------------------------------
(* What the code computes *)

\* The version of what users ask of an exporter, over all its incarnations.
Version(eo) == eo.uid + eo.gen - 1

EmptyConfig == [n \in Names |-> None]

Rendered(d) == {n \in Names : d[n] # None}

\* collectModules, on an exporter and a module object.
Selected(e, eo, m, mo) ==
  mo.live /\ Collects(eo.spec, NamespaceOf[e], NamespaceOf[m], mo.labels)

\* The modules the exporter worker collects from the module cache.
Collected(e, eo) == {m \in Modules : Selected(e, eo, m, moduleCache[m])}

\* The entries the collected modules have for a name.  One that does not
\* convert is skipped; several with one name overwrite each other.
Candidates(e, eo, n) ==
  {ConvertModule[moduleCache[m].body] :
     m \in {k \in Collected(e, eo) : ModuleName[k] = n}} \cap Entries

\* Mutant of Renderings: no "continue" after a module that does not convert.
RenderingsUnskipped(e, eo) ==
  {[n \in Names |->
      IF \E m \in Collected(e, eo) : ModuleName[m] = n
        THEN ConvertModule[moduleCache[CHOOSE m \in Collected(e, eo) : ModuleName[m] = n].body]
        ELSE None]}

\* Mutant of Renderings: the map is made anew in every turn of the loop.
RenderingsLast(e, eo) ==
  {d \in ConfigData : /\ Cardinality(Rendered(d)) <= 1
                      /\ \A n \in Rendered(d) : d[n] \in Candidates(e, eo, n)}

\* The module map the loop can end with: the list order is random, so among
\* candidates for one name any may be last.
Renderings(e, eo) ==
  {d \in ConfigData : \A n \in Names :
     IF Candidates(e, eo, n) = {} THEN d[n] = None
                                  ELSE d[n] \in Candidates(e, eo, n)}

\* The exporters the module controller finds for the module it works on.
Referencing(m, mo) ==
  {e \in Exporters :
     /\ exporterCache[e].live
     /\ Matches(exporterCache[e].spec, NamespaceOf[e], NamespaceOf[m], mo.labels)}

\* Mutant of ExporterReport: counts the modules collected, len(modules).
ExporterReportCollected(eo, d) ==
  [eo EXCEPT !.moduleCount = Cardinality(Collected(xw.key, eo)), !.observed = eo.gen]

\* The status the exporter worker computes.
ExporterReport(eo, d) ==
  [eo EXCEPT !.moduleCount = Cardinality(Rendered(d)), !.observed = eo.gen]

\* Mutant of ModuleReport: a condition that is True is never set to False.
ModuleReportSticky(mo, refs) ==
  [mo EXCEPT !.valid = @ \/ ConvertModule[mo.body] \in Entries, !.refs = refs,
             !.observed = mo.gen]

\* The status the module worker computes: the verdict of the conversion, and
\* the exporters found.
ModuleReport(mo, refs) ==
  [mo EXCEPT !.valid = ConvertModule[mo.body] \in Entries, !.refs = refs,
             !.observed = mo.gen]

\* Mutant of Touched: the annotation does not say which version.
TouchedUnversioned(m, mo, eo) == [eo EXCEPT !.touch = {<<m, 0>>}]

\* The annotation the module worker writes on an exporter: the version of m,
\* in place of what was there.
Touched(m, mo, eo) == [eo EXCEPT !.touch = {<<m, mo.rv>>}]

\* The orders in which a list may return the members of S.
Orders(S) == {s \in [1 .. Cardinality(S) -> S] : IsInjective(s)}

-----------------------------------------------------------------------------
(* The API server's answer to a write, and its effect on the object *)

\* Mutant of Current: a write without a resourceVersion, such as a merge patch.
CurrentUnlocked(new, old) == new.live

\* An update is accepted when the object it was made from is the current one.
Current(new, old) == new.live /\ new.rv = old.rv

\* An update that changes nothing is answered and leaves the version alone.
Changes(obj, old) == obj # old

\* An update of the exporter itself: spec and annotation, not the status.
ExporterUpdated(e, obj) ==
  [exporter[e] EXCEPT !.rv = @ + 1, !.spec = obj.spec, !.touch = obj.touch,
                      !.gen = IF obj.spec = exporter[e].spec THEN @ ELSE @ + 1]

ExporterStatusUpdated(e, obj) ==
  [exporter[e] EXCEPT !.rv = @ + 1, !.moduleCount = obj.moduleCount,
                      !.observed = obj.observed]

ModuleStatusUpdated(m, obj) ==
  [module[m] EXCEPT !.rv = @ + 1, !.valid = obj.valid, !.refs = obj.refs,
                    !.observed = obj.observed]

\* A ConfigMap whose owner is gone, or was recreated.
Garbage(e) ==
  /\ configMap[e].live
  /\ ~ (exporter[e].live /\ exporter[e].uid = configMap[e].owner)

-----------------------------------------------------------------------------
(* Users and the environment *)

Edit ==
  /\ edits < MaxEdits /\ edits' = edits + 1
  /\ UNCHANGED <<drops, shuffles, made, lost, left>>

WriteExporter(e, obj) ==
  /\ exporter' = [exporter EXCEPT ![e] = obj]
  /\ exporterEvents' = exporterEvents \cup {e}

WriteModule(m, obj) ==
  /\ module' = [module EXCEPT ![m] = obj]
  /\ moduleEvents' = moduleEvents \cup {m}

WriteConfigMap(e, obj) ==
  /\ configMap' = [configMap EXCEPT ![e] = obj]
  /\ configMapEvents' = configMapEvents \cup {e}

CreateExporter(e, s) ==
  /\ Edit
  /\ ~ exporter[e].live
  /\ WriteExporter(e, [live |-> TRUE, rv |-> exporter[e].rv + 1,
                       uid |-> exporter[e].rv + 1, gen |-> 1, spec |-> s,
                       touch |-> {}, moduleCount |-> 0, observed |-> 0])
  /\ UNCHANGED <<module, configMap, caches, moduleEvents, configMapEvents,
                 queues, workers>>

EditExporter(e, s) ==
  /\ Edit
  /\ exporter[e].live
  /\ exporter[e].spec # s
  /\ WriteExporter(e, [exporter[e] EXCEPT !.rv = @ + 1, !.gen = @ + 1, !.spec = s])
  /\ UNCHANGED <<module, configMap, caches, moduleEvents, configMapEvents,
                 queues, workers>>

DeleteExporter(e) ==
  /\ Edit
  /\ exporter[e].live
  /\ WriteExporter(e, [exporter[e] EXCEPT !.rv = @ + 1, !.live = FALSE])
  /\ UNCHANGED <<module, configMap, caches, moduleEvents, configMapEvents,
                 queues, workers>>

CreateModule(m, l, b) ==
  /\ Edit
  /\ ~ module[m].live
  /\ WriteModule(m, [live |-> TRUE, rv |-> module[m].rv + 1, gen |-> 1,
                     labels |-> l, body |-> b, valid |-> FALSE, refs |-> <<>>,
                     observed |-> 0])
  /\ UNCHANGED <<exporter, configMap, caches, exporterEvents, configMapEvents,
                 queues, workers>>

RelabelModule(m, l) ==
  /\ Edit
  /\ module[m].live
  /\ module[m].labels # l
  /\ WriteModule(m, [module[m] EXCEPT !.rv = @ + 1, !.labels = l])
  /\ UNCHANGED <<exporter, configMap, caches, exporterEvents, configMapEvents,
                 queues, workers>>

EditModule(m, b) ==
  /\ Edit
  /\ module[m].live
  /\ module[m].body # b
  /\ WriteModule(m, [module[m] EXCEPT !.rv = @ + 1, !.gen = @ + 1, !.body = b])
  /\ UNCHANGED <<exporter, configMap, caches, exporterEvents, configMapEvents,
                 queues, workers>>

DeleteModule(m) ==
  /\ Edit
  /\ module[m].live
  /\ WriteModule(m, [module[m] EXCEPT !.rv = @ + 1, !.live = FALSE])
  /\ UNCHANGED <<exporter, configMap, caches, exporterEvents, configMapEvents,
                 queues, workers>>

\* Someone takes an entry out of the ConfigMap, or deletes it.
EditConfigMap(e, n) ==
  /\ Edit
  /\ configMap[e].live
  /\ configMap[e].data[n] # None
  /\ WriteConfigMap(e, [configMap[e] EXCEPT !.rv = @ + 1, !.data[n] = None])
  /\ UNCHANGED <<exporter, module, caches, exporterEvents, moduleEvents,
                 queues, workers>>

DeleteConfigMap(e) ==
  /\ Edit
  /\ configMap[e].live
  /\ WriteConfigMap(e, [configMap[e] EXCEPT !.rv = @ + 1, !.live = FALSE])
  /\ UNCHANGED <<exporter, module, caches, exporterEvents, moduleEvents,
                 queues, workers>>

\* An event of an owned Deployment, Service or ServiceMonitor, or the
\* informers' periodic resync, enqueues a key for no change of this model.
Resync ==
  /\ Edit
  /\ \/ \E e \in Exporters : exporterQueue' = exporterQueue \cup {e} /\ UNCHANGED moduleQueue
     \/ \E m \in Modules : moduleQueue' = moduleQueue \cup {m} /\ UNCHANGED exporterQueue
  /\ UNCHANGED <<objects, caches, events, workers>>

\* The operator stops anywhere and starts again (or another replica becomes
\* the leader): the caches are filled before the workers start, and every
\* listed object is an event.
Restart ==
  /\ Edit
  /\ exporterCache' = exporter /\ moduleCache' = module /\ configMapCache' = configMap
  /\ exporterEvents' = {} /\ moduleEvents' = {} /\ configMapEvents' = {}
  /\ exporterQueue' = {e \in Exporters : exporter[e].live \/ configMap[e].live}
  /\ moduleQueue' = {m \in Modules : module[m].live}
  /\ xw' = Idle /\ mw' = Idle
  /\ UNCHANGED objects

\* The cluster's garbage collector.  Before the operator has seen that the
\* exporter is gone it may render the ConfigMap again, and so on: a collection
\* that early is counted, the later ones are not.
CollectGarbage(e) ==
  /\ Garbage(e)
  /\ IF e \in exporterEvents THEN Edit ELSE UNCHANGED history
  /\ WriteConfigMap(e, [configMap[e] EXCEPT !.rv = @ + 1, !.live = FALSE])
  /\ UNCHANGED <<exporter, module, caches, exporterEvents, moduleEvents,
                 queues, workers>>

-----------------------------------------------------------------------------
(* Watch events: the informer catches up and the key is enqueued *)

DeliverExporter(e) ==
  /\ e \in exporterEvents
  /\ exporterEvents' = exporterEvents \ {e}
  /\ exporterCache' = [exporterCache EXCEPT ![e] = exporter[e]]
  /\ exporterQueue' = exporterQueue \cup {e}
  /\ UNCHANGED <<objects, moduleCache, configMapCache, moduleEvents,
                 configMapEvents, moduleQueue, workers, history>>

\* The exporters that select m as the cache has it, and not as it is now: the
\* module controller, which looks for those that select it, will not find them.
Leaving(m) ==
  {e \in Exporters : /\ Selected(e, exporterCache[e], m, moduleCache[m])
                     /\ ~ Selected(e, exporterCache[e], m, module[m])}

DeliverModule(m) ==
  /\ m \in moduleEvents
  /\ moduleEvents' = moduleEvents \ {m}
  /\ moduleCache' = [moduleCache EXCEPT ![m] = module[m]]
  /\ moduleQueue' = moduleQueue \cup {m}
  /\ left' = left \cup {<<e, m>> : e \in Leaving(m)}
  /\ UNCHANGED <<objects, exporterCache, configMapCache, exporterEvents, configMapEvents,
                 exporterQueue, workers, edits, drops, shuffles, made, lost>>

\* Mutant of DeliverConfigMap: the controller does not own ConfigMaps.
DeliverConfigMapUnowned(e) ==
  /\ e \in configMapEvents
  /\ configMapEvents' = configMapEvents \ {e}
  /\ configMapCache' = [configMapCache EXCEPT ![e] = configMap[e]]
  /\ UNCHANGED <<objects, exporterCache, moduleCache, exporterEvents,
                 moduleEvents, queues, workers, history>>

DeliverConfigMap(e) ==
  /\ e \in configMapEvents
  /\ configMapEvents' = configMapEvents \ {e}
  /\ configMapCache' = [configMapCache EXCEPT ![e] = configMap[e]]
  /\ exporterQueue' = exporterQueue \cup {e}
  /\ UNCHANGED <<objects, exporterCache, moduleCache, exporterEvents,
                 moduleEvents, moduleQueue, workers, history>>

-----------------------------------------------------------------------------
(* BlackboxExporterReconciler.Reconcile *)

\* Mutant of RequeueExporter: the error is logged and not returned.
GiveUpExporter == xw' = Idle /\ UNCHANGED exporterQueue

\* Reconcile returns an error: the key goes back into the queue.
RequeueExporter ==
  xw' = Idle /\ exporterQueue' = exporterQueue \cup {xw.key}

\* Mutant of GetExporter: that the exporter is gone is an error like any other.
GetExporterOrRetry(e) ==
  /\ xw.pc = "idle"
  /\ e \in exporterQueue
  /\ IF exporterCache[e].live
       THEN /\ exporterQueue' = exporterQueue \ {e}
            /\ xw' = [pc |-> "collect", key |-> e, obj |-> exporterCache[e],
                      data |-> EmptyConfig]
       ELSE UNCHANGED <<exporterQueue, xw>>
  /\ UNCHANGED <<objects, caches, events, moduleQueue, mw, history>>

GetExporter(e) ==
  /\ xw.pc = "idle"
  /\ e \in exporterQueue
  /\ exporterQueue' = exporterQueue \ {e}
  /\ xw' = IF exporterCache[e].live
             THEN [pc |-> "collect", key |-> e, obj |-> exporterCache[e],
                   data |-> EmptyConfig]
             ELSE Idle
  /\ UNCHANGED <<objects, caches, events, moduleQueue, mw, history>>

CollectModules ==
  /\ xw.pc = "collect"
  /\ IF \E m \in Collected(xw.key, xw.obj) :
          ConvertModule[moduleCache[m].body] = ConvertPanic
       THEN RequeueExporter /\ UNCHANGED <<lost, left>>
       ELSE /\ \E d \in Renderings(xw.key, xw.obj) :
                 xw' = [xw EXCEPT !.pc = "config", !.data = d]
            /\ lost' = {p \in lost : p[1] # xw.key}
            /\ left' = {p \in left : p[1] # xw.key}
            /\ UNCHANGED exporterQueue
  /\ UNCHANGED <<objects, caches, events, moduleQueue, mw, edits, drops, shuffles, made>>

\* CreateOrUpdate finds the cached ConfigMap as it should be.
ConfigMapUpToDate ==
  /\ configMapCache[xw.key].live
  /\ configMapCache[xw.key].owner = xw.obj.uid
  /\ configMapCache[xw.key].data = xw.data

\* Otherwise it updates the ConfigMap it read, or creates the one it missed.
ConfigMapWritable ==
  IF configMapCache[xw.key].live
    THEN Current(configMap[xw.key], configMapCache[xw.key])
    ELSE ~ configMap[xw.key].live

ReconcileConfigMap(reply) ==
  /\ xw.pc = "config"
  /\ IF ConfigMapUpToDate \/ (ConfigMapWritable /\ reply # "error")
       THEN made' = [made EXCEPT ![xw.key] = Version(xw.obj)]
       ELSE UNCHANGED made
  /\ \/ /\ ConfigMapUpToDate
        /\ xw' = [xw EXCEPT !.pc = "owned"]
        /\ UNCHANGED <<configMap, configMapEvents, exporterQueue>>
     \/ /\ ~ ConfigMapUpToDate
        /\ IF ConfigMapWritable /\ reply # "error"
             THEN WriteConfigMap(xw.key,
                    [live |-> TRUE, rv |-> configMap[xw.key].rv + 1,
                     owner |-> xw.obj.uid, data |-> xw.data])
             ELSE UNCHANGED <<configMap, configMapEvents>>
        /\ IF ConfigMapWritable /\ reply = "ok"
             THEN xw' = [xw EXCEPT !.pc = "owned"] /\ UNCHANGED exporterQueue
             ELSE RequeueExporter
  /\ UNCHANGED <<exporter, module, caches, exporterEvents, moduleEvents,
                 moduleQueue, mw, edits, drops, shuffles, lost, left>>

\* reconcileDeployment, reconcileService and reconcileServiceMonitor: here
\* only that one of them may fail, which leaves the rest undone.
ReconcileOwned(ok) ==
  /\ xw.pc = "owned"
  /\ IF ok THEN xw' = [xw EXCEPT !.pc = "status"] /\ UNCHANGED exporterQueue
           ELSE RequeueExporter
  /\ UNCHANGED <<objects, caches, events, moduleQueue, mw, history>>

UpdateExporterStatus(reply) ==
  /\ xw.pc = "status"
  /\ LET e   == xw.key
         obj == ExporterReport(xw.obj, xw.data)
     IN  /\ IF Current(exporter[e], xw.obj) /\ reply # "error" /\ Changes(obj, xw.obj)
              THEN WriteExporter(e, ExporterStatusUpdated(e, obj))
              ELSE UNCHANGED <<exporter, exporterEvents>>
         /\ IF Current(exporter[e], xw.obj) /\ reply = "ok"
              THEN xw' = Idle /\ UNCHANGED exporterQueue
              ELSE RequeueExporter
  /\ UNCHANGED <<module, configMap, caches, moduleEvents, configMapEvents,
                 moduleQueue, mw, history>>

-----------------------------------------------------------------------------
(* BlackboxModuleReconciler.Reconcile *)

RequeueModule ==
  mw' = Idle /\ moduleQueue' = moduleQueue \cup {mw.key}

GetModule(m) ==
  /\ mw.pc = "idle"
  /\ m \in moduleQueue
  /\ moduleQueue' = moduleQueue \ {m}
  /\ mw' = IF moduleCache[m].live
             THEN [pc |-> "list", key |-> m, obj |-> moduleCache[m],
                   refs |-> <<>>, todo |-> {}]
             ELSE Idle
  /\ UNCHANGED <<objects, caches, events, exporterQueue, xw, history>>

\* Convert the module, then list the exporters that select it.
ListExporters ==
  /\ mw.pc = "list"
  /\ IF ConvertModule[mw.obj.body] = ConvertPanic
       THEN RequeueModule /\ UNCHANGED shuffles
       ELSE /\ \E s \in Orders(Referencing(mw.key, mw.obj)) :
                 /\ IF Range(s) = Range(mw.obj.refs) /\ s # mw.obj.refs
                      THEN shuffles < MaxShuffles /\ shuffles' = shuffles + 1
                      ELSE UNCHANGED shuffles
                 /\ mw' = [mw EXCEPT !.pc = "status", !.refs = s,
                                     !.todo = Referencing(mw.key, mw.obj)]
            /\ UNCHANGED moduleQueue
  /\ UNCHANGED <<objects, caches, events, exporterQueue, xw, edits, drops, made, lost, left>>

\* Mutant of Touching: the loop ends after its first turn.
TouchingOnce(obj, todo) ==
  IF todo = {} \/ mw.pc = "touch"
    THEN Idle ELSE [mw EXCEPT !.pc = "touch", !.obj = obj, !.todo = todo]

\* Mutant of Touching: no touch for a module that does not convert.
TouchingIfValid(obj, todo) ==
  IF todo = {} \/ ~ obj.valid
    THEN Idle ELSE [mw EXCEPT !.pc = "touch", !.obj = obj, !.todo = todo]

\* Mutant of Touching: no touch when the status was up to date already.
TouchingIfReported(obj, todo) ==
  IF todo = {} \/ (mw.pc = "status" /\ obj.rv = mw.obj.rv)
    THEN Idle ELSE [mw EXCEPT !.pc = "touch", !.obj = obj, !.todo = todo]

\* The worker, with the exporters of todo still to be touched.
Touching(obj, todo) ==
  IF todo = {} THEN Idle ELSE [mw EXCEPT !.pc = "touch", !.obj = obj, !.todo = todo]

UpdateModuleStatus(reply) ==
  /\ mw.pc = "status"
  /\ LET m   == mw.key
         obj == ModuleReport(mw.obj, mw.refs)
     IN  /\ IF Current(module[m], mw.obj) /\ reply # "error" /\ Changes(obj, mw.obj)
              THEN WriteModule(m, ModuleStatusUpdated(m, obj))
              ELSE UNCHANGED <<module, moduleEvents>>
         /\ IF Current(module[m], mw.obj) /\ reply = "ok"
              THEN mw' = Touching(module'[m], mw.todo) /\ UNCHANGED moduleQueue
              ELSE RequeueModule
  /\ UNCHANGED <<exporter, configMap, caches, exporterEvents, configMapEvents,
                 exporterQueue, xw, history>>

\* One turn of the loop that touches the referencing exporters, in the order
\* of the list they came from, which is random.  An update that fails is
\* logged and forgotten.
TouchExporter(e, reply) ==
  /\ mw.pc = "touch"
  /\ e \in mw.todo
  /\ LET old == exporterCache[e]
         obj == Touched(mw.key, mw.obj, old)
         due == old.live /\ Current(exporter[e], old) /\ Changes(obj, old)
     IN  /\ IF due /\ reply # "error"
              THEN WriteExporter(e, ExporterUpdated(e, obj))
              ELSE UNCHANGED <<exporter, exporterEvents>>
         /\ IF due /\ reply = "error"
              THEN /\ drops < MaxDrops /\ drops' = drops + 1
                   /\ lost' = lost \cup {<<e, mw.key>>}
              ELSE UNCHANGED <<drops, lost>>
  /\ mw' = Touching(mw.obj, mw.todo \ {e})
  /\ UNCHANGED <<module, configMap, caches, moduleEvents, configMapEvents,
                 queues, xw, edits, shuffles, made, left>>

-----------------------------------------------------------------------------
(* The specification *)

\* The operator starts on a cluster where users have applied some exporters
\* and modules already, and nothing has been rendered yet.
Init ==
  /\ exporter \in [Exporters ->
       {[live |-> l, rv |-> 1, uid |-> 1, gen |-> 1, spec |-> s, touch |-> {},
         moduleCount |-> 0, observed |-> 0] : l \in BOOLEAN, s \in Selectors}]
  /\ module \in [Modules ->
       {[live |-> l, rv |-> 1, gen |-> 1, labels |-> ls, body |-> b,
         valid |-> FALSE, refs |-> <<>>, observed |-> 0] :
           l \in BOOLEAN, ls \in LabelSets, b \in Bodies}]
  /\ configMap = [e \in Exporters |->
       [live |-> FALSE, rv |-> 0, owner |-> 0, data |-> EmptyConfig]]
  /\ exporterCache = exporter /\ moduleCache = module /\ configMapCache = configMap
  /\ exporterEvents = {} /\ moduleEvents = {} /\ configMapEvents = {}
  /\ exporterQueue = {e \in Exporters : exporter[e].live}
  /\ moduleQueue = {m \in Modules : module[m].live}
  /\ xw = Idle /\ mw = Idle
  /\ edits = 0 /\ drops = 0 /\ shuffles = 0
  /\ made = [e \in Exporters |-> 0]
  /\ lost = {} /\ left = {}

Users ==
  \/ \E e \in Exporters, s \in Selectors : CreateExporter(e, s) \/ EditExporter(e, s)
  \/ \E e \in Exporters : DeleteExporter(e)
  \/ \E m \in Modules, l \in LabelSets, b \in Bodies : CreateModule(m, l, b)
  \/ \E m \in Modules, l \in LabelSets : RelabelModule(m, l)
  \/ \E m \in Modules, b \in Bodies : EditModule(m, b)
  \/ \E m \in Modules : DeleteModule(m)
  \/ \E e \in Exporters, n \in Names : EditConfigMap(e, n)
  \/ \E e \in Exporters : DeleteConfigMap(e)

Environment ==
  \/ Resync
  \/ Restart
  \/ \E e \in Exporters : CollectGarbage(e) \/ DeliverExporter(e) \/ DeliverConfigMap(e)
  \/ \E m \in Modules : DeliverModule(m)

ReconcileExporter ==
  \/ \E e \in Exporters : GetExporter(e)
  \/ CollectModules
  \/ \E reply \in Replies : ReconcileConfigMap(reply)
  \/ \E ok \in BOOLEAN : ReconcileOwned(ok)
  \/ \E reply \in Replies : UpdateExporterStatus(reply)

ReconcileModule ==
  \/ \E m \in Modules : GetModule(m)
  \/ ListExporters
  \/ \E reply \in Replies : UpdateModuleStatus(reply)
  \/ \E e \in Exporters, reply \in Replies : TouchExporter(e, reply)

Next == Users \/ Environment \/ ReconcileExporter \/ ReconcileModule

Spec == Init /\ [][Next]_vars

\* Watches deliver, the garbage collector collects, and a worker with a key
\* to work on proceeds.  Requests may fail again and again, but one that is
\* retried forever is answered in the end.  Nothing is assumed of the users,
\* of restarts, or that a request ever fails.
Fairness ==
  /\ \A e \in Exporters :
       /\ WF_vars(DeliverExporter(e))
       /\ WF_vars(DeliverConfigMap(e))
       /\ WF_vars(CollectGarbage(e))
       /\ SF_vars(GetExporter(e))
       /\ WF_vars(TouchExporter(e, "ok"))
  /\ \A m \in Modules :
       /\ WF_vars(DeliverModule(m))
       /\ SF_vars(GetModule(m))
  /\ WF_vars(CollectModules)
  /\ WF_vars(ListExporters)
  /\ SF_vars(ReconcileConfigMap("ok"))
  /\ SF_vars(ReconcileOwned(TRUE))
  /\ SF_vars(UpdateExporterStatus("ok"))
  /\ SF_vars(UpdateModuleStatus("ok"))

FairSpec == Spec /\ Fairness

-----------------------------------------------------------------------------
(* Properties *)

\* Nothing is left to do until a user acts.
Quiescent ==
  /\ exporterEvents = {} /\ moduleEvents = {} /\ configMapEvents = {}
  /\ exporterQueue = {} /\ moduleQueue = {}
  /\ xw = Idle /\ mw = Idle
  /\ \A e \in Exporters : ~ Garbage(e)

\* Module m belongs into the configuration of exporter e.
Wants(e, m) ==
  /\ exporter[e].live
  /\ Selected(e, exporter[e], m, module[m])
  /\ ConvertModule[module[m].body] \in Entries

\* No other module has the name of m.
Unshared(m) == \A k \in Modules : ModuleName[k] = ModuleName[m] => k = m

\* A configuration holds the current rendering of m; or, when other modules have
\* its name, an entry of the one that was last in the list it was rendered from.
Holds(d, m) ==
  /\ d[ModuleName[m]] \in Entries
  /\ Unshared(m) => d[ModuleName[m]] = ConvertModule[module[m].body]

Serves(e, m) == configMap[e].live /\ Holds(configMap[e].data, m)

\* When the operator has come to rest every exporter's blackbox.yml holds the
\* current configuration of every module it selects, although nothing in the
\* exporter controller watches modules: the annotation the module controller
\* writes must have reached every exporter that needs it.  Conflicts, failed
\* and lost answers, restarts and edits of the ConfigMap do not matter.  A touch
\* whose request fails does, but only to this module on this exporter, and only
\* until the exporter is reconciled for whatever reason.  Of the modules that
\* share a name, as a-b/c and a/b-c do, there is one entry, which may be any one's.
ConfigComplete ==
  Quiescent =>
    \A e \in Exporters, m \in Modules :
      Wants(e, m) => Serves(e, m) \/ <<e, m>> \in lost

\* When the operator has come to rest blackbox.yml has no entry of a module that
\* does not belong into it, one that no longer converts say, unless the exporter
\* stopped selecting the module, or the touch was lost, and the exporter has not
\* been reconciled since.  See ModulesRemoved for what the documentation says.
NothingElse ==
  Quiescent =>
    \A e \in Exporters, m \in Modules :
      /\ exporter[e].live /\ Unshared(m)
      /\ configMap[e].data[ModuleName[m]] # None
      => Wants(e, m) \/ <<e, m>> \in lost \cup left

\* When the operator has come to rest every exporter has its ConfigMap, owned
\* by this incarnation of the exporter, and no other ConfigMap is left.
ConfigMapOwned ==
  Quiescent => \A e \in Exporters :
    /\ configMap[e].live <=> exporter[e].live
    /\ exporter[e].live => configMap[e].owner = exporter[e].uid

\* When the operator has come to rest status tells the truth: an exporter
\* reports the number of modules in its ConfigMap, for its last generation,
\* and a module has been judged in its last generation.
StatusSettled ==
  Quiescent =>
    /\ \A e \in Exporters : exporter[e].live =>
         /\ exporter[e].observed = exporter[e].gen
         /\ exporter[e].moduleCount = Cardinality(Rendered(configMap[e].data))
    /\ \A m \in Modules : module[m].live =>
         module[m].observed = module[m].gen

\* At any time, a module whose observedGeneration is current has the verdict
\* on the spec it has now, never one computed from an older spec; and one whose
\* conversion panics is not reported on at all.
VerdictCurrent ==
  \A m \in Modules :
    module[m].live /\ module[m].observed = module[m].gen =>
      /\ module[m].valid <=> ConvertModule[module[m].body] \in Entries
      /\ ConvertModule[module[m].body] # ConvertPanic

\* Only users change a spec: the module controller writes back a whole
\* exporter it read from a cache, and must not undo a user's edit with it.
UserIntentKept ==
  [][\A e \in Exporters :
       exporter'[e].spec # exporter[e].spec => edits' = edits + 1]_vars

\* A status is only ever written for the generation the object has at that
\* moment: a reconcile of an old spec cannot report on a new one.
StatusForCurrent ==
  [][/\ \A e \in Exporters :
          exporter'[e].observed # exporter[e].observed /\ edits' = edits
            => exporter'[e].observed = exporter'[e].gen
     /\ \A m \in Modules :
          module'[m].observed # module[m].observed /\ edits' = edits
            => module'[m].observed = module'[m].gen]_vars

\* The operator comes to rest once users leave it alone: the status writes of
\* the two controllers, which enqueue their own keys, and the touches, which
\* enqueue the exporters, do not keep each other going.
Settles == <>[]Quiescent

\* The promise: an exporter's generation is reported as observed only while it
\* is the current one, after its ConfigMap was brought in line with that very
\* spec, and never is it brought in line with an older spec than before; through
\* stale caches, conflicts, lost answers, restarts, and an exporter made anew.
Promised == INSTANCE Projection WITH
  Sources  <- Exporters,
  Parts    <- {"config"},
  source   <- [e \in Exporters |-> Version(exporter[e])],
  derived  <- [e \in Exporters |-> [part \in {"config"} |-> made[e]]],
  reported <- [e \in Exporters |->
                 IF exporter[e].observed = 0
                   THEN 0 ELSE exporter[e].uid + exporter[e].observed - 1]

Refines == Promised!Spec

-----------------------------------------------------------------------------
(* What the documentation promises and the code does not keep *)

\* "Watches: BlackboxModule (to rebuild ConfigMap on module changes)": at rest
\* no ConfigMap holds an entry no selected module accounts for.  Only the
\* exporters that select the module as it is now are touched, so one that a
\* module left, by deletion or by a new label, keeps the old entry.
ModulesRemoved ==
  Quiescent => \A e \in Exporters, n \in Names :
    exporter[e].live /\ configMap[e].data[n] # None =>
      \E m \in Modules : ModuleName[m] = n /\ Wants(e, m)

\* "referencedByExporters: exporters that include this module": at rest the
\* list names the exporters that select the module.  The module controller
\* does not watch exporters.
ReferencesCurrent ==
  Quiescent => \A m \in Modules : module[m].live =>
    Range(module[m].refs) =
      {e \in Exporters : exporter[e].live /\ Selected(e, exporter[e], m, module[m])}

\* "Trigger reconciliation of referencing exporters": ConfigComplete, even
\* when a touch of an exporter failed.  The error is logged, not returned.
TouchDelivered ==
  Quiescent => \A e \in Exporters, m \in Modules : Wants(e, m) => Serves(e, m)
=============================================================================
