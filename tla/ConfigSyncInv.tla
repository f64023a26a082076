--------------------------- MODULE ConfigSyncInv ---------------------------
(***************************************************************************)
(* The inductive invariant of ConfigSync: why a system that has come to    *)
(* rest has rendered everything.  TLC checks it on small instances,        *)
(* ConfigSyncRefines_proofs has the theorem.                               *)
(***************************************************************************)
EXTENDS ConfigSync

\* The exporter worker is inside Reconcile for e, at one of the given places.
ExporterAt(e, places) == xw.pc \in places /\ xw.key = e

ModuleAt(m, places) == mw.pc \in places /\ mw.key = m

\* Another reconcile of e (of m) is certain.
ExporterPending(e) == e \in exporterEvents \cup configMapEvents \cup exporterQueue

ModulePending(m) == m \in moduleEvents \cup moduleQueue

\* The module worker still has to touch e for m, if e selects m.
TouchPending(e, m) ==
  \/ ModuleAt(m, {"list"})
  \/ ModuleAt(m, {"status", "touch"}) /\ e \in mw.todo

\* What users decide about a module.
SameContent(a, b) == a.live = b.live /\ a.labels = b.labels /\ a.body = b.body

-----------------------------------------------------------------------------
(* Versions *)

\* b is an older state of a, or the same one.
Older(b, a) == b.rv <= a.rv /\ (b.rv = a.rv => b = a)

CachesOlder ==
  /\ \A e \in Exporters : Older(exporterCache[e], exporter[e])
  /\ \A m \in Modules : Older(moduleCache[m], module[m])

\* A cache is behind only as long as an event is on its way.
CachesCurrent ==
  /\ \A e \in Exporters : e \notin exporterEvents => exporterCache[e] = exporter[e]
  /\ \A m \in Modules : m \notin moduleEvents => moduleCache[m] = module[m]
  /\ \A e \in Exporters : e \notin configMapEvents => configMapCache[e] = configMap[e]

\* A worker's object is as old as the cache it came from, and the cache moved
\* on only if the key is queued again.
ExporterWorkerVersion ==
  xw.pc # "idle" =>
    /\ Older(xw.obj, exporter[xw.key])
    /\ xw.key \notin exporterQueue => xw.obj = exporterCache[xw.key]

ModuleWorkerVersion ==
  /\ mw.pc \in {"list", "status"} =>
       /\ Older(mw.obj, module[mw.key])
       /\ mw.obj.rv <= moduleCache[mw.key].rv
       /\ mw.key \notin moduleQueue => mw.obj = moduleCache[mw.key]
  /\ mw.pc = "touch" =>
       /\ mw.obj.rv <= module[mw.key].rv
       /\ ~ ModulePending(mw.key) => mw.obj.rv = module[mw.key].rv
       /\ mw.obj.rv = module[mw.key].rv =>
            SameContent(moduleCache[mw.key], module[mw.key])

\* The annotation never names a version a module does not have yet, and while
\* it names the current one the cache has the content of that version.
TouchVersion ==
  \A e \in Exporters : \A t \in exporter[e].touch :
    /\ t[2] <= module[t[1]].rv
    /\ t[2] = module[t[1]].rv => SameContent(moduleCache[t[1]], module[t[1]])

-----------------------------------------------------------------------------
(* Progress of the configuration *)

\* The exporter selects the module.
Selects(e, m) == exporter[e].live /\ Selected(e, exporter[e], m, module[m])

\* A configuration is right about a module that is selected: it has an entry, or
\* none if the module does not convert.
Suits(d, m) ==
  IF ConvertModule[module[m].body] \in Entries
    THEN Holds(d, m) ELSE Unshared(m) => d[ModuleName[m]] = None

\* The exporter worker will render m into the ConfigMap of e, is about to
\* write it, or it is there.
Fresh(e, m) ==
  \/ ExporterAt(e, {"collect"})
  \/ /\ ExporterAt(e, {"config"})
     /\ Suits(xw.data, m)
  \/ /\ ~ ExporterAt(e, {"collect", "config"})
     /\ configMap[e].live /\ Suits(configMap[e].data, m)

\* A selected module the configuration is not right about has something pending
\* that will change that, or a touch of the exporter was lost.
Traced ==
  \A e \in Exporters, m \in Modules :
    Selects(e, m) => \/ ExporterPending(e) \/ Fresh(e, m)
                     \/ ModulePending(m) \/ TouchPending(e, m)
                     \/ <<e, m>> \in lost

\* Once the annotation names the current version of m, the exporter alone
\* brings m into the configuration: another touch would change nothing.
TouchSuffices ==
  \A e \in Exporters, m \in Modules :
    /\ Selects(e, m)
    /\ <<m, module[m].rv>> \in exporter[e].touch
    => ExporterPending(e) \/ Fresh(e, m)

\* The configuration that is in the ConfigMap, or about to be.
Coming(e) == IF ExporterAt(e, {"config"}) THEN xw.data ELSE configMap[e].data

\* An entry is that of a module the cache says is selected, or that has left.
Accounted ==
  \A e \in Exporters, m \in Modules :
    /\ exporter[e].live /\ ~ ExporterPending(e) /\ ~ ExporterAt(e, {"collect"})
    /\ Unshared(m) /\ Coming(e)[ModuleName[m]] # None
    => \/ Selected(e, exporter[e], m, moduleCache[m])
       \/ <<e, m>> \in left

\* The ConfigMap's owner, and its data behind the worker's back.
OwnerTraced ==
  \A e \in Exporters : exporter[e].live =>
    \/ ExporterPending(e)
    \/ ExporterAt(e, {"collect", "config"})
    \/ configMap[e].live /\ configMap[e].owner = exporter[e].uid

DataTraced ==
  \A e \in Exporters : exporter[e].live /\ ExporterAt(e, {"owned", "status"}) =>
    ExporterPending(e) \/ configMap[e].data = xw.data

\* Status is right, or will be written again.
ExporterStatusTraced ==
  \A e \in Exporters : exporter[e].live =>
    \/ ExporterPending(e)
    \/ ExporterAt(e, {"collect", "config", "owned", "status"})
    \/ /\ exporter[e].observed = exporter[e].gen
       /\ exporter[e].moduleCount = Cardinality(Rendered(configMap[e].data))

ModuleStatusTraced ==
  \A m \in Modules : module[m].live =>
    \/ ModulePending(m)
    \/ ModuleAt(m, {"list", "status"})
    \/ module[m].observed = module[m].gen

ObservedBounded == \A m \in Modules : module[m].observed <= module[m].gen

\* The worker does not report on a conversion that panicked.
JudgedConverted ==
  mw.pc = "status" => ConvertModule[mw.obj.body] # ConvertPanic

-----------------------------------------------------------------------------
(* The history of the ConfigMaps *)

\* A ConfigMap is made from versions in their order, the cache and the worker
\* are between it and the exporter, and past the ConfigMap they are equal to it.
MadeInOrder ==
  \A e \in Exporters :
    /\ made[e] <= Version(exporterCache[e])
    /\ Version(exporterCache[e]) <= Version(exporter[e])
    /\ Version(exporter[e]) <= exporter[e].rv
    /\ ExporterAt(e, {"collect", "config", "owned", "status"}) =>
         /\ made[e] <= Version(xw.obj)
         /\ Version(xw.obj) <= Version(exporterCache[e])
    /\ ExporterAt(e, {"owned", "status"}) => made[e] = Version(xw.obj)

-----------------------------------------------------------------------------
(* All together *)

Safe ==
  /\ TypeOK
  /\ CachesOlder /\ CachesCurrent
  /\ ExporterWorkerVersion /\ ModuleWorkerVersion /\ TouchVersion
  /\ OwnerTraced /\ DataTraced
  /\ ExporterStatusTraced /\ ModuleStatusTraced
  /\ ObservedBounded /\ JudgedConverted /\ VerdictCurrent

\* Why nothing is missing from a configuration, and nothing else is in it.
Complete == Traced /\ TouchSuffices /\ Accounted

IInv == Safe /\ MadeInOrder /\ Complete
=============================================================================
