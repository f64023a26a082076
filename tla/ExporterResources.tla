-------------------------- MODULE ExporterResources -------------------------
(***************************************************************************)
(* The Deployment, the Service and the ServiceMonitor of a                 *)
(* BlackboxExporter, in the order in which the exporter controller         *)
(* reconciles them, and the readiness that comes back from the Deployment  *)
(* into the status.                                                        *)
(*                                                                         *)
(* What ConfigSync says of this controller in one step (ReconcileOwned) is *)
(* said here in full; the configuration, which comes before, is left to    *)
(* ConfigSync.  All three objects have one name, which others may use: an  *)
(* object without a controller is taken over, one with another controller  *)
(* is an error, and a ServiceMonitor that is not wanted is deleted.  Some  *)
(* objects the API server never takes.                                     *)
(***************************************************************************)
EXTENDS Integers, Labels

CONSTANTS
  Exporters,      \* the BlackboxExporter keys
  Specs,          \* the specs users submit
  ServiceNames,   \* the keys whose Service may have its name (a dot is too much)
  Alien,          \* what an object someone else made holds
  Tampered,       \* what an object of the operator holds after someone edited it
  Replies,        \* the outcomes of a write request, see ReplyAssumption
  MaxEdits        \* bound on what users, failing pods, restarts and resyncs do

ASSUME ContentAssumption ==
  \A s \in Specs : /\ s.replicas \in Int /\ s.port \in Int
                   /\ s.monitor \in BOOLEAN /\ s.listen \in Nat

ASSUME ReplyAssumption == "ok" \in Replies /\ Replies \subseteq {"ok", "error", "lost"}

ASSUME BoundAssumption == MaxEdits \in Nat

VARIABLES
  exporter,        \* the BlackboxExporter objects of the API server
  child,           \* the three objects with the name of each
  exporterCache,   \* the manager's informer caches
  childCache,
  exporterEvents,  \* keys with watch events that are not delivered yet
  childEvents,     \* ... and whether the operator owned the object before or after
  queue,           \* the exporter controller's work queue
  worker,          \* its worker
  made,            \* history: the version each object was last made from
  edits            \* what users, failing pods, restarts and resyncs did so far

objects == <<exporter, child>>
caches  == <<exporterCache, childCache>>
events  == <<exporterEvents, childEvents>>
vars    == <<objects, caches, events, queue, worker, made, edits>>

-----------------------------------------------------------------------------
(* What the code computes *)

\* The objects, in the order in which they are reconciled.
Kinds == {"deployment", "service", "monitor"}

\* validateExporterSpec.
Admitted(spec) ==
  /\ spec.port # 0 => spec.port >= 1 /\ spec.port <= 65535
  /\ spec.replicas >= 0

DefaultPort == 9115

Port(spec) == IF spec.port # 0 THEN spec.port ELSE DefaultPort

\* What the Deployment selects its pods by, and the Service and the
\* ServiceMonitor theirs.
selectorLabels(e) == [name |-> "blackbox-exporter", instance |-> e]

commonLabels(e, spec) ==
  Over([name |-> "blackbox-exporter", instance |-> e,
        managedBy |-> "blackbox-exporter-operator", component |-> "exporter"],
       spec.additionalLabels)

\* What the code puts into each object.  The arguments matter by the port they
\* make the process listen on, 0 if they name none; the rest of the pod is
\* copied.
Deployment(e, spec) ==
  [labels |-> commonLabels(e, spec), selector |-> selectorLabels(e),
   replicas |-> spec.replicas, port |-> Port(spec), listen |-> spec.listen,
   pod |-> spec.pod]

Service(e, spec) ==
  [labels |-> commonLabels(e, spec), selector |-> selectorLabels(e), port |-> Port(spec)]

ServiceMonitor(e, spec) ==
  [labels |-> Over(commonLabels(e, spec), spec.monitorLabels),
   selector |-> selectorLabels(e),
   interval |-> IF spec.interval # "" THEN spec.interval ELSE "30s"]

Rendered(e, k, spec) ==
  CASE k = "deployment" -> Deployment(e, spec)
    [] k = "service"    -> Service(e, spec)
    [] k = "monitor"    -> ServiceMonitor(e, spec)

Wanted(k, spec) == k = "monitor" => spec.monitor

\* An object that someone edited differs from every one the code makes.
ASSUME TamperedAssumption ==
  \A e \in Exporters, k \in Kinds, s \in Specs : Rendered(e, k, s) # Tampered

\* The version of an exporter: it grows with every edit of the spec, and with
\* every new incarnation.
Version(eo) == eo.uid + eo.gen - 1

-----------------------------------------------------------------------------
(* The API server and the pods *)

\* Texts that match the pattern of a duration in the CRD of ServiceMonitors.
PromDurations == {"30s", "1m"}

\* What the API server refuses whatever the version: pods the Deployment's own
\* selector does not select, a name that no Service may have, a duration that
\* is none.
Refused(e, k, data) ==
  \/ k = "deployment" /\ \E l \in DOMAIN data.selector : data.labels[l] # data.selector[l]
  \/ k = "service" /\ e \notin ServiceNames
  \/ k = "monitor" /\ data.interval \notin PromDurations

\* The selector of a Deployment cannot be changed, and someone else's differs.
Immutable(k, old) == k = "deployment" /\ old.live /\ old.data = Alien

\* The process listens where its arguments say, or on its own default.
ListenPort(data) == IF data.listen # 0 THEN data.listen ELSE 9115

\* Mutant of Current: a write without a resourceVersion, such as a merge patch.
CurrentUnlocked(new, old) == new.live

Current(new, old) == new.live /\ new.rv = old.rv

Changes(obj, old) == obj # old

Owned(c) == c.live /\ c.controller = "exporter"

Garbage(e, k) ==
  /\ Owned(child[e][k])
  /\ ~ (exporter[e].live /\ exporter[e].uid = child[e][k].owner)

-----------------------------------------------------------------------------
(* Types *)

ExporterSpec == {s \in Specs : Admitted(s)}

\* ready is status.readyReplicas; the condition Ready is True if it is above 0.
ExporterObject ==
  [live : BOOLEAN, rv : Nat, uid : Nat \ {0}, gen : Nat \ {0}, spec : ExporterSpec,
   ready : Nat, observed : Nat]

Contents ==
  {Alien, Tampered} \cup {Rendered(e, k, s) : e \in Exporters, k \in Kinds, s \in ExporterSpec}

\* controller tells whether the object has one and of which kind, owner is the
\* uid of the exporter if it is this one; ready counts the ready pods of a
\* Deployment.
ChildObject ==
  [live : BOOLEAN, rv : Nat, controller : {"none", "exporter", "other"}, owner : Nat,
   data : Contents, ready : Nat]

Idle == [pc |-> "idle"]

Work ==
  [pc : Kinds \cup {"read", "status"}, key : Exporters, obj : ExporterObject, ready : Nat]

TypeOK ==
  /\ exporter \in [Exporters -> ExporterObject]
  /\ child \in [Exporters -> [Kinds -> ChildObject]]
  /\ exporterCache \in [Exporters -> ExporterObject]
  /\ childCache \in [Exporters -> [Kinds -> ChildObject]]
  /\ exporterEvents \subseteq Exporters
  /\ childEvents \subseteq Exporters \X Kinds \X BOOLEAN
  /\ queue \subseteq Exporters
  /\ worker \in {Idle} \cup Work
  /\ worker.pc # "idle" => worker.obj.live
  /\ made \in [Exporters -> [Kinds -> Nat]]
  /\ edits \in Nat

-----------------------------------------------------------------------------
(* Users, pods and the environment *)

Edit == edits < MaxEdits /\ edits' = edits + 1 /\ UNCHANGED made

WriteExporter(e, obj) ==
  /\ exporter' = [exporter EXCEPT ![e] = obj]
  /\ exporterEvents' = exporterEvents \cup {e}

WriteChild(e, k, obj) ==
  /\ child' = [child EXCEPT ![e][k] = obj]
  /\ childEvents' = childEvents \cup {<<e, k, Owned(child[e][k]) \/ Owned(obj)>>}

Removed(c) == [c EXCEPT !.live = FALSE, !.rv = @ + 1, !.ready = 0]

CreateExporter(e, s) ==
  /\ Edit
  /\ ~ exporter[e].live
  /\ WriteExporter(e, [live |-> TRUE, rv |-> exporter[e].rv + 1,
                       uid |-> exporter[e].rv + 1, gen |-> 1, spec |-> s, ready |-> 0,
                       observed |-> 0])
  /\ UNCHANGED <<child, caches, childEvents, queue, worker>>

EditExporter(e, s) ==
  /\ Edit
  /\ exporter[e].live
  /\ exporter[e].spec # s
  /\ WriteExporter(e, [exporter[e] EXCEPT !.rv = @ + 1, !.gen = @ + 1, !.spec = s])
  /\ UNCHANGED <<child, caches, childEvents, queue, worker>>

DeleteExporter(e) ==
  /\ Edit
  /\ exporter[e].live
  /\ WriteExporter(e, [exporter[e] EXCEPT !.rv = @ + 1, !.live = FALSE])
  /\ UNCHANGED <<child, caches, childEvents, queue, worker>>

\* An object of that name and kind which someone else made.
Foreign(c, controller) ==
  [live |-> TRUE, rv |-> c.rv + 1, controller |-> controller, owner |-> 0,
   data |-> Alien, ready |-> 0]

\* No object of that name yet, or one that was there before the operator.
Absent ==
  [live |-> FALSE, rv |-> 0, controller |-> "none", owner |-> 0, data |-> Alien, ready |-> 0]

Strangers == {Foreign(Absent, "none"), Foreign(Absent, "other")}

CreateForeign(e, k, controller) ==
  /\ Edit
  /\ ~ child[e][k].live
  /\ WriteChild(e, k, Foreign(child[e][k], controller))
  /\ UNCHANGED <<exporter, caches, exporterEvents, queue, worker>>

\* Someone edits what the operator made, or deletes an object.
EditChild(e, k) ==
  /\ Edit
  /\ Owned(child[e][k])
  /\ WriteChild(e, k, [child[e][k] EXCEPT !.rv = @ + 1, !.data = Tampered])
  /\ UNCHANGED <<exporter, caches, exporterEvents, queue, worker>>

DeleteChild(e, k) ==
  /\ Edit
  /\ child[e][k].live
  /\ WriteChild(e, k, Removed(child[e][k]))
  /\ UNCHANGED <<exporter, caches, exporterEvents, queue, worker>>

\* The pods of a Deployment as the operator wrote it: as many as it says get
\* ready if the process listens on the port the probe of the kubelet asks; if
\* not, those that were ready before may stay, as a rolling update leaves them.
PodsTarget(c) ==
  IF ListenPort(c.data) = c.data.port \/ c.ready > c.data.replicas
    THEN c.data.replicas ELSE c.ready

PodsSettled(c) == c.data = Tampered \/ c.ready = PodsTarget(c)

PodsChange(e) ==
  /\ LET c == child[e]["deployment"]
     IN  /\ Owned(c) /\ ~ PodsSettled(c)
         /\ WriteChild(e, "deployment", [c EXCEPT !.rv = @ + 1, !.ready = PodsTarget(c)])
  /\ UNCHANGED <<exporter, caches, exporterEvents, queue, worker, made, edits>>

PodsFail(e) ==
  /\ Edit
  /\ child[e]["deployment"].ready > 0
  /\ WriteChild(e, "deployment",
                [child[e]["deployment"] EXCEPT !.rv = @ + 1, !.ready = 0])
  /\ UNCHANGED <<exporter, caches, exporterEvents, queue, worker>>

Resync(e) ==
  /\ Edit
  /\ queue' = queue \cup {e}
  /\ UNCHANGED <<objects, caches, events, worker>>

Restart ==
  /\ Edit
  /\ exporterCache' = exporter /\ childCache' = child
  /\ exporterEvents' = {} /\ childEvents' = {}
  /\ queue' = {e \in Exporters :
                 exporter[e].live \/ \E k \in Kinds : Owned(child[e][k])}
  /\ worker' = Idle
  /\ UNCHANGED objects

\* As in ConfigSync: a collection the operator's cache is not ready for is
\* counted.
CollectGarbage(e, k) ==
  /\ Garbage(e, k)
  /\ IF e \in exporterEvents THEN Edit ELSE UNCHANGED <<made, edits>>
  /\ WriteChild(e, k, Removed(child[e][k]))
  /\ UNCHANGED <<exporter, caches, exporterEvents, queue, worker>>

-----------------------------------------------------------------------------
(* Watch events *)

DeliverExporter(e) ==
  /\ e \in exporterEvents
  /\ exporterEvents' = exporterEvents \ {e}
  /\ exporterCache' = [exporterCache EXCEPT ![e] = exporter[e]]
  /\ queue' = queue \cup {e}
  /\ UNCHANGED <<objects, childCache, childEvents, worker, made, edits>>

\* Mutant of DeliverChild: the controller does not own that kind.
DeliverChildUnowned(e, k) ==
  /\ \E owned \in BOOLEAN : <<e, k, owned>> \in childEvents
  /\ childEvents' = childEvents \ {<<e, k, TRUE>>, <<e, k, FALSE>>}
  /\ childCache' = [childCache EXCEPT ![e][k] = child[e][k]]
  /\ UNCHANGED <<objects, exporterCache, exporterEvents, queue, worker, made, edits>>

\* Mutant of DeliverChild: a change of the status only, such as its readiness, is
\* filtered out.
DeliverChildFiltered(e, k) ==
  /\ \E owned \in BOOLEAN : <<e, k, owned>> \in childEvents
  /\ childEvents' = childEvents \ {<<e, k, TRUE>>, <<e, k, FALSE>>}
  /\ childCache' = [childCache EXCEPT ![e][k] = child[e][k]]
  /\ queue' = IF <<e, k, TRUE>> \in childEvents
                   /\ [child[e][k] EXCEPT !.rv = 0, !.ready = 0] #
                        [childCache[e][k] EXCEPT !.rv = 0, !.ready = 0]
                 THEN queue \cup {e} ELSE queue
  /\ UNCHANGED <<objects, exporterCache, exporterEvents, worker, made, edits>>

\* The owner of the object, before or after a change, is enqueued.
DeliverChild(e, k) ==
  /\ \E owned \in BOOLEAN : <<e, k, owned>> \in childEvents
  /\ childEvents' = childEvents \ {<<e, k, TRUE>>, <<e, k, FALSE>>}
  /\ childCache' = [childCache EXCEPT ![e][k] = child[e][k]]
  /\ queue' = IF <<e, k, TRUE>> \in childEvents THEN queue \cup {e} ELSE queue
  /\ UNCHANGED <<objects, exporterCache, exporterEvents, worker, made, edits>>

-----------------------------------------------------------------------------
(* BlackboxExporterReconciler.Reconcile, after the ConfigMap *)

\* Reconcile returns an error: the key goes back into the queue.
Requeue == worker' = Idle /\ queue' = queue \cup {worker.key}

\* Mutants of GetExporter: that the exporter is gone is not noticed, or is an
\* error like any other.
GetExporterUnchecked(e) ==
  /\ worker.pc = "idle"
  /\ e \in queue
  /\ queue' = queue \ {e}
  /\ worker' = [pc |-> "deployment", key |-> e, obj |-> exporterCache[e],
                ready |-> exporterCache[e].ready]
  /\ UNCHANGED <<objects, caches, events, made, edits>>

GetExporterOrRetry(e) ==
  /\ worker.pc = "idle"
  /\ e \in queue
  /\ IF exporterCache[e].live
       THEN /\ queue' = queue \ {e}
            /\ worker' = [pc |-> "deployment", key |-> e, obj |-> exporterCache[e],
                          ready |-> exporterCache[e].ready]
       ELSE UNCHANGED <<queue, worker>>
  /\ UNCHANGED <<objects, caches, events, made, edits>>

GetExporter(e) ==
  /\ worker.pc = "idle"
  /\ e \in queue
  /\ queue' = queue \ {e}
  /\ worker' = IF exporterCache[e].live
                 THEN [pc |-> "deployment", key |-> e, obj |-> exporterCache[e],
                       ready |-> exporterCache[e].ready]
                 ELSE Idle
  /\ UNCHANGED <<objects, caches, events, made, edits>>

\* The object has been dealt with: the next one, or the status.
After(k) ==
  CASE k = "deployment" -> "service" [] k = "service" -> "monitor" [] k = "monitor" -> "read"

Done(e, k) == made' = [made EXCEPT ![e][k] = Version(worker.obj)]

\* Mutant of Claimable: the controller reference is written over.
ClaimableAny(old) == TRUE

\* SetControllerReference fails on an object another one controls.
Claimable(old) == old.live => old.controller # "other"

\* CreateOrUpdate sends nothing if the cached object is as it should be.  The
\* pod template of a Deployment never is: it has defaults the code leaves out.
Sends(k, new, old) == ~ old.live \/ k = "deployment" \/ new # old

\* The API server takes the object in place of the one that was read.
Takes(e, k, old, data) ==
  /\ IF old.live THEN Current(child[e][k], old) ELSE ~ child[e][k].live
  /\ ~ Refused(e, k, data) /\ ~ Immutable(k, old)

\* Mutant of CreateOrUpdate: an error does not end the reconcile.
CreateOrUpdateAnyway(k, reply) ==
  /\ worker.pc = k
  /\ LET e    == worker.key
         old  == childCache[e][k]
         data == Rendered(e, k, worker.obj.spec)
         new  == [old EXCEPT !.live = TRUE, !.controller = "exporter",
                             !.owner = worker.obj.uid, !.data = data]
     IN  IF Claimable(old) /\ Takes(e, k, old, data) /\ reply # "error" /\ Changes(new, old)
           THEN WriteChild(e, k, [new EXCEPT !.rv = child[e][k].rv + 1]) /\ Done(e, k)
           ELSE UNCHANGED <<child, childEvents, made>>
  /\ worker' = [worker EXCEPT !.pc = After(k)]
  /\ UNCHANGED <<exporter, caches, exporterEvents, queue, edits>>

CreateOrUpdate(k, reply) ==
  /\ worker.pc = k
  /\ LET e    == worker.key
         old  == childCache[e][k]
         data == Rendered(e, k, worker.obj.spec)
         new  == [old EXCEPT !.live = TRUE, !.controller = "exporter",
                             !.owner = worker.obj.uid, !.data = data]
         sent == Sends(k, new, old)
         good == Claimable(old) /\ (sent => Takes(e, k, old, data))
     IN  /\ IF good /\ sent /\ reply # "error" /\ Changes(new, old)
              THEN WriteChild(e, k, [new EXCEPT !.rv = child[e][k].rv + 1])
              ELSE UNCHANGED <<child, childEvents>>
         /\ IF good /\ (sent => reply # "error") THEN Done(e, k) ELSE UNCHANGED made
         /\ IF good /\ (sent => reply = "ok")
              THEN worker' = [worker EXCEPT !.pc = After(k)] /\ UNCHANGED queue
              ELSE Requeue
  /\ UNCHANGED <<exporter, caches, exporterEvents, edits>>

ReconcileDeployment(reply) == CreateOrUpdate("deployment", reply)

ReconcileService(reply) == CreateOrUpdate("service", reply)

ReconcileServiceMonitor(reply) ==
  worker.pc = "monitor" /\ worker.obj.spec.monitor /\ CreateOrUpdate("monitor", reply)

\* The ServiceMonitor is not wanted: one that is in the cache is deleted by its
\* name, whatever has become of it.
RemoveServiceMonitor(reply) ==
  /\ worker.pc = "monitor" /\ ~ worker.obj.spec.monitor
  /\ LET e    == worker.key
         sent == childCache[e]["monitor"].live
         good == sent => child[e]["monitor"].live
     IN  /\ IF good /\ sent /\ reply # "error"
              THEN WriteChild(e, "monitor", Removed(child[e]["monitor"]))
              ELSE UNCHANGED <<child, childEvents>>
         /\ IF good /\ (sent => reply # "error") THEN Done(e, "monitor") ELSE UNCHANGED made
         /\ IF good /\ (sent => reply = "ok")
              THEN worker' = [worker EXCEPT !.pc = "read"] /\ UNCHANGED queue
              ELSE Requeue
  /\ UNCHANGED <<exporter, caches, exporterEvents, edits>>

\* The readiness of the Deployment, as the cache has it; what the status said
\* before if there is none.
ReadDeployment ==
  /\ worker.pc = "read"
  /\ LET c == childCache[worker.key]["deployment"]
     IN  worker' = [worker EXCEPT !.pc = "status", !.ready = IF c.live THEN c.ready ELSE @]
  /\ UNCHANGED <<objects, caches, events, queue, made, edits>>

\* Mutant of UpdateStatus: the exporter is read again before it is written.
UpdateStatusRefetched(reply) ==
  /\ worker.pc = "status"
  /\ LET e == worker.key
     IN  IF exporter[e].live /\ reply # "error"
           THEN WriteExporter(e, [exporter[e] EXCEPT !.rv = @ + 1, !.ready = worker.ready,
                                                     !.observed = exporter[e].gen])
           ELSE UNCHANGED <<exporter, exporterEvents>>
  /\ IF reply = "ok" THEN worker' = Idle /\ UNCHANGED queue ELSE Requeue
  /\ UNCHANGED <<child, caches, childEvents, made, edits>>

UpdateStatus(reply) ==
  /\ worker.pc = "status"
  /\ LET e   == worker.key
         obj == [worker.obj EXCEPT !.ready = worker.ready, !.observed = worker.obj.gen]
     IN  /\ IF Current(exporter[e], worker.obj) /\ reply # "error" /\ Changes(obj, worker.obj)
              THEN WriteExporter(e, [exporter[e] EXCEPT !.rv = @ + 1, !.ready = obj.ready,
                                                        !.observed = obj.observed])
              ELSE UNCHANGED <<exporter, exporterEvents>>
         /\ IF Current(exporter[e], worker.obj) /\ reply = "ok"
              THEN worker' = Idle /\ UNCHANGED queue
              ELSE Requeue
  /\ UNCHANGED <<child, caches, childEvents, made, edits>>

-----------------------------------------------------------------------------
(* The specification *)

\* The operator starts on a cluster where users have applied some exporters and
\* others have made some objects with the names it uses.
Init ==
  /\ exporter \in [Exporters ->
       {[live |-> l, rv |-> 1, uid |-> 1, gen |-> 1, spec |-> s, ready |-> 0,
         observed |-> 0] : l \in BOOLEAN, s \in ExporterSpec}]
  /\ child \in [Exporters -> [Kinds -> {Absent} \cup Strangers]]
  /\ exporterCache = exporter /\ childCache = child
  /\ exporterEvents = {} /\ childEvents = {}
  /\ queue = {e \in Exporters : exporter[e].live}
  /\ worker = Idle
  /\ made = [e \in Exporters |-> [k \in Kinds |-> 0]]
  /\ edits = 0

Users ==
  \/ \E e \in Exporters, s \in ExporterSpec : CreateExporter(e, s) \/ EditExporter(e, s)
  \/ \E e \in Exporters : DeleteExporter(e)
  \/ \E e \in Exporters, k \in Kinds :
       \/ EditChild(e, k) \/ DeleteChild(e, k)
       \/ \E controller \in {"none", "other"} : CreateForeign(e, k, controller)

Environment ==
  \/ Restart
  \/ \E e \in Exporters : \/ Resync(e) \/ DeliverExporter(e)
                          \/ PodsChange(e) \/ PodsFail(e)
  \/ \E e \in Exporters, k \in Kinds : CollectGarbage(e, k) \/ DeliverChild(e, k)

Reconcile ==
  \/ \E e \in Exporters : GetExporter(e)
  \/ \E reply \in Replies :
       \/ ReconcileDeployment(reply) \/ ReconcileService(reply)
       \/ ReconcileServiceMonitor(reply) \/ RemoveServiceMonitor(reply)
       \/ UpdateStatus(reply)
  \/ ReadDeployment

Next == Users \/ Environment \/ Reconcile

Spec == Init /\ [][Next]_vars

\* As in ConfigSync, and pods that can get ready do.  Of the three kinds it is
\* enough that some is delivered, and some collected.
Fairness ==
  /\ \A e \in Exporters :
       /\ WF_vars(DeliverExporter(e))
       /\ WF_vars(\E k \in Kinds : DeliverChild(e, k))
       /\ WF_vars(\E k \in Kinds : CollectGarbage(e, k))
       /\ WF_vars(PodsChange(e))
       /\ SF_vars(GetExporter(e))
  /\ WF_vars(ReadDeployment)
  /\ SF_vars(ReconcileDeployment("ok"))
  /\ SF_vars(ReconcileService("ok"))
  /\ SF_vars(ReconcileServiceMonitor("ok"))
  /\ SF_vars(RemoveServiceMonitor("ok"))
  /\ SF_vars(UpdateStatus("ok"))

FairSpec == Spec /\ Fairness

-----------------------------------------------------------------------------
(* Properties *)

\* Another reconcile of e is certain, or under way.
Pending(e) ==
  \/ e \in exporterEvents \cup queue
  \/ \E k \in Kinds : <<e, k, TRUE>> \in childEvents
  \/ worker.pc # "idle" /\ worker.key = e

Quiescent ==
  /\ \A e \in Exporters : ~ Pending(e) /\ \A k \in Kinds : ~ Garbage(e, k)
  /\ \A e \in Exporters : Owned(child[e]["deployment"]) => PodsSettled(child[e]["deployment"])
  /\ childEvents = {}

\* The object is as the exporter's current spec wants it, and belongs to this
\* incarnation of the exporter; or there is none of the operator's.
InPlace(e, k) ==
  LET c == child[e][k]
  IN  IF exporter[e].live /\ Wanted(k, exporter[e].spec)
        THEN /\ Owned(c) /\ c.owner = exporter[e].uid
             /\ c.data = Rendered(e, k, exporter[e].spec)
        ELSE ~ Owned(c)

\* The API server takes what is made for the exporter, and nobody else's
\* object is in the way.
Unobstructed(e) ==
  \A k \in Kinds : Wanted(k, exporter[e].spec) =>
    /\ ~ Refused(e, k, Rendered(e, k, exporter[e].spec))
    /\ Claimable(child[e][k]) /\ ~ Immutable(k, child[e][k])

\* When the operator has come to rest every exporter has the objects its last
\* spec wants, and none of them is left over: whatever others did to them and
\* whatever failed.
ResourcesAtRest == Quiescent => \A e \in Exporters, k \in Kinds : InPlace(e, k)

\* The process listens where the Service and the probes of the kubelet look.
Heard(spec) == ListenPort(spec) = Port(spec)

\* When the operator has come to rest the status of every exporter has the
\* number of pods that are ready, though these come and go by themselves: and
\* that is as many as it asks for, if its process is heard.
ReadinessAtRest ==
  Quiescent => \A e \in Exporters : exporter[e].live =>
    /\ exporter[e].observed = exporter[e].gen
    /\ exporter[e].ready = child[e]["deployment"].ready
    /\ Heard(exporter[e].spec) => exporter[e].ready = exporter[e].spec.replicas

\* At any time an exporter whose generation is reported as observed has its
\* objects, or is about to be reconciled again because someone changed one.
ObservedBacked ==
  \A e \in Exporters : exporter[e].live /\ exporter[e].observed = exporter[e].gen =>
    Pending(e) \/ \A k \in Kinds : InPlace(e, k)

\* A spec whose objects the API server refuses, such as one that overrides a
\* label the pods are selected by, is never reported as observed.
RefusedUnreported ==
  \A e \in Exporters, k \in Kinds :
    /\ exporter[e].live /\ Wanted(k, exporter[e].spec)
    /\ Refused(e, k, Rendered(e, k, exporter[e].spec))
    => exporter[e].observed # exporter[e].gen

\* The operator leaves an object alone that has another controller, but for a
\* ServiceMonitor with the name of one that is not wanted.
OthersKept ==
  [][\A e \in Exporters, k \in Kinds :
       /\ child[e][k].live /\ child[e][k].controller = "other"
       /\ child'[e][k] # child[e][k] /\ edits' = edits
       => k = "monitor" /\ worker.key = e /\ ~ worker.obj.spec.monitor]_vars

\* Once nothing is in the way of any exporter for good, the retries, the events
\* of the controller's own writes, the pods and the collector come to an end.
Settles ==
  <>[](\A e \in Exporters : exporter[e].live => Unobstructed(e)) => <>[]Quiescent

\* The promise: an exporter's generation is reported as observed only while it
\* is the current one, after all three objects were brought in line with that
\* very spec, and none is brought in line with an older spec than before.
Promised == INSTANCE Projection WITH
  Sources  <- Exporters,
  Parts    <- Kinds,
  source   <- [e \in Exporters |-> Version(exporter[e])],
  derived  <- made,
  reported <- [e \in Exporters |->
                 IF exporter[e].observed = 0
                   THEN 0 ELSE exporter[e].uid + exporter[e].observed - 1]

Refines == Promised!Spec

-----------------------------------------------------------------------------
(* What the documentation promises and the code does not keep *)

\* The port of a spec is "the port the blackbox-exporter listens on": at rest an
\* exporter that is not in anybody's way, and passes no address of its own, has
\* all its pods ready.  The code tells everyone of the port but the process.
PortListened ==
  Quiescent => \A e \in Exporters :
    exporter[e].live /\ Unobstructed(e) /\ exporter[e].spec.listen = 0
      => exporter[e].ready = exporter[e].spec.replicas
=============================================================================
