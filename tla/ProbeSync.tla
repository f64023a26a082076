----------------------------- MODULE ProbeSync ------------------------------
(***************************************************************************)
(* How a BlackboxProbe becomes the Probe object Prometheus scrapes from:   *)
(* the probe controller, the exporter and the module a probe refers to,    *)
(* and the generated Probe, which has the name of the BlackboxProbe and    *)
(* which others may write too.                                             *)
(*                                                                         *)
(* The controller watches BlackboxProbes and the Probes it owns.  It reads *)
(* exporters and modules from the informer caches but no event of theirs   *)
(* enqueues a probe: a reference that does not resolve is retried.         *)
(*                                                                         *)
(* The constants of ProbeRendering are constants of this module too.       *)
(***************************************************************************)
EXTENDS ProbeRendering

CONSTANTS
  Probes,        \* the BlackboxProbe keys, and those of the generated Probes
  Exporters,     \* the BlackboxExporter keys probes refer to
  Modules,       \* the BlackboxModule keys they refer to
  Specs,         \* the specs users submit
  Ports,         \* the ports of exporters (the CRD fills in a missing spec.port)
  NoPort,        \* no exporter resolved yet
  Blank,         \* what a Probe holds that this operator did not write
  Replies,       \* the outcomes of a write request, see ReplyAssumption
  MaxEdits       \* bound on what users, restarts and resyncs do

ASSUME ContentAssumption ==
  /\ \A s \in Specs : s.targets \in Seq(Range(s.targets))
  /\ \A p \in Probes, s \in Specs :
       /\ RefKey(p, s.exporterRef) \in Exporters
       /\ RefKey(p, s.moduleRef) \in Modules

ASSUME ReplyAssumption == "ok" \in Replies /\ Replies \subseteq {"ok", "error", "lost"}

ASSUME BoundAssumption == MaxEdits \in Nat

VARIABLES
  probe,         \* the BlackboxProbe objects of the API server
  exporter,      \* whether each exporter is there, and its port
  module,        \* whether each module is there
  generated,     \* the generated Probe of each BlackboxProbe
  probeCache,    \* the manager's informer caches
  exporterCache,
  moduleCache,
  generatedCache,
  probeEvents,   \* keys with watch events that are not delivered yet
  generatedEvents, \* ... and whether the Probe had this owner before or after
  queue,         \* the probe controller's work queue
  worker,        \* its worker
  made,          \* history: the version of each probe its Probe was made from
  edits          \* what users, restarts and resyncs did so far

objects == <<probe, exporter, module, generated>>
caches  == <<probeCache, exporterCache, moduleCache, generatedCache>>
events  == <<probeEvents, generatedEvents>>
vars    == <<objects, caches, events, queue, worker, made, edits>>

----------------------------------------------------------------------------
(* Types *)

\* What is stored has passed the webhook.
ProbeSpec == {s \in Specs : Admitted(s)}

\* ready is the reason of the condition Ready; only ProbeCreated is True.
Reasons == {"none", "ExporterNotFound", "ModuleNotFound", "ProbeCreated"}

ProbeObject ==
  [live : BOOLEAN, rv : Nat, uid : Nat \ {0}, gen : Nat \ {0}, spec : ProbeSpec,
   ready : Reasons, targetCount : Nat, observed : Nat]

ExporterObject == [live : BOOLEAN, port : Ports]

\* What the operator writes.
Rendering == UNION {Renderings(p, s, q) : p \in Probes, s \in ProbeSpec, q \in Ports}

\* owner is the uid of the BlackboxProbe, 0 for a Probe someone else made.
GeneratedObject ==
  [live : BOOLEAN, rv : Nat, owner : Nat, data : Rendering \cup {Blank}]

Idle == [pc |-> "idle"]

Work ==
  [pc : {"exporter", "module", "missing", "write", "status"}, key : Probes,
   obj : ProbeObject, port : Ports \cup {NoPort}, reason : Reasons]

TypeOK ==
  /\ probe \in [Probes -> ProbeObject]
  /\ exporter \in [Exporters -> ExporterObject]
  /\ module \in [Modules -> BOOLEAN]
  /\ generated \in [Probes -> GeneratedObject]
  /\ probeCache \in [Probes -> ProbeObject]
  /\ exporterCache \in [Exporters -> ExporterObject]
  /\ moduleCache \in [Modules -> BOOLEAN]
  /\ generatedCache \in [Probes -> GeneratedObject]
  /\ probeEvents \subseteq Probes
  /\ generatedEvents \subseteq Probes \X BOOLEAN
  /\ queue \subseteq Probes
  /\ worker \in {Idle} \cup Work
  /\ worker.pc \in {"module", "write", "status"} => worker.port \in Ports
  /\ made \in [Probes -> Nat]
  /\ edits \in Nat

----------------------------------------------------------------------------
(* What the code computes *)

\* The version of a BlackboxProbe: it grows with every edit of the spec, and
\* with every new incarnation.
Version(po) == po.uid + po.gen - 1

\* The status after a reference that did not resolve, and after success.
MissingReport(po, reason) == [po EXCEPT !.ready = reason, !.observed = po.gen]

CreatedReport(po) ==
  [po EXCEPT !.ready = "ProbeCreated", !.targetCount = Len(po.spec.targets),
             !.observed = po.gen]

----------------------------------------------------------------------------
(* The API server's answer to a write, and its effect on the object *)

\* Mutant of Current: a write without a resourceVersion, such as a merge patch.
CurrentUnlocked(new, old) == new.live

Current(new, old) == new.live /\ new.rv = old.rv

Changes(obj, old) == obj # old

StatusUpdated(p, obj) ==
  [probe[p] EXCEPT !.rv = @ + 1, !.ready = obj.ready,
                   !.targetCount = obj.targetCount, !.observed = obj.observed]

Owned(obj) == obj.live /\ obj.owner # 0

Garbage(p) ==
  /\ Owned(generated[p])
  /\ ~ (probe[p].live /\ probe[p].uid = generated[p].owner)

----------------------------------------------------------------------------
(* Users and the environment *)

Edit == edits < MaxEdits /\ edits' = edits + 1 /\ UNCHANGED made

WriteProbe(p, obj) ==
  /\ probe' = [probe EXCEPT ![p] = obj]
  /\ probeEvents' = probeEvents \cup {p}

WriteGenerated(p, obj) ==
  /\ generated' = [generated EXCEPT ![p] = obj]
  /\ generatedEvents' = generatedEvents \cup {<<p, Owned(generated[p]) \/ Owned(obj)>>}

CreateProbe(p, s) ==
  /\ Edit
  /\ ~ probe[p].live
  /\ WriteProbe(p, [live |-> TRUE, rv |-> probe[p].rv + 1, uid |-> probe[p].rv + 1,
                    gen |-> 1, spec |-> s, ready |-> "none", targetCount |-> 0,
                    observed |-> 0])
  /\ UNCHANGED <<exporter, module, generated, caches, generatedEvents, queue, worker>>

EditProbe(p, s) ==
  /\ Edit
  /\ probe[p].live
  /\ probe[p].spec # s
  /\ WriteProbe(p, [probe[p] EXCEPT !.rv = @ + 1, !.gen = @ + 1, !.spec = s])
  /\ UNCHANGED <<exporter, module, generated, caches, generatedEvents, queue, worker>>

DeleteProbe(p) ==
  /\ Edit
  /\ probe[p].live
  /\ WriteProbe(p, [probe[p] EXCEPT !.rv = @ + 1, !.live = FALSE])
  /\ UNCHANGED <<exporter, module, generated, caches, generatedEvents, queue, worker>>

\* An exporter is applied, given another port, or deleted.
WriteExporter(e, l, q) ==
  /\ Edit
  /\ exporter[e] # [live |-> l, port |-> q]
  /\ exporter' = [exporter EXCEPT ![e] = [live |-> l, port |-> q]]
  /\ UNCHANGED <<probe, module, generated, caches, events, queue, worker>>

\* A module is applied or deleted.
WriteModule(m) ==
  /\ Edit
  /\ module' = [module EXCEPT ![m] = ~ @]
  /\ UNCHANGED <<probe, exporter, generated, caches, events, queue, worker>>

\* Someone makes a Probe of that name, overwrites the generated one, or
\* deletes it.
CreateForeign(p) ==
  /\ Edit
  /\ ~ generated[p].live
  /\ WriteGenerated(p, [live |-> TRUE, rv |-> generated[p].rv + 1, owner |-> 0,
                        data |-> Blank])
  /\ UNCHANGED <<probe, exporter, module, caches, probeEvents, queue, worker>>

EditGenerated(p) ==
  /\ Edit
  /\ generated[p].live
  /\ WriteGenerated(p, [generated[p] EXCEPT !.rv = @ + 1, !.data = Blank])
  /\ UNCHANGED <<probe, exporter, module, caches, probeEvents, queue, worker>>

DeleteGenerated(p) ==
  /\ Edit
  /\ generated[p].live
  /\ WriteGenerated(p, [generated[p] EXCEPT !.rv = @ + 1, !.live = FALSE])
  /\ UNCHANGED <<probe, exporter, module, caches, probeEvents, queue, worker>>

Resync(p) ==
  /\ Edit
  /\ queue' = queue \cup {p}
  /\ UNCHANGED <<objects, caches, events, worker>>

Restart ==
  /\ Edit
  /\ probeCache' = probe /\ exporterCache' = exporter
  /\ moduleCache' = module /\ generatedCache' = generated
  /\ probeEvents' = {} /\ generatedEvents' = {}
  /\ queue' = {p \in Probes : probe[p].live
                              \/ Owned(generated[p])}
  /\ worker' = Idle
  /\ UNCHANGED objects

\* As in ConfigSync: a collection the operator's cache is not ready for is
\* counted.
CollectGarbage(p) ==
  /\ Garbage(p)
  /\ IF p \in probeEvents THEN Edit ELSE UNCHANGED <<made, edits>>
  /\ WriteGenerated(p, [generated[p] EXCEPT !.rv = @ + 1, !.live = FALSE])
  /\ UNCHANGED <<probe, exporter, module, caches, probeEvents, queue, worker>>

----------------------------------------------------------------------------
(* Watch events *)

DeliverProbe(p) ==
  /\ p \in probeEvents
  /\ probeEvents' = probeEvents \ {p}
  /\ probeCache' = [probeCache EXCEPT ![p] = probe[p]]
  /\ queue' = queue \cup {p}
  /\ UNCHANGED <<objects, exporterCache, moduleCache, generatedCache,
                 generatedEvents, worker, made, edits>>

\* Mutant of DeliverGenerated: the controller does not own Probes.
DeliverGeneratedUnowned(p) ==
  /\ \E owned \in BOOLEAN : <<p, owned>> \in generatedEvents
  /\ generatedEvents' = generatedEvents \ {<<p, TRUE>>, <<p, FALSE>>}
  /\ generatedCache' = [generatedCache EXCEPT ![p] = generated[p]]
  /\ UNCHANGED <<objects, probeCache, exporterCache, moduleCache, probeEvents,
                 queue, worker, made, edits>>

\* The owner of the Probe, before or after a change, is enqueued.
DeliverGenerated(p) ==
  /\ \E owned \in BOOLEAN : <<p, owned>> \in generatedEvents
  /\ generatedEvents' = generatedEvents \ {<<p, TRUE>>, <<p, FALSE>>}
  /\ generatedCache' = [generatedCache EXCEPT ![p] = generated[p]]
  /\ queue' = IF <<p, TRUE>> \in generatedEvents THEN queue \cup {p} ELSE queue
  /\ UNCHANGED <<objects, probeCache, exporterCache, moduleCache, probeEvents,
                 worker, made, edits>>

\* Exporters and modules: the cache catches up and no probe hears of it.
DeliverExporter(e) ==
  /\ exporterCache[e] # exporter[e]
  /\ exporterCache' = [exporterCache EXCEPT ![e] = exporter[e]]
  /\ UNCHANGED <<objects, probeCache, moduleCache, generatedCache, events,
                 queue, worker, made, edits>>

DeliverModule(m) ==
  /\ moduleCache[m] # module[m]
  /\ moduleCache' = [moduleCache EXCEPT ![m] = module[m]]
  /\ UNCHANGED <<objects, probeCache, exporterCache, generatedCache, events,
                 queue, worker, made, edits>>

----------------------------------------------------------------------------
(* BlackboxProbeReconciler.Reconcile *)

\* Reconcile returns an error: the key goes back into the queue.
Requeue == worker' = Idle /\ queue' = queue \cup {worker.key}

\* Mutant of GetProbe: that the probe is gone is an error like any other.
GetProbeOrRetry(p) ==
  /\ worker.pc = "idle"
  /\ p \in queue
  /\ IF probeCache[p].live
       THEN /\ queue' = queue \ {p}
            /\ worker' = [pc |-> "exporter", key |-> p, obj |-> probeCache[p],
                          port |-> NoPort, reason |-> "none"]
       ELSE UNCHANGED <<queue, worker>>
  /\ UNCHANGED <<objects, caches, events, made, edits>>

GetProbe(p) ==
  /\ worker.pc = "idle"
  /\ p \in queue
  /\ queue' = queue \ {p}
  /\ worker' = IF probeCache[p].live
                 THEN [pc |-> "exporter", key |-> p, obj |-> probeCache[p],
                       port |-> NoPort, reason |-> "none"]
                 ELSE Idle
  /\ UNCHANGED <<objects, caches, events, made, edits>>

\* Mutant of ResolveExporter: the port is not taken from the exporter found.
ResolveExporterUnfilled ==
  /\ worker.pc = "exporter"
  /\ worker' = IF exporterCache[RefKey(worker.key, worker.obj.spec.exporterRef)].live
                 THEN [worker EXCEPT !.pc = "module"]
                 ELSE [worker EXCEPT !.pc = "missing", !.reason = "ExporterNotFound"]
  /\ UNCHANGED <<objects, caches, events, queue, made, edits>>

ResolveExporter ==
  /\ worker.pc = "exporter"
  /\ LET e == exporterCache[RefKey(worker.key, worker.obj.spec.exporterRef)]
     IN  worker' = IF e.live
                     THEN [worker EXCEPT !.pc = "module", !.port = e.port]
                     ELSE [worker EXCEPT !.pc = "missing", !.reason = "ExporterNotFound"]
  /\ UNCHANGED <<objects, caches, events, queue, made, edits>>

ResolveModule ==
  /\ worker.pc = "module"
  /\ worker' = IF moduleCache[RefKey(worker.key, worker.obj.spec.moduleRef)]
                 THEN [worker EXCEPT !.pc = "write"]
                 ELSE [worker EXCEPT !.pc = "missing", !.reason = "ModuleNotFound"]
  /\ UNCHANGED <<objects, caches, events, queue, made, edits>>

\* Mutant of ReportMissing: the error is reported and not returned.
ReportMissingDone(reply) ==
  /\ worker.pc = "missing"
  /\ LET p   == worker.key
         obj == MissingReport(worker.obj, worker.reason)
     IN  IF Current(probe[p], worker.obj) /\ reply # "error" /\ Changes(obj, worker.obj)
           THEN WriteProbe(p, StatusUpdated(p, obj))
           ELSE UNCHANGED <<probe, probeEvents>>
  /\ worker' = Idle
  /\ UNCHANGED <<exporter, module, generated, caches, generatedEvents, queue, made, edits>>

\* The verdict is written, whether that works or not, and the key retried.
ReportMissing(reply) ==
  /\ worker.pc = "missing"
  /\ LET p   == worker.key
         obj == MissingReport(worker.obj, worker.reason)
     IN  IF Current(probe[p], worker.obj) /\ reply # "error" /\ Changes(obj, worker.obj)
           THEN WriteProbe(p, StatusUpdated(p, obj))
           ELSE UNCHANGED <<probe, probeEvents>>
  /\ Requeue
  /\ UNCHANGED <<exporter, module, generated, caches, generatedEvents, made, edits>>

\* The API server takes a Probe in place of the one that was read.
Takes(p, old, data) ==
  /\ IF old.live THEN Current(generated[p], old) ELSE ~ generated[p].live
  /\ Accepted(data)

\* Mutant of WriteGeneratedProbe: an error does not end the reconcile.
WriteGeneratedProbeAnyway(reply) ==
  /\ worker.pc = "write"
  /\ LET p == worker.key
     IN  \E data \in Renderings(p, worker.obj.spec, worker.port) :
           IF Takes(p, generatedCache[p], data) /\ reply # "error"
             THEN /\ WriteGenerated(p, [live |-> TRUE, rv |-> generated[p].rv + 1,
                                        owner |-> worker.obj.uid, data |-> data])
                  /\ made' = [made EXCEPT ![p] = Version(worker.obj)]
             ELSE UNCHANGED <<generated, generatedEvents, made>>
  /\ worker' = [worker EXCEPT !.pc = "status"]
  /\ UNCHANGED <<probe, exporter, module, caches, probeEvents, queue, edits>>

\* Create the Probe the cache misses, or replace the one it has, whoever made
\* it.
WriteGeneratedProbe(reply) ==
  /\ worker.pc = "write"
  /\ \E data \in Renderings(worker.key, worker.obj.spec, worker.port) :
       LET p    == worker.key
           old  == generatedCache[p]
           new  == [old EXCEPT !.owner = worker.obj.uid, !.data = data]
           good == Takes(p, old, data)
       IN  /\ IF good /\ reply # "error" /\ (old.live => Changes(new, old))
                THEN WriteGenerated(p, [live |-> TRUE, rv |-> generated[p].rv + 1,
                                        owner |-> worker.obj.uid, data |-> data])
                ELSE UNCHANGED <<generated, generatedEvents>>
           /\ IF good /\ reply # "error"
                THEN made' = [made EXCEPT ![p] = Version(worker.obj)]
                ELSE UNCHANGED made
           /\ IF good /\ reply = "ok"
                THEN worker' = [worker EXCEPT !.pc = "status"] /\ UNCHANGED queue
                ELSE Requeue
  /\ UNCHANGED <<probe, exporter, module, caches, probeEvents, edits>>

UpdateStatus(reply) ==
  /\ worker.pc = "status"
  /\ LET p   == worker.key
         obj == CreatedReport(worker.obj)
     IN  /\ IF Current(probe[p], worker.obj) /\ reply # "error" /\ Changes(obj, worker.obj)
              THEN WriteProbe(p, StatusUpdated(p, obj))
              ELSE UNCHANGED <<probe, probeEvents>>
         /\ IF Current(probe[p], worker.obj) /\ reply = "ok"
              THEN worker' = Idle /\ UNCHANGED queue
              ELSE Requeue
  /\ UNCHANGED <<exporter, module, generated, caches, generatedEvents, made, edits>>

----------------------------------------------------------------------------
(* The specification *)

\* The operator starts on a cluster where users have applied some objects and
\* nothing has been generated.
Init ==
  /\ probe \in [Probes ->
       {[live |-> l, rv |-> 1, uid |-> 1, gen |-> 1, spec |-> s, ready |-> "none",
         targetCount |-> 0, observed |-> 0] : l \in BOOLEAN, s \in ProbeSpec}]
  /\ exporter \in [Exporters -> ExporterObject]
  /\ module \in [Modules -> BOOLEAN]
  /\ generated = [p \in Probes |->
       [live |-> FALSE, rv |-> 0, owner |-> 0, data |-> Blank]]
  /\ probeCache = probe /\ exporterCache = exporter
  /\ moduleCache = module /\ generatedCache = generated
  /\ probeEvents = {} /\ generatedEvents = {}
  /\ queue = {p \in Probes : probe[p].live}
  /\ worker = Idle
  /\ made = [p \in Probes |-> 0]
  /\ edits = 0

Users ==
  \/ \E p \in Probes, s \in ProbeSpec : CreateProbe(p, s) \/ EditProbe(p, s)
  \/ \E p \in Probes : \/ DeleteProbe(p) \/ CreateForeign(p)
                       \/ EditGenerated(p) \/ DeleteGenerated(p)
  \/ \E e \in Exporters, l \in BOOLEAN, q \in Ports : WriteExporter(e, l, q)
  \/ \E m \in Modules : WriteModule(m)

Environment ==
  \/ Restart
  \/ \E p \in Probes : \/ Resync(p) \/ CollectGarbage(p)
                       \/ DeliverProbe(p) \/ DeliverGenerated(p)
  \/ \E e \in Exporters : DeliverExporter(e)
  \/ \E m \in Modules : DeliverModule(m)

Reconcile ==
  \/ \E p \in Probes : GetProbe(p)
  \/ ResolveExporter
  \/ ResolveModule
  \/ \E reply \in Replies :
       ReportMissing(reply) \/ WriteGeneratedProbe(reply) \/ UpdateStatus(reply)

Next == Users \/ Environment \/ Reconcile

Spec == Init /\ [][Next]_vars

\* As in ConfigSync: watches deliver, the collector collects, the worker
\* proceeds, and a request that is retried forever succeeds in the end.
Fairness ==
  /\ \A p \in Probes :
       /\ WF_vars(DeliverProbe(p))
       /\ WF_vars(DeliverGenerated(p))
       /\ WF_vars(CollectGarbage(p))
       /\ SF_vars(GetProbe(p))
  /\ \A e \in Exporters : WF_vars(DeliverExporter(e))
  /\ \A m \in Modules : WF_vars(DeliverModule(m))
  /\ WF_vars(ResolveExporter)
  /\ WF_vars(ResolveModule)
  /\ WF_vars(\E reply \in Replies : ReportMissing(reply))
  /\ SF_vars(WriteGeneratedProbe("ok"))
  /\ SF_vars(UpdateStatus("ok"))

FairSpec == Spec /\ Fairness

----------------------------------------------------------------------------
(* Properties *)

\* Another reconcile of p is certain, or under way.
Pending(p) ==
  \/ p \in probeEvents \cup queue
  \/ <<p, TRUE>> \in generatedEvents
  \/ worker.pc # "idle" /\ worker.key = p

Quiescent ==
  /\ \A p \in Probes : ~ Pending(p) /\ ~ Garbage(p)
  /\ generatedEvents = {}
  /\ exporterCache = exporter /\ moduleCache = module

\* Both references of the probe resolve.
Resolves(p) ==
  /\ exporter[RefKey(p, probe[p].spec.exporterRef)].live
  /\ module[RefKey(p, probe[p].spec.moduleRef)]

\* The API server takes what is built for the probe.
Buildable(p) ==
  \A q \in Ports : \A data \in Renderings(p, probe[p].spec, q) : Accepted(data)

\* The generated Probe is this probe's, with the references and targets of
\* its current spec.
Generated(p) ==
  /\ generated[p].live
  /\ generated[p].owner = probe[p].uid
  /\ \E q \in Ports : generated[p].data \in Renderings(p, probe[p].spec, q)

\* When the operator has come to rest every BlackboxProbe has its Probe, as its
\* last spec says and owned by this incarnation, and no owned Probe is left
\* over: whatever others did to it, and whatever failed.
ProbeGenerated ==
  Quiescent => \A p \in Probes :
    IF probe[p].live THEN Generated(p) ELSE ~ Owned(generated[p])

\* When the operator has come to rest every probe is reported ready, in its
\* last generation, with the number of its targets: a reference that did not
\* resolve is retried and never left at that.
ProbeReported ==
  Quiescent => \A p \in Probes : probe[p].live =>
    /\ probe[p].ready = "ProbeCreated"
    /\ probe[p].observed = probe[p].gen
    /\ probe[p].targetCount = Len(probe[p].spec.targets)

\* At any time a probe that is reported ready in its current generation has
\* its Probe, or is about to be reconciled again because someone changed it.
ReadyBacked ==
  \A p \in Probes :
    probe[p].live /\ probe[p].ready = "ProbeCreated" /\ probe[p].observed = probe[p].gen
      => Generated(p) \/ Pending(p)

\* A status is only ever written for the generation the probe has then.
ReportForCurrent ==
  [][\A p \in Probes :
       probe'[p].observed # probe[p].observed /\ edits' = edits
         => probe'[p].observed = probe'[p].gen]_vars

\* At any time the Probe that stands for a probe's spec has each label from
\* the place that has the last word, the reserved ones from the operator.
LabelsKept ==
  \A p \in Probes : probe[p].live /\ Generated(p) =>
    LabelsRanked(probe[p].spec, generated[p].data)

\* The operator writes over its own Probe only to change what it says: a
\* rewrite in other words would wake the controller that made it, and so on.
WritesMatter ==
  [][\A p \in Probes, s \in ProbeSpec, q \in Ports :
       generated'[p] # generated[p] /\ edits' = edits =>
         ~ /\ generated[p].live /\ generated'[p].live
           /\ generated'[p].owner = generated[p].owner
           /\ {generated[p].data, generated'[p].data} \subseteq Renderings(p, s, q)]_vars

\* Once every probe's references resolve for good, and the API server takes
\* what is built for it, the retries, the events of the controller's own
\* writes and the collector come to an end.
Settles ==
  <>[](\A p \in Probes : probe[p].live => Resolves(p) /\ Buildable(p)) => <>[]Quiescent

\* The promise all this adds up to: a probe is reported ready only for the
\* spec it has, after its Probe was made from that very spec, and its Probe is
\* never made from an older spec than before; through stale caches, conflicts,
\* lost answers, restarts and new incarnations.
Promised == INSTANCE Projection WITH
  Sources  <- Probes,
  Parts    <- {"probe"},
  source   <- [p \in Probes |-> Version(probe[p])],
  derived  <- [p \in Probes |-> [part \in {"probe"} |-> made[p]]],
  reported <- [p \in Probes |->
                 IF probe[p].ready = "ProbeCreated"
                   THEN probe[p].uid + probe[p].observed - 1 ELSE 0]

Refines == Promised!Spec

----------------------------------------------------------------------------
(* What the documentation promises and the code does not keep *)

\* A ready probe is "pointing to the exporter's Service address": at rest that
\* exporter is there, has the port in the URL, and its module is there too.  A
\* change or a deletion of either enqueues no probe.
ProbeCurrent ==
  Quiescent => \A p \in Probes :
    probe[p].live /\ probe[p].ready = "ProbeCreated" =>
      /\ Resolves(p)
      /\ generated[p].data.port = exporter[RefKey(p, probe[p].spec.exporterRef)].port
=============================================================================
