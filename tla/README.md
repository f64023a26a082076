# Verification of blackbox-exporter-operator

TLA+ models of the operator's reconcilers, TLC configurations that check them on
small clusters, and TLAPS proofs for clusters of any size. Paths below are
relative to the repository; `controller/` stands for `internal/controller/`.

## 1. The system

The operator turns three custom resources into what runs and scrapes a
blackbox-exporter:

| Component | Source | State it keeps | Operations |
|---|---|---|---|
| Exporter controller | `controller/blackboxexporter_controller.go` | ConfigMap, Deployment, Service, ServiceMonitor of each BlackboxExporter; its status | `Reconcile`: collect modules, render `blackbox.yml`, reconcile the four owned objects in that order, write the status |
| Module controller | `controller/blackboxmodule_controller.go` | status of each BlackboxModule; the annotation `monitoring.gaiser.bayern/module-updated` of exporters | `Reconcile`: convert to validate, list the exporters that select the module, write the status, touch those exporters |
| Probe controller | `controller/blackboxprobe_controller.go` | the prometheus-operator `Probe` of each BlackboxProbe; its status | `Reconcile`: resolve both references, create or replace the `Probe`, write the status |
| Module selection | `collectModules`, `moduleMatchesSelector` | none | the same predicate, written twice |
| Converter, secrets | `internal/converter/` | none | BlackboxModule spec to upstream module, or an error, or a panic; secrets read at rendering |
| Admission webhooks | `api/v1alpha1/*_webhook.go` | none | stateless checks of one object |
| Manager | `cmd/main.go` | informer caches, work queues, leader lease | start, stop |
| CRDs, manifests, chart, tests | `config/`, `charts/`, `test/` | none | declarations |

### How the parts interact

No controller calls another. All communication is through API objects, and the
hard behaviour is in that indirection:

- Every read (`Get`, `List`) is served from an informer cache that lags the API
  server. Every write carries the resourceVersion of what was read and is refused
  when that is old.
- An event refreshes a cache and enqueues a key. One worker per controller takes
  one key at a time; a `Reconcile` that returns an error is queued again. Events
  of one key coalesce.
- The exporter controller renders modules but watches none. The module controller
  tells it, by writing the module's resourceVersion into one annotation of each
  exporter it finds. Several modules share that one annotation, the value may be
  there already, the exporter found may be stale, and an update that fails is
  logged and forgotten.
- Status writes wake the controller that made them, touches wake the other one.
- Owned objects are removed by the cluster's garbage collector some time after
  their owner, whose name may be in use again by then.
- The probe controller reads exporters and modules without watching them. It
  retries a reference that does not resolve.

### What makes each part correct

| Part | Properties |
|---|---|
| configuration | every selected module's current rendering reaches every exporter, and where modules share a name, one of them (`ConfigComplete`); nothing else is in it (`NothingElse`), but for modules the exporter stopped selecting (`ModulesRemoved`, which the code does not keep); one ConfigMap per exporter, owned by its present incarnation (`ConfigMapOwned`) |
| touching | user edits of an exporter survive the write-back of a cached copy (`UserIntentKept`); a touch is not lost (`TouchDelivered`, not kept; `ConfigComplete` and `NothingElse` say what a lost one costs) |
| status | written for the generation the object has (`StatusForCurrent`); true at any time (`VerdictCurrent`: also that a module whose conversion panics has none), true at rest (`StatusSettled`, `ReferencesCurrent`, the latter not kept) |
| selection | both implementations agree (`SameSelection`) |
| Deployment, Service, ServiceMonitor | at rest each exporter has the objects of its last spec, whatever others did to them (`ResourcesAtRest`); a reported generation means something at any time (`ObservedBacked`, `RefusedUnreported`); the readiness of the pods reaches the status (`ReadinessAtRest`); objects another controller owns are left alone, but for one kind (`OthersKept`), those nobody controls are taken over; the port is the one that is listened on (`PortListened`, not kept) |
| probe | at rest the right Probe exists, once, owned, and is reported (`ProbeGenerated`, `ProbeReported`); ready means something (`ReadyBacked`, `ReportForCurrent`; `ProbeCurrent`, not kept); labels on the object and on static targets are what the documents promise (`LabelsKept`); the controller does not wake itself for nothing (`WritesMatter`) |
| probe controller, exporter controller (configuration; other objects) | all keep one promise: report only what was made from the very version reported, never go back to an older version (`Refines`, the abstract specification `Projection`) |
| converter, secrets, module admission | what is admitted can be converted (`AdmittedConverts`) and is rendered from its one section (`SectionHonoured`) with the fields a user set, but for two (`ExplicitKept`); secrets that come and go never leave a part of the credentials (`AllOrNothing`) and never cost the module (`ValidKept`); the secrets and all that is set are in `blackbox.yml` (`SpecRendered`, not kept) |
| all | they come to rest (`Settles`, in each of the three) |

`PROJECT.json` lists the hazards behind these with their lines.

## 2. The modules

| Module | Models |
|---|---|
| `Selector` | `ModuleSelector` and its two implementations (`Collects`, `Matches`), an absent label reading as the empty string |
| `ConfigSync` | exporter controller and module controller together with API server, caches, queues, users, garbage collector, restarts |
| `ConfigSyncInv` | the inductive invariant of `ConfigSync` |
| `ConfigSync_proofs`, `ConfigSyncInv_proofs`, `ConfigSyncComplete_proofs`, `ConfigSyncRefines_proofs` | the proofs: types and versions; what holds at any time and at rest; that the configuration is complete; the invariant as a whole and that `Projection` is implemented |
| `Projection` | the abstract specification: what a controller promises that derives objects from another one |
| `Labels` | label maps and what copying one onto another does |
| `ProbeRendering` | one BlackboxProbe on its own: `validateProbeSpec`, and the `Probe` built for it |
| `ProbeSync` | the probe controller with the same environment as `ConfigSync` |
| `ProbeSync_proofs`, `Projection_proofs` | its invariant and properties, and that it implements `Projection`; what `Projection` implies |
| `ExporterResources` | the rest of the exporter controller: `validateExporterSpec`, Deployment, Service, ServiceMonitor, readiness |
| `ExporterResources_proofs` | its inductive invariant, its properties, and that it implements `Projection` |
| `ModuleRendering` | one module from admission to `blackbox.yml`: `validateModuleSpec`, `ResolveModuleSecrets`, `ConvertModule`, `RenderConfig` |
| `ModuleRendering_proofs` | its inductive invariant and proofs |
| `MCConfigSync`, `MCProbeSync`, `MCExporterResources`, `MCModuleRendering` | small constants for TLC |

### ConfigSync: state

| Variable | In the system |
|---|---|
| `exporter`, `module`, `configMap` | the objects in the API server. `rv` is the resourceVersion, kept per key (a deletion counts as a write); `gen` is metadata.generation; `uid` tells incarnations apart; `live` is FALSE while no object has that name |
| `exporterCache`, `moduleCache`, `configMapCache` | the manager's informer caches |
| `exporterEvents`, ... | keys with a watch event that has not been delivered |
| `exporterQueue`, `moduleQueue` | the work queues; delays and back-off are left out |
| `xw`, `mw` | the two workers: idle, or at a place of `Reconcile` with its local variables |
| `edits`, `drops`, `shuffles` | counters that bound the model, see section 4 |
| `made` | history: the version of each exporter its ConfigMap was last made from, or found to be as it should be |
| `lost` | history: the pairs of an exporter and a module whose touch failed since the exporter last collected its modules |
| `left` | history: likewise, the pairs whose module came to be no longer selected, which nobody tells the exporter |

### ConfigSync: actions

| Action | Code |
|---|---|
| `GetExporter`, `CollectModules` | exporter `Reconcile` 50-89, `collectModules` |
| `ReconcileConfigMap(reply)` | `reconcileConfigMap`, i.e. `CreateOrUpdate` |
| `ReconcileOwned(ok)` | `reconcileDeployment`, `reconcileService`, `reconcileServiceMonitor`: only that one of them may fail |
| `UpdateExporterStatus(reply)` | `Reconcile` 105-145 |
| `GetModule`, `ListExporters` | module `Reconcile` 28-74 |
| `UpdateModuleStatus(reply)` | 76-96 |
| `TouchExporter(e, reply)` | one turn of the loop 98-113 |
| `DeliverExporter`, `DeliverModule`, `DeliverConfigMap` | what `SetupWithManager` subscribes to |
| `RequeueExporter`, `RequeueModule` | returning an error, or a panic that controller-runtime recovers |
| `CreateExporter`, ..., `DeleteConfigMap` | users |
| `CollectGarbage`, `Resync`, `Restart` | garbage collector; periodic resync and the events of the other owned objects; stop and start, or change of leader |

A write request has one of three outcomes (`Replies`): it is answered (`ok`, a
success or a conflict, as the object's version decides), it fails before it is
applied (`error`), or it is applied and the answer is lost (`lost`). An update that
changes nothing is answered and makes neither a version nor an event, as in the API
server.

### ProbeSync and ProbeRendering

Same conventions. `GetProbe`, `ResolveExporter`, `ResolveModule`, `ReportMissing`,
`WriteGeneratedProbe` and `UpdateStatus` are the parts of `Reconcile` between two
requests or reads. `WriteGeneratedProbe` takes over a `Probe` of that name whoever
made it, as the code does: `SetControllerReference` is called on the new object,
not on the one found. Exporters and modules are reduced to what the controller reads
of them, whether they are there and the port, and their events enqueue nothing.

What it writes is said in `ProbeRendering`: `ObjectLabels` (`buildProbeMetadata`),
`StaticTargets` and `IngressTargets` (`buildProbeTargets`), the references
(`RefKey`) and the durations with their defaults. `Renderings` is a set because the
labels of Ingress targets come out of a Go map; it has one member because their keys
are sorted. A duration is what Go's `ParseDuration` makes of it together with whether
it matches the pattern of the CRD of the `Probe`: the two do not agree ("0.5h"), so
an admitted spec may be refused at every attempt (`Accepted`, `Buildable`).

`made` is a history variable: the version of the BlackboxProbe its `Probe` was last
made from. It relates the states of `ProbeSync` to those of `Projection`.

### ExporterResources

| Variable | In the system |
|---|---|
| `exporter`, `child` | the exporters, and for each the Deployment, Service and ServiceMonitor with its resource name; `controller` is whose controller reference the object has, `owner` the uid in it, `ready` the ready pods |
| `exporterCache`, `childCache`, `exporterEvents`, `childEvents`, `queue`, `worker` | as in `ConfigSync`; an event of a child carries whether the operator owned the object before or after |
| `made` | history: the version of the exporter each object was last brought in line with |

| Action | Code |
|---|---|
| `GetExporter` | `Reconcile` 50-59 |
| `ReconcileDeployment`, `ReconcileService`, `ReconcileServiceMonitor` | the functions of these names, each a `CreateOrUpdate` with `SetControllerReference`: nothing is sent if the cached object is as it should be, an object controlled by another is an error |
| `RemoveServiceMonitor` | 363-370: the object in the cache is deleted by name |
| `ReadDeployment`, `UpdateStatus` | 105-145 |
| `DeliverExporter`, `DeliverChild` | `SetupWithManager` |
| `PodsChange`, `PodsFail` | the Deployment controller and the kubelet: pods get ready if the process listens where the readiness probe looks |
| `CreateExporter`, `EditExporter`, `DeleteExporter`, `CreateForeign`, `EditChild`, `DeleteChild` | users, the first two through `validateExporterSpec` |
| `CollectGarbage`, `Resync`, `Restart` | as in `ConfigSync` |

`Deployment`, `Service` and `ServiceMonitor` say what is put into the objects;
`Refused` and `Immutable` what the API server does not take: a pod template its own
selector does not select (`spec.additionalLabels` may override a selector label), a
Service name with a dot, an interval that is none, another selector for an existing
Deployment.

### Projection

Sources have versions that grow; of each, parts are derived; a version is reported.
A part is only derived from a version between the one it was last derived from and
the current one; only the current version is reported, and only when every part was
derived from it. `ProbeSync` implements it with one part, the `Probe`, `ConfigSync` with
one, the ConfigMap, and `ExporterResources` with three (`Promised == INSTANCE Projection WITH ...`, `Refines`). The refinement mapping
takes the version from uid and generation, what was derived from the history
variable, and the report from the status. That the code keeps the promise is not
obvious: the worker acts on a cached source, and it is the resourceVersion in the
status update, not the write of the objects, that decides whether the report counts.

### ModuleRendering

The state is the module's spec, what each secret key holds, the exporter controller
at work on this module (`worker`: the spec it read, the references it has yet to
read, the secrets it has), and the module's entry in `blackbox.yml`.

| Action | Code |
|---|---|
| `ApplySpec(s)` | a user applies a spec that `validateModuleSpec` lets through (`Admitted`) |
| `WriteSecret(r, v)` | a user creates, changes, empties or deletes a secret |
| `StartModule` | the exporter controller reaches the module in its loop, exporter `Reconcile` 70-72 |
| `ReadSecret(slot)` | one `resolveSecretKey`, in the order of `ResolveModuleSecrets`; an error discards what was read (73-76) |
| `RenderModule` | `ConvertModule` (`Outcome`, `Converted`) and `RenderConfig` (`Written`), the entry or its absence, 77-89 |

An entry is what the exporter loads, not what `ConvertModule` returns, because the YAML
in between does not keep everything. `RenderConfig` marshals the types of
`prometheus/common` and `blackbox_exporter`, and `promconfig.MarshalSecretValue`
is set nowhere in the repository: what has the type `Secret`, that is the password,
the client secret and the TLS key, is written as `<secret>` (`WrittenCred`), while the CA
and the certificate are plain strings. `recursion_desired` is omitted when it is false,
and its default is true (`WrittenField`). These types are not in the repository; they are
those of the versions `go.mod` names. A key that is there and empty is resolved to the
empty string without an error, and the conversion then leaves the credential out, as
it does with one that was not read: the model tells `Empty` from `NotRead` so that
properties can.

`ConfigSync` treats an entry as an opaque member of a small set; this module says what
is in it. The two are not composed: that an exporter renders a module again is
`ConfigSync`'s matter, here it may happen at any time.

### Abstractions

- A cached read and the write made from it are one action. Between them only the
  object's version could change, and then the write is a conflict, as it is when the
  change comes first.
- A delivered event brings the newest version: intermediate versions that a cache
  would pass through are the earlier deliveries.
- A request whose answer is lost is applied before its sender goes on: no write
  arrives late.
- Names, specs, labels and rendered modules are members of small sets;
  `ConvertModule` maps a spec to an entry, an error or a panic. Secrets are not in
  the specs of `ConfigSync`.
- The list order of the cache is random, as iterating over a Go map is: any
  candidate may win a name, and `referencedByExporters` may have any order.
- Of conditions only what the properties need is kept: the verdict of a module and
  the reason of a probe. `prober`, `probeRef` and the time stamps are left out;
  `readyReplicas` is in `ExporterResources`, where the condition Ready follows from it.
  `setCondition` keeps a time stamp when the status does not change, which is why a
  repeated report is no change (`Changes`).
- A ConfigMap of that name that the operator did not create is not modelled; a
  `Probe` is.
- The CRD gives `spec.port` its default; `ExporterResources` has the default of the
  code too, `ProbeSync` an exporter that always has a port.
- `ConfigSync` and `ExporterResources` share the exporter controller: the first has
  everything up to the ConfigMap and the status, with the rest as one step that may
  fail (`ReconcileOwned`), the second the rest. A reconcile that fails before the
  Deployment looks to the second like a request that fails and is retried.
- Image, resources, scheduling and security context of a pod are copied and are one
  value (`pod`); of the arguments only the port they name matters. A single
  relabeling is opaque. `spec.additionalAnnotations` of exporters is read nowhere in
  the code and is not in a model.
- The pods of a Deployment someone has tampered with do nothing until the operator
  has repaired it.
- A spec in `ModuleRendering` has one field of each kind of conversion: copied
  (`failIfSSL`), copied unless zero (`method`, `ttl`), pointer (`followRedirects`), pointer
  that the YAML omits when false (`recursionDesired`), parsed (`proxyURL`), never
  converted (`bodySizeLimit`). Its secrets are those of its one section; values of
  secrets, and a password inside a `proxyURL`, are not told apart. Webhooks are on, as
  the chart has them by default.
- Watches do not relist except at a restart. One replica acts: the manifests and
  the chart pass `--leader-elect`.

## 3. Runs

| Run | Question | Result |
|---|---|---|
| `config_selection` | one edit of any kind (create, edit, relabel, delete, of exporter, module, ConfigMap; restart; resync), two selectors, labels that match or not, specs that convert, fail or panic, lost answers, a lost touch: complete configuration at rest and nothing else in it, type, inductive invariant, honest status, user edits kept, and does the exporter controller implement `Projection`? | holds |
| `config_fanout` | two exporters select one module: does a change reach both, when touches conflict with other writes and the list is reordered once? Two modules whose names clash in `blackbox.yml`, converting or not: is one of them served? | holds |
| `config_settles` | two modules share one annotation: are both served? An exporter is made anew before its ConfigMap is collected: does it get one of its own? Do the two controllers come to rest? | holds, the last under `Fairness` |
| `config_removed` | `docs/architecture.md:100`: "Watches: BlackboxExporter, BlackboxModule (to rebuild ConfigMap on module changes)" | violated: a deleted module stays |
| `config_references` | `docs/blackboxmodule.md:252`: "Exporters that include this module" | violated: an exporter created, edited or deleted later is not reflected (the trace has a deleted one) |
| `config_lost_touch` | `docs/architecture.md:115`: "Trigger reconciliation of referencing BlackboxExporter(s)" | violated: an answer lost and a touch failed, and the module is never served |
| `resources` | one exporter of any spec, one edit of any kind, another's Service or ServiceMonitor in the way, pods that fail, requests that fail or are refused: objects, readiness and report right, others' objects kept, does it come to rest, does it implement `Projection`? | holds, rest under `Fairness` |
| `resources_port` | `docs/blackboxexporter.md:98`: "Exporter listen port" | violated: with any port but 9115 no pod gets ready |
| `probe_churn` | one probe of any spec, two edits of any kind, others writing the same Probe, failures, lost answers: the Probe and its report, labels, no idle rewrite, do retries end once references resolve, does it implement `Projection`? | holds, rest under `Fairness` |
| `probe_stale` | `docs/blackboxprobe.md:95`: "pointing to the exporter's cross-namespace Service address" | violated: ready with the port of before, or without its exporter |
| `rendering` | specs of every section, with and without each peculiarity, and secrets that come, go and are emptied between two reads | holds |
| `rendering_secrets` | `docs/blackboxmodule.md:215`: "The ConfigMap contains the resolved value"; `api/v1alpha1/blackboxmodule_types.go:119`: "bodySizeLimit limits the response body size in bytes" | violated: the certificate and the CA are there, the key is `<secret>`, and there is no limit |

Other places where the code does not do what a document says, found while modelling
and visible in the definitions named, have no run of their own:

- `docs/blackboxprobe.md:228` has "`spec.scrapeTimeout` must be <= `spec.interval`".
  `validateProbeSpec` compares before the defaults are known and only with an interval
  above zero (`Admitted`): an explicitly empty interval with a timeout of `2m` is admitted and
  becomes a `Probe` with 60s and 2m, an empty timeout with an interval of `5s` one with 5s and 10s.
- `api/v1alpha1/blackboxprobe_types.go:54` says that `additionalLabels` "propagate to
  scraped metrics". They do for static targets (`StaticTargets`), not for those of
  Ingress objects (`IngressTargets`), about which `LabelsKept` says nothing.
- `internal/converter/secrets.go:28` "reads all SecretKeySelector references": those of
  a tcp or grpc section are not read (`Followed`), although the conversion has a place for
  them (`UsedSlots`). `SpecRendered` fails of such a module as well, and for this reason.
- A `recursionDesired: false` is converted, as `internal/converter/module_test.go:232`
  expects, and is not in the YAML (`WrittenField`). `SpecRendered` fails of it too.

Deadlock is not checked: a system at rest with its edits used up has no step left,
and that is how it should end.

## 4. Bounds

- `MaxEdits` bounds what users, restarts and resyncs do after the start, not what
  the operator does. The start is any cluster on which objects are applied and
  nothing has been generated yet, so one edit is a second version of something and
  two are a deletion with a new creation, or an edit during a reconcile that follows
  an edit. The first reconcile of the start is under way when the first edit comes.
- `config_settles` lets users act once, at rest (`EditAtRest`), and has one more edit
  for the recreation of an exporter whose ConfigMap is not collected yet; that keeps
  two modules within reach of a liveness check. Edits in the middle of a reconcile are
  the matter of `config_selection`, and for every number of edits of the proofs.
- `resources` has one edit, `probe_churn` two. In `resources` the exporter starts with
  at most one stranger in its way (`OneStranger`: a Service of another controller, or a
  ServiceMonitor that is not wanted), an edit has the plain spec on one side, and a
  deletion comes at rest or before the ServiceMonitor is dealt with (`PlainEdits`).
  Its seven specs are the plain one and one peculiarity each: another port with and
  without the argument for it, a selector label overridden, an interval the API server
  refuses, two that are not admitted. `probe_churn` has likewise seven.
- `MaxDrops` bounds the touches lost to a failed request; `config_selection` and
  `config_lost_touch` have one. With one module and one exporter, one is all that can be
  missing; that a loss costs no other pair is in the proofs, for every number.
- `MaxShuffles` bounds how often a list returns the same exporters in another order
  than the status has. In the code a reorder writes the status, which wakes the
  controller, which lists again: this ends with probability 1 but not certainly, so
  it cannot be left to fairness.
- A collection of a ConfigMap that the operator has not yet seen go ownerless is
  counted as an edit, because it may render it again and again until it has seen.
- Two exporters or two modules are enough for what they share: one annotation per
  exporter, one loop over exporters per module, one name. `config_fanout` has either one
  module and two exporters or one exporter and two modules of one name (`FanOrClash`), uses
  the symmetry of exporters, modules and the two specs that convert (`Interchangeable`), and
  lets users act on a module when all is at rest (`ModuleEditAtRest`); `config_selection`
  has the symmetry too, of the two specs, and neither restriction. The proofs need no
  bound.
- In `config_fanout` a ConfigMap is written at most three times. With clashing names the
  operator need not come to rest: each reconcile may render the other module, the write
  enqueues the exporter, and so on. Three writes let a rendering follow the one of either
  module, before or after a change. For the same reason `Settles` is checked with
  distinct names.
- `rendering` takes a plain spec of each section and changes it in one respect (timeout,
  pattern, one set of references, for http and dns one field), and adds a spec without a section, one with
  two, and a dns spec without its query name. Two secret keys, shared by up to five
  references, are enough for one to be there and one not, or empty; two edits let a key vanish
  and return, or a spec and a secret change, during one resolution.

## 5. Fairness

- Weak, for a delivered event, the garbage collector and each local step of a
  worker: informers and workers run.
- Strong, for taking each key: the work queue is first-in first-out, so no key is
  passed over forever.
- Strong, for `ok` of a request that is retried: a request sent again and again is
  answered in the end. `ReportMissing` ignores the answer, so it only needs to be
  sent.
- Weak, for pods that can get ready (`PodsChange`); none for their failures.
- None for users, restarts, resyncs and failures. `Settles` of the probe has as
  hypothesis that the references resolve from some time on and that the API server
  takes what is built, that of the resources that nothing is in the way (`Unobstructed`):
  until then retries are the intended behaviour.

## 6. Proofs

TLAPS checks the following for every value of the constants: all keys, selectors,
specs, secrets and bounds. The assumptions are those named in the modules, which TLC
evaluates in the runs:

- `ConfigSync`: finitely many exporters and names; what `ConvertModule` returns is an
  entry, an error or a panic; `SelectorAssumption`.
- `ProbeSync`: targets are a sequence, references lead to keys
  (`ContentAssumption`).
- `ExporterResources`: replicas and ports are numbers (`ContentAssumption`), and an
  object someone edited differs from all that the code makes (`TamperedAssumption`).
- `ModuleRendering`: specs have the shape of `SpecType`, and what stands for a missing,
  empty, unread or redacted value is not a value.
- all: a request may be answered (`ReplyAssumption`), bounds are natural numbers.

| Module | Theorem | Says |
|---|---|---|
| `ConfigSync_proofs` | `SameSelection` | the two selector implementations agree |
| | `TypeCorrect` | `TypeOK` |
| `ConfigSyncInv_proofs` | `VerdictsCurrent`, `IntentKept`, `StatusHonest` | `VerdictCurrent`, `UserIntentKept`, `StatusForCurrent` |
| | `OwnedAtRest`, `StatusAtRest` | `ConfigMapOwned`, `StatusSettled` |
| `ConfigSyncComplete_proofs` | `CompleteAtRest` | `ConfigComplete`, with or without clashing names and lost touches |
| | `NothingElseAtRest` | `NothingElse` |
| `ConfigSyncRefines_proofs` | `InvariantHolds` | `IInv` |
| | `Refinement`, `ReportBacked` | `ConfigSync` implements `Projection` (`Refines`); what follows for its own variables |
| `ProbeSync_proofs` | `TypeCorrect`, `Inductive` | `TypeOK`, the invariant below |
| | `GeneratedAtRest`, `ReportedAtRest` | `ProbeGenerated`, `ProbeReported` |
| | `Backed`, `ReportsCurrent`, `WritesTell` | `ReadyBacked`, `ReportForCurrent`, `WritesMatter` |
| | `LabelsAlwaysKept` | `LabelsKept` |
| | `Refinement`, `ReportBacked` | `ProbeSync` implements `Projection` (`Refines`); what follows |
| `ExporterResources_proofs` | `TypeCorrect`, `Inductive` | `TypeOK`, the invariant below |
| | `InPlaceAtRest`, `ReadyAtRest` | `ResourcesAtRest`, `ReadinessAtRest` |
| | `Backed`, `NeverReported`, `OthersAlwaysKept` | `ObservedBacked`, `RefusedUnreported`, `OthersKept` |
| | `Refinement`, `ReportBacked` | `ExporterResources` implements `Projection` (`Refines`); what follows |
| `Projection_proofs` | `AlwaysOrdered` | nothing is reported that was not derived, nothing derived that was not asked for |
| `ModuleRendering_proofs` | `TypeCorrect`, `RenderingInvariant` | `TypeOK`, the invariant below |
| | `SectionRendered`, `ExplicitRendered`, `AdmittedUsable` | `SectionHonoured`, `ExplicitKept`, `AdmittedConverts` |
| | `CredentialsWhole`, `ValidModulesKept` | `AllOrNothing`, `ValidKept` |

**The configuration** (`CompleteAtRest`). At rest the ConfigMap must be right about every
selected module (`Suits`): it has the entry, or none if the module does not convert. The
invariant says what is under way when it is not. `Traced`: there is another reconcile
of the exporter or of the module to come, or a worker that is about to render or to
touch, or the touch was lost. The difficult step is the touch that changes nothing,
because the annotation has that value: then `TouchSuffices` must hold, that the
annotation naming the current version of the module is enough. It is, since the version
is only written after the module cache has the content it names (`TouchVersion`), so an
exporter reconcile caused by the touch reads that content. The version bookkeeping
(`CachesOlder`, `CachesCurrent`, `ExporterWorkerVersion`, `ModuleWorkerVersion`) says
how old what a worker holds may be: if it is not the current version, the key is
queued again, and if it is, the write is not refused. A touch that conflicts is
harmless, because a conflict means that an event of the exporter is on its way. One
whose request fails is not (`config_lost_touch`); the invariant shows what that costs:
this module on this exporter, until the exporter collects its modules for whatever
reason, since every rendering starts from all of them.

**Nothing else** (`NothingElseAtRest`). `Accounted` explains each entry from the other
side: it is that of a module the cache says is selected, or of one that has left. It is
kept because a cache that moves on past a selected version either leaves the module
selected or puts the pair into `left`, and a rendering takes entries from collected
modules only. At rest caches are current, so an entry belongs to a module that is
selected now, and `Traced` says that the ConfigMap is right about that one. So with
names of their own and no touch lost, the stale entries `config_removed` shows are the
only ones: a spec that no longer converts leaves none, although nothing but a touch
tells the exporter.

**Shared names.** When two modules share a name (namespace `a-b`, module `c`; namespace
`a`, module `b-c`) one of them is not in the file, and which one is left to the order of
a list. What then holds, and is proved by the same argument (`Holds`), is that the name has an entry
although a module under it may be refused. It need not be the entry of a module that is
still selected: when that module goes nobody touches the exporter (`config_removed`).

**Verdicts and panics.** That a reported module is one whose conversion does not panic
(`VerdictCurrent`) is not a matter of one state: the verdict comes from a worker that has
passed the conversion with the spec it read, so the invariant has the same of workers
(`JudgedConverted`), and the step to the API server's object needs that a worker with the
current generation has the current spec.

**The probe and the exporter's objects** have the same argument, in two halves.
`Versions`: caches and the worker hold earlier states of what is in the API server, the
same resourceVersion means the same object, and the history `made` never runs ahead of
them; of what the worker has dealt with in this reconcile, `made` is exactly the version
it read. `Noticed`: whatever differs from what a reconcile would make of it has
something to say so, namely an event not delivered yet, a key in the queue, or a worker
that is about to find out; and what the worker has already dealt with stands as it left
it, or a further reconcile is certain. At rest nothing is under way, so everything
stands. The second half is where an event that enqueues nobody, or a reconcile that
goes on after an error, breaks the proof.

`ExporterResources` needs two more conjuncts. `AllGenuine`: an object of the operator
holds what the code makes of some admitted spec and the API server takes, or was edited
since; thus a Deployment the operator finds as it should be is one the API server has
accepted. `Unrefused`: what a reconcile has passed, and what is reported, is nothing
the API server refuses. `OthersKept` follows from the first half: the operator claims an
object by what its cache holds, and a write that succeeds proves that the cache was
current.

**The exporter controller's promise** (`MadeInOrder`). `made` is at most the version
in the worker, which is at most the one in the cache, which is at most the current one;
past the ConfigMap it is the worker's own; and what is reported was made. What makes
these an order is that versions grow over incarnations: a new uid is above every
resourceVersion the key had, and `Version` is never above the resourceVersion
(`Version(exporter[e]) <= exporter[e].rv`), so an exporter made anew starts above
whatever a cache, a worker or a ConfigMap still has of the old one.

**The refinements.** A step writes one source or one entry of `made`, or neither
(`OneAtATime`; `OneExporter`, `OneMade`). A user's write is a `Revise`, because a new
incarnation starts above every version before it. An entry of `made` gets the version the
worker read: at least the one it had and at most the current one, so it is a `Derive` or
nothing. In all three the status update is taken only if the worker's copy has the current
resourceVersion; then it is the current object, by `Versions` every part was made from
it, and the step is a `Report`. A probe whose reference is gone is a `Retract`.

**One module.** `RenderingInv` says that the controller works on an admitted spec and
that a slot was read exactly if it is referred to and no longer to do, or that all was
discarded: so what an entry lacks of its credentials was read, and empty, or it has none
(`CredentialWritten` takes this through conversion and YAML). That an admitted spec has one section, and that the `switch` of
`ConvertModule` takes it, follows from the cardinality of its set of sections; that the
section is all there is makes the credentials whole.

`ReportBacked` takes the theorem of `Projection_proofs` through the mapping (`Abstract ==
INSTANCE Projection_proofs WITH ...`): a reported version is at most the one each part was
made from, and that one at most the current. It costs each module a few lines, where a
direct proof would repeat the induction.

Only model-checked: liveness (`Settles`, in three modules), which is beyond TLAPS, and
the runs that find a violation.

## 7. Not modelled, and the plan

Next:

1. The modules' side of the configuration as an abstract specification: a register per
   exporter that at rest holds `Suits` of each module. `CompleteAtRest` and
   `NothingElseAtRest` state it of the states at rest; in between a ConfigMap has many
   sources of different age, which `Projection` does not allow.
2. The composition of `ConfigSync` and `ProbeSync`: a probe that is ready names a
   module its exporter serves. The code does not watch for it (`probe_stale`), so the
   property has to be one of probes reconciled since the last change.
3. The two disagreements above about probes as runs; there are as many runs as
   can be kept in view, and those that show graver ones came first.
4. Secrets with values, for a certificate and a key that are rotated between two reads.

Not planned: flags, TLS and metrics of the manager (I/O); generated code
(`zz_generated.deepcopy.go`); CRDs, manifests and the chart (declarations, whose
defaults are facts about the inputs here); the wording of messages and conditions; test
code. `spec.additionalAnnotations` of exporters is part
of the API and is read nowhere in the code, so there is nothing to model.
