--------------------------- MODULE ProbeRendering ---------------------------
(***************************************************************************)
(* One BlackboxProbe on its own: which specs validateProbeSpec admits, and *)
(* which Probe of prometheus-operator the probe controller builds for one. *)
(*                                                                         *)
(* Labels are functions on the keys that are set.  A duration is a record: *)
(* its text (only whether it is empty is looked at), whether Go's          *)
(* ParseDuration takes it, to how many seconds, and whether it matches the *)
(* pattern the CRD of the generated Probe demands.  A reference is a       *)
(* record, whose namespace may be empty; the object referred to has a      *)
(* namespace and a name.                                                   *)
(***************************************************************************)
EXTENDS Integers, FiniteSets, Sequences, Functions, Labels

CONSTANTS
  NamespaceOf,   \* the namespace of each BlackboxProbe key
  ModuleName,    \* converter.ModuleName of each module key
  LabelValues,   \* the texts that are label values (at most 63 characters)
  NoIngress      \* spec.ingress is not set

\* The defaults of the controller.
OneMinute  == [text |-> "60s", parses |-> TRUE, seconds |-> 60, matches |-> TRUE]
TenSeconds == [text |-> "10s", parses |-> TRUE, seconds |-> 10, matches |-> TRUE]

----------------------------------------------------------------------------
(* Admission *)

\* The field is set.
Given(duration) == duration.text # ""

\* validateProbeSpec.  An interval that is empty, zero or negative is no bound.
Admitted(spec) ==
  /\ spec.exporterRef.name # "" /\ spec.moduleRef.name # ""
  /\ spec.targets # <<>> \/ spec.ingress # NoIngress
  /\ Given(spec.interval) => spec.interval.parses
  /\ Given(spec.scrapeTimeout) =>
       /\ spec.scrapeTimeout.parses
       /\ Given(spec.interval) /\ spec.interval.seconds > 0 =>
            spec.scrapeTimeout.seconds <= spec.interval.seconds

----------------------------------------------------------------------------
(* The generated Probe *)

\* The object a reference of probe p names.
RefKey(p, ref) ==
  [name      |-> ref.name,
   namespace |-> IF ref.namespace # "" THEN ref.namespace ELSE NamespaceOf[p]]

\* The labels nobody may override.
ReservedLabels(spec) ==
  [managedBy |-> "blackbox-exporter-operator",
   exporter |-> spec.exporterRef.name, module |-> spec.moduleRef.name]

\* buildProbeMetadata: the deprecated additionalLabels, then probeMetadata,
\* then the reserved labels.
ObjectLabels(spec) ==
  Over(Over(spec.additionalLabels, spec.metadataLabels), ReservedLabels(spec))

\* Mutant of KeyOrders: the keys are not sorted, and a Go map yields them in
\* any order.
KeyOrdersAny(S) == {s \in [1 .. Cardinality(S) -> S] : IsInjective(s)}

\* The orders in which the keys of a map come: one, since they are sorted.
KeyOrders(S) ==
  {CHOOSE s \in [1 .. Cardinality(S) -> S] : IsInjective(s)}

\* The static part of buildProbeTargets.
StaticTargets(spec) ==
  [targets |-> spec.targets,
   labels  |-> IF spec.targets = <<>> THEN <<>>
                                      ELSE Over(spec.additionalLabels, spec.targetLabels)]

\* The ingress part, with the keys of its labels in the order keys: each label
\* becomes a replace relabeling, before those of the user.
IngressTargets(ingress, keys) ==
  [selector   |-> ingress.selector,
   any        |-> ingress.any,
   matchNames |-> IF ingress.any THEN {} ELSE ingress.matchNames,
   relabelings |-> [i \in DOMAIN keys |-> <<keys[i], ingress.labels[keys[i]]>>],
   then       |-> ingress.relabelings]

IngressRenderings(ingress) ==
  IF ingress = NoIngress
    THEN {NoIngress}
    ELSE {IngressTargets(ingress, keys) : keys \in KeyOrders(DOMAIN ingress.labels)}

\* The Probes that may be built for probe p with this spec, once its exporter
\* is known to have that port.
Renderings(p, spec, port) ==
  {[exporter |-> RefKey(p, spec.exporterRef), port |-> port,
    module |-> ModuleName[RefKey(p, spec.moduleRef)],
    labels |-> ObjectLabels(spec), annotations |-> spec.annotations,
    interval |-> IF Given(spec.interval) THEN spec.interval ELSE OneMinute,
    timeout |-> IF Given(spec.scrapeTimeout) THEN spec.scrapeTimeout ELSE TenSeconds,
    static |-> StaticTargets(spec), ingress |-> ingress,
    relabelings |-> spec.relabelings] : ingress \in IngressRenderings(spec.ingress)}

\* The API server takes a Probe whose durations match the pattern of its CRD
\* and whose labels are labels.
Accepted(data) ==
  /\ data.interval.matches /\ data.timeout.matches
  /\ \A k \in DOMAIN data.labels : data.labels[k] \in LabelValues

----------------------------------------------------------------------------
(* What the documentation says of a generated Probe *)

\* "The following labels are reserved and cannot be overridden", "Its labels
\* take precedence over additionalLabels", "They take precedence over
\* additionalLabels": each label has the value of the highest that sets it.
LabelsRanked(spec, data) ==
  /\ \A k \in DOMAIN ReservedLabels(spec) : data.labels[k] = ReservedLabels(spec)[k]
  /\ \A k \in DOMAIN spec.metadataLabels \ DOMAIN ReservedLabels(spec) :
       data.labels[k] = spec.metadataLabels[k]
  /\ spec.targets # <<>> =>
       \A k \in DOMAIN spec.additionalLabels \cup DOMAIN spec.targetLabels :
         data.static.labels[k] = IF k \in DOMAIN spec.targetLabels
                                   THEN spec.targetLabels[k] ELSE spec.additionalLabels[k]
=============================================================================
