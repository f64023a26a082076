------------------------- MODULE MCExporterResources ------------------------
(***************************************************************************)
(* ExporterResources with small constants for TLC.                         *)
(***************************************************************************)
EXTENDS ExporterResources, TLC

CONSTANTS e1,               \* a BlackboxExporter
          plainPod          \* the rest of a pod: image, resources, arguments, ...

\* An exporter with all defaults, and its metrics scraped.
Plain ==
  [replicas |-> 1, port |-> 0, listen |-> 0, additionalLabels |-> <<>>,
   monitor |-> TRUE, interval |-> "", monitorLabels |-> <<>>, pod |-> plainPod]

\* Another port, which the process is told of, and no ServiceMonitor.
Moved == [Plain EXCEPT !.port = 9200, !.listen = 9200, !.monitor = FALSE]

\* Another port, which the process is not told of.
Deaf == [Plain EXCEPT !.port = 9200]

\* A label that the pods are selected by is overridden.
Relabelled == [Plain EXCEPT !.additionalLabels = "name" :> "probes"]

\* An interval that no ServiceMonitor may have.
Fractional == [Plain EXCEPT !.interval = "0.5h"]

\* Not admitted.
Negative == [Plain EXCEPT !.replicas = -1]
TooHigh  == [Plain EXCEPT !.port = 65536]

AllSpecs == {Plain, Moved, Deaf, Relabelled, Fractional, Negative, TooHigh}

\* Before the first edit there is at most one object: a Service in the way of the
\* plain exporter, or a ServiceMonitor where none is wanted.
OneStranger ==
  edits = 0 => \A e \in Exporters :
    /\ ~ exporter[e].live => exporter[e].spec = Plain
    /\ \A k \in Kinds : child[e][k].live /\ ~ Owned(child[e][k]) =>
         /\ exporter[e].live /\ child[e][k].controller = "other"
         /\ \/ k = "service" /\ exporter[e].spec = Plain
            \/ k = "monitor" /\ exporter[e].spec = Moved

\* The plain spec is edited, or restored, and an exporter is deleted at rest or
\* while its ServiceMonitor is still to come.
PlainEdits ==
  \A e \in Exporters :
    /\ exporter'[e].spec # exporter[e].spec => Plain \in {exporter[e].spec, exporter'[e].spec}
    /\ exporter[e].live /\ ~ exporter'[e].live =>
         Quiescent \/ (worker.pc = "monitor" /\ childEvents = {})
=============================================================================
