------------------------------ MODULE Selector ------------------------------
(***************************************************************************)
(* Which modules an exporter serves.  The operator decides this twice, in  *)
(* two pieces of code that nothing keeps in step: the exporter controller  *)
(* filters the modules it lists (collectModules) and the module controller *)
(* filters the exporters it lists (moduleMatchesSelector).  Each is        *)
(* translated here from its own code.                                      *)
(*                                                                         *)
(* A selector is a record: any (NamespaceSelector.Any), matchNames (a set  *)
(* of namespaces; the code only tests membership and emptiness) and        *)
(* matchLabels (a function on the keys it requires).  Labels are a         *)
(* function on the keys that are set.                                      *)
(***************************************************************************)

CONSTANT EmptyValue    \* the label value "", which a Go map gives for a missing key

\* mod.Labels[k]: a missing key reads as the empty string.
LabelValue(labels, k) == IF k \in DOMAIN labels THEN labels[k] ELSE EmptyValue

\* collectModules: does an exporter in namespace own, with selector sel,
\* collect a module of namespace ns with these labels?
Collects(sel, own, ns, labels) ==
  /\ ~ sel.any => IF sel.matchNames # {} THEN ns \in sel.matchNames ELSE ns = own
  /\ DOMAIN sel.matchLabels # {} =>
       \A k \in DOMAIN sel.matchLabels : LabelValue(labels, k) = sel.matchLabels[k]

\* moduleMatchesSelector: the module controller's answer to the same question.
Matches(sel, own, ns, labels) ==
  /\ \/ sel.any
     \/ sel.matchNames # {} /\ ns \in sel.matchNames
     \/ sel.matchNames = {} /\ ns = own
  /\ ~ \E k \in DOMAIN sel.matchLabels : LabelValue(labels, k) # sel.matchLabels[k]
=============================================================================
