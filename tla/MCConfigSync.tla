---------------------------- MODULE MCConfigSync ----------------------------
(***************************************************************************)
(* ConfigSync with small constants for TLC.                                *)
(***************************************************************************)
EXTENDS ConfigSyncInv, TLC

CONSTANTS e1, e2, m1, m2,            \* keys
          home, away,                \* namespaces
          app, prod, dev,            \* a label key and two values
          good, better, wrong, bomb, \* module specs
          cGood, cBetter             \* what good and better are rendered to

\* An exporter selects the modules of its own namespace, or all those with a
\* label.
OwnNamespace == [any |-> FALSE, matchNames |-> {}, matchLabels |-> <<>>]
AnyProd      == [any |-> TRUE, matchNames |-> {}, matchLabels |-> app :> prod]

\* Exporters are at home with the module m1; m2 is away.
InHome == (e1 :> home) @@ (e2 :> home) @@ (m1 :> home) @@ (m2 :> away)

\* All keys are in one namespace.
AllHome == [k \in Exporters \cup Modules |-> home]

\* Every module has its own name in blackbox.yml.
OwnName == [m \in Modules |-> m]

\* All modules have one name there.
OneName == [m \in Modules |-> CHOOSE n \in Names : TRUE]

\* good and better convert, wrong is refused, bomb has a pattern that panics.
Conversion ==
  [b \in Bodies |-> CASE b = good   -> cGood
                      [] b = better -> cBetter
                      [] b = wrong  -> ConvertError
                      [] b = bomb   -> ConvertPanic]

OneSelector  == {AnyProd}
TwoSelectors == {OwnNamespace, AnyProd}
ProdOnly     == {app :> prod}
ProdOrDev    == {app :> prod, app :> dev}

\* Two exporters with the same selector are interchangeable, and so are two
\* modules with the same name in the same namespace, and the two specs that
\* convert together with what they are rendered to.
OtherSpec ==
  (good :> better) @@ (better :> good) @@ (cGood :> cBetter) @@ (cBetter :> cGood)

Interchangeable == Permutations(Exporters) \cup Permutations(Modules) \cup {OtherSpec}

\* One module for two exporters, or two modules of one name for one exporter,
\* and only these may be refused.  Two of one name may render the ConfigMap in
\* turns, without an end.
Live(objs) == {k \in DOMAIN objs : objs[k].live}

FanOrClash ==
  /\ Cardinality(Live(exporter)) + Cardinality(Live(module)) <= 3
  /\ \A m \in Modules : module[m].body = wrong => Cardinality(Live(exporter)) = 1
  /\ \A e \in Exporters : configMap[e].rv <= 3

\* Users have applied the exporters; once these are at rest users act on a
\* module, which is there or not.
ModuleEditAtRest == edits' # edits => Quiescent /\ module' # module

\* Users act once when all is at rest; an exporter they deleted may be made anew
\* before its ConfigMap is collected.
EditAtRest ==
  edits' # edits =>
    \/ edits = 0 /\ Quiescent
    \/ \E e \in Exporters : Garbage(e) /\ ~ exporter[e].live /\ exporter'[e].live
=============================================================================
