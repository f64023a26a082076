---------------------------- MODULE MCProbeSync -----------------------------
(***************************************************************************)
(* ProbeSync with small constants for TLC.                                 *)
(***************************************************************************)
EXTENDS ProbeSync, TLC

CONSTANTS p1,                  \* a BlackboxProbe, at home
          nine, ten,           \* ports
          t1, t2,              \* targets
          pods, keep           \* an Ingress selector, a list of relabelings

Home(name) == [name |-> name, namespace |-> "home"]
Ref(name)  == [name |-> name, namespace |-> ""]

OneExporter == {Home("blackbox")}
TwoModules  == {Home("http"), Home("tcp")}
AtHome      == [p \in Probes |-> "home"]
Joined      == [m \in Modules |-> <<m.namespace, m.name>>]
Texts       == {"blackbox-exporter-operator", "blackbox", "http", "tcp", "web", "db"}

\* Durations: plain ones, one Go cannot read, one only Go can read, none.
Dur(text, parses, seconds, matches) ==
  [text |-> text, parses |-> parses, seconds |-> seconds, matches |-> matches]
FiveSeconds == Dur("5s", TRUE, 5, TRUE)
TwoMinutes  == Dur("2m", TRUE, 120, TRUE)
OneDay      == Dur("1d", FALSE, 0, TRUE)
HalfHour    == Dur("0.5h", TRUE, 1800, FALSE)
Unset       == Dur("", FALSE, 0, TRUE)

\* A probe of two static targets, with no label.
Plain ==
  [exporterRef |-> Ref("blackbox"), moduleRef |-> Ref("http"),
   targets |-> <<t1, t2>>, targetLabels |-> <<>>, ingress |-> NoIngress,
   interval |-> OneMinute, scrapeTimeout |-> TenSeconds, metadataLabels |-> <<>>,
   annotations |-> <<>>, additionalLabels |-> <<>>, relabelings |-> keep]

\* Labels everywhere, a reserved one among them, and no explicit interval.
Labelled ==
  [Plain EXCEPT !.moduleRef = Home("tcp"), !.interval = Unset, !.scrapeTimeout = TwoMinutes,
     !.targetLabels = "team" :> "db", !.metadataLabels = "module" :> "web" @@ "team" :> "db",
     !.additionalLabels = "team" :> "web" @@ "exporter" :> "db"]

\* Targets from Ingress objects only, with two labels.
Discovered ==
  [Plain EXCEPT !.targets = <<>>, !.scrapeTimeout = Unset, !.ingress =
     [selector |-> pods, any |-> FALSE, matchNames |-> {"home"},
      labels |-> "team" :> "web" @@ "tier" :> "db", relabelings |-> keep]]

\* Admitted, and refused by the API server when the Probe is written.
Fractional == [Plain EXCEPT !.interval = HalfHour]

\* Not admitted.
Unfit    == [Plain EXCEPT !.interval = FiveSeconds]
Unread   == [Plain EXCEPT !.interval = OneDay]
Nothing  == [Plain EXCEPT !.targets = <<>>]
Nameless == [Plain EXCEPT !.moduleRef = Ref("")]

AllSpecs   == {Plain, Labelled, Discovered, Fractional, Unfit, Unread, Nothing}
PlainSpecs == {Plain}
=============================================================================
