-------------------------- MODULE ModuleRendering --------------------------
(***************************************************************************)
(* What becomes of one BlackboxModule: what admission accepts, which       *)
(* secrets are read for it, what it is converted to, and what of that is   *)
(* in blackbox.yml when the exporter loads it.                             *)
(* ConfigSync says when an exporter renders a module; here it may do so at *)
(* any time, while users edit the module and its secrets, which are read   *)
(* one by one.                                                             *)
(***************************************************************************)
EXTENDS Integers, FiniteSets

CONSTANTS
  Specs,      \* the module specs users try to apply, see SpecAssumption
  Refs,       \* the secret keys specs refer to (name and key of a Secret)
  NoRef,
  Values,     \* what a secret key holds
  Missing,    \* ... while the Secret or its key is not there
  Empty,      \* ... while the key is there and holds the empty string
  NotRead,    \* a secret that was not read, in the code the empty string too
  Redacted,   \* the text <secret>
  Absent,     \* no entry in blackbox.yml
  MaxEdits    \* bound on what users do

\* The sections of a spec, in the order of the switch in ConvertModule.
SectionOrder ==
  [http |-> 1, tcp |-> 2, dns |-> 3, icmp |-> 4, grpc |-> 5, unix |-> 6, websocket |-> 7]

Sections == DOMAIN SectionOrder

\* The secrets a section can refer to, in the order they are read: basicAuth,
\* oauth2, then the three of its tlsConfig.
SlotOrder == [password |-> 1, clientSecret |-> 2, ca |-> 3, cert |-> 4, key |-> 5]

Slots == DOMAIN SlotOrder

\* The ways of a field into blackbox.yml: copied as it is (failIfSSL, tls,
\* service); copied unless it is empty, zero or negative (method, ttl); a
\* pointer, copied unless it is nil (followRedirects); such a pointer to what
\* is left out of the YAML when it is false (recursionDesired); parsed, and left
\* out when that fails (proxyURL); and never looked at (bodySizeLimit).
Kinds == {"plain", "optional", "pointer", "omitted", "parsed", "unread"}

FieldValues == {"unset", "zero", "value", "garbled"}

\* A spec: its timeout, its sections, the patterns these have, one field of
\* each kind (a section without such a field leaves it unset), and the secrets
\* referred to.
SpecType ==
  [timeout : {"duration", "empty", "garbled"}, sections : SUBSET Sections,
   queryName : BOOLEAN, pattern : {"none", "good", "bad"},
   fields : [Kinds -> FieldValues], refs : [Slots -> Refs \cup {NoRef}]]

\* What was read of the secrets.
Resolved == [Slots -> Values \cup {Empty, NotRead}]

\* A module in blackbox.yml, as the exporter loads it: the section it was made
\* from, its prober, the same fields and the credentials.
Module ==
  [section : Sections, prober : Sections,
   fields : [Kinds -> FieldValues \cup {"default"}],
   creds : [Slots -> Values \cup {Empty, Redacted}]]

ASSUME SpecAssumption == Specs \subseteq SpecType

ASSUME ValueAssumption ==
  /\ NoRef \notin Refs
  /\ Values \cap {Missing, Empty, NotRead, Redacted} = {}
  /\ Empty \notin {Missing, NotRead, Redacted} /\ NotRead # Missing
  /\ Absent \notin Module

ASSUME BoundAssumption == MaxEdits \in Nat

VARIABLES
  spec,     \* the spec of the module
  secret,   \* what each secret key holds
  worker,   \* the exporter controller, on this module
  entry,    \* the module in blackbox.yml
  edits     \* what users did so far

vars == <<spec, secret, worker, entry, edits>>

----------------------------------------------------------------------------
(* Admission *)

\* Mutant of Admitted: the count is not checked from above.
AdmittedMany(s) ==
  /\ s.sections # {}
  /\ s.timeout # "garbled"
  /\ "dns" \in s.sections => s.queryName

\* Mutant of Admitted: the timeout is not parsed.
AdmittedUnparsed(s) ==
  /\ Cardinality(s.sections) = 1
  /\ "dns" \in s.sections => s.queryName

\* validateModuleSpec.
Admitted(s) ==
  /\ Cardinality(s.sections) = 1
  /\ s.timeout # "garbled"
  /\ "dns" \in s.sections => s.queryName

----------------------------------------------------------------------------
(* Secrets *)

NoSecrets == [slot \in Slots |-> NotRead]

\* The references ResolveModuleSecrets follows: those of the http section.
\* (It returns before it looks at those of the others.)
Followed(s) ==
  {slot \in Slots : "http" \in s.sections /\ s.refs[slot] # NoRef}

----------------------------------------------------------------------------
(* Conversion *)

\* Mutant of ConvertField: a pointer to a zero value counts as nil.
ConvertFieldZero(kind, v) ==
  CASE kind = "plain"  -> IF v = "unset" THEN "zero" ELSE v
    [] kind = "parsed" -> IF v = "value" THEN v ELSE "default"
    [] kind = "unread" -> "default"
    [] OTHER           -> IF v \in {"unset", "zero"} THEN "default" ELSE v

\* A field of the module, or the upstream default.
ConvertField(kind, v) ==
  CASE kind = "plain"    -> IF v = "unset" THEN "zero" ELSE v
    [] kind = "optional" -> IF v \in {"unset", "zero"} THEN "default" ELSE v
    [] kind = "parsed"   -> IF v = "value" THEN v ELSE "default"
    [] kind = "unread"   -> "default"
    [] OTHER             -> IF v = "unset" THEN "default" ELSE v

\* The section the switch takes when there are several.
Chosen(s) ==
  CHOOSE x \in s.sections : \A y \in s.sections : SectionOrder[x] <= SectionOrder[y]

\* The sections whose patterns MustNewRegexp compiles.
CompilesPatterns == {"http", "tcp", "unix"}

\* The secrets each section has a place for.
UsedSlots(section) ==
  CASE section = "http"            -> Slots
    [] section \in {"tcp", "grpc"} -> {"ca", "cert", "key"}
    [] OTHER                       -> {}

\* ConvertModule returns an error, panics, or converts.
Outcome(s) ==
  IF s.timeout # "duration" \/ s.sections = {} THEN "error"
  ELSE IF Chosen(s) \in CompilesPatterns /\ s.pattern = "bad" THEN "panic"
  ELSE "module"

\* A secret takes its place in the module unless it is the empty string.
Injected(s, secrets, slot) ==
  IF slot \in UsedSlots(Chosen(s)) /\ s.refs[slot] # NoRef /\ secrets[slot] \in Values
    THEN secrets[slot] ELSE Empty

\* The module; a Unix socket is probed with the tcp prober.
Converted(s, secrets) ==
  [section |-> Chosen(s),
   prober  |-> IF Chosen(s) = "unix" THEN "tcp" ELSE Chosen(s),
   fields  |-> [k \in Kinds |-> ConvertField(k, s.fields[k])],
   creds   |-> [slot \in Slots |-> Injected(s, secrets, slot)]]

----------------------------------------------------------------------------
(* blackbox.yml *)

\* A false that the YAML omits is loaded as the default, which is true.
WrittenField(kind, v) == IF kind = "omitted" /\ v = "zero" THEN "default" ELSE v

\* Those of type promconfig.Secret are not written out (the operator leaves
\* promconfig.MarshalSecretValue as it is); the CA and the certificate are
\* plain strings.
WrittenCred(slot, v) ==
  IF slot \in {"password", "clientSecret", "key"} /\ v # Empty THEN Redacted ELSE v

\* RenderConfig, and the exporter loading what it wrote.
Written(m) ==
  [m EXCEPT !.fields = [k \in Kinds |-> WrittenField(k, m.fields[k])],
            !.creds  = [slot \in Slots |-> WrittenCred(slot, m.creds[slot])]]

----------------------------------------------------------------------------
(* Users *)

Edit == edits < MaxEdits /\ edits' = edits + 1

ApplySpec(s) ==
  /\ Edit
  /\ Admitted(s)
  /\ spec' = s
  /\ UNCHANGED <<secret, worker, entry>>

\* A secret is created, rotated, emptied or deleted.
WriteSecret(r, v) ==
  /\ Edit
  /\ secret' = [secret EXCEPT ![r] = v]
  /\ UNCHANGED <<spec, worker, entry>>

----------------------------------------------------------------------------
(* The exporter controller renders the module *)

Idle == [pc |-> "idle"]

StartModule ==
  /\ worker.pc = "idle"
  /\ worker' = [pc |-> "resolve", spec |-> spec, todo |-> Followed(spec),
                secrets |-> NoSecrets]
  /\ UNCHANGED <<spec, secret, entry, edits>>

\* The next reference to be read.
Due(slot) ==
  /\ worker.pc = "resolve"
  /\ slot \in worker.todo
  /\ \A t \in worker.todo : SlotOrder[slot] <= SlotOrder[t]

\* Mutant of ReadSecret: what was resolved before the error is kept.
ReadSecretKeep(slot) ==
  /\ Due(slot)
  /\ LET v == secret[worker.spec.refs[slot]]
     IN  worker' = IF v = Missing
                     THEN [worker EXCEPT !.todo = {}]
                     ELSE [worker EXCEPT !.todo = @ \ {slot}, !.secrets[slot] = v]
  /\ UNCHANGED <<spec, secret, entry, edits>>

\* Mutant of ReadSecret: a module whose secrets are missing is left out.
ReadSecretOrSkip(slot) ==
  /\ Due(slot)
  /\ LET v == secret[worker.spec.refs[slot]]
     IN  IF v = Missing
           THEN worker' = Idle /\ entry' = Absent
           ELSE /\ worker' = [worker EXCEPT !.todo = @ \ {slot}, !.secrets[slot] = v]
                /\ UNCHANGED entry
  /\ UNCHANGED <<spec, secret, edits>>

\* Mutant of ReadSecret: that a key is not there goes unnoticed.
ReadSecretUnchecked(slot) ==
  /\ Due(slot)
  /\ worker' = [worker EXCEPT !.todo = @ \ {slot},
                              !.secrets[slot] = secret[worker.spec.refs[slot]]]
  /\ UNCHANGED <<spec, secret, entry, edits>>

\* One reference is read.  When that fails the module is converted without
\* any secret.
ReadSecret(slot) ==
  /\ Due(slot)
  /\ LET v == secret[worker.spec.refs[slot]]
     IN  worker' = IF v = Missing
                     THEN [worker EXCEPT !.todo = {}, !.secrets = NoSecrets]
                     ELSE [worker EXCEPT !.todo = @ \ {slot}, !.secrets[slot] = v]
  /\ UNCHANGED <<spec, secret, entry, edits>>

\* The module is converted and written into blackbox.yml, or left out after an
\* error; a panic ends the reconcile before anything is written.
RenderModule ==
  /\ worker.pc = "resolve"
  /\ worker.todo = {}
  /\ worker' = Idle
  /\ entry' = CASE Outcome(worker.spec) = "error"  -> Absent
                [] Outcome(worker.spec) = "panic"  -> entry
                [] Outcome(worker.spec) = "module" ->
                     Written(Converted(worker.spec, worker.secrets))
  /\ UNCHANGED <<spec, secret, edits>>

----------------------------------------------------------------------------
(* The specification *)

Init ==
  /\ spec \in {s \in Specs : Admitted(s)}
  /\ secret \in [Refs -> Values \cup {Empty, Missing}]
  /\ worker = Idle
  /\ entry = Absent
  /\ edits = 0

Next ==
  \/ \E s \in Specs : ApplySpec(s)
  \/ \E r \in Refs, v \in Values \cup {Empty, Missing} : WriteSecret(r, v)
  \/ StartModule
  \/ \E slot \in Slots : ReadSecret(slot)
  \/ RenderModule

Spec == Init /\ [][Next]_vars

----------------------------------------------------------------------------
(* Properties *)

TypeOK ==
  /\ spec \in SpecType
  /\ secret \in [Refs -> Values \cup {Empty, Missing}]
  /\ worker \in {Idle} \cup
       [pc : {"resolve"}, spec : SpecType, todo : SUBSET Slots, secrets : Resolved]
  /\ entry \in Module \cup {Absent}
  /\ edits \in 0 .. MaxEdits

\* What was rendered just now.
Renders == worker.pc = "resolve" /\ worker' = Idle

\* Nothing a user configured in a spec that was admitted is passed over in
\* silence: the section rendered is the only one.
SectionHonoured ==
  [][Renders /\ entry' # entry /\ entry' # Absent
       => worker.spec.sections = {entry'.section}]_vars

\* What admission and conversion demand of a spec agree, but for two things: of
\* the specs admitted only those with an explicitly empty timeout are refused
\* later on, and only those with a bad pattern panic.
AdmittedConverts ==
  /\ Outcome(spec) = "error" => spec.timeout = "empty"
  /\ Outcome(spec) = "panic" => spec.pattern = "bad"

\* The credentials in an entry are all those its spec refers to, or none at
\* all: secrets that appear and disappear between two reads never leave a part
\* of them.  What can leave a part is a key that was there, and empty.
AllOrNothing ==
  [][Renders /\ entry' # entry /\ entry' # Absent =>
       LET asked == {slot \in Slots : worker.spec.refs[slot] # NoRef}
           given == {slot \in Slots : entry'.creds[slot] # Empty}
       IN  \/ given = {}
           \/ \A slot \in asked \ given : worker.secrets[slot] = Empty]_vars

\* An exporter leaves a module out only if the module controller, which
\* converts without secrets, calls it invalid too: no state of the secrets
\* makes a valid module disappear from blackbox.yml.
ValidKept ==
  [][Renders /\ entry' # entry /\ entry' = Absent
       => Outcome(worker.spec) = "error"]_vars

\* The fields of a spec that were set to something, a false behind a pointer
\* included.
Explicit(s) ==
  {k \in Kinds : \/ s.fields[k] = "value"
                 \/ k \in {"pointer", "omitted"} /\ s.fields[k] = "zero"}

\* What a user set is what the exporter loads, but for bodySizeLimit and a false
\* recursionDesired; and it loads no value that was not set.
ExplicitKept ==
  [][Renders /\ entry' # entry /\ entry' # Absent =>
       /\ \A k \in Explicit(worker.spec) :
            \/ entry'.fields[k] = worker.spec.fields[k]
            \/ k = "unread"
            \/ k = "omitted" /\ worker.spec.fields[k] = "zero"
       /\ \A k \in Kinds :
            entry'.fields[k] = "value" => worker.spec.fields[k] = "value"]_vars

----------------------------------------------------------------------------
(* What the documents promise and the code does not keep *)

\* "The ConfigMap contains the resolved value", "bodySizeLimit limits the
\* response body size in bytes": when all its secrets were there, a module that
\* was rendered has them, and what else its spec sets.
SpecRendered ==
  LET asked == {slot \in Slots : spec.refs[slot] # NoRef}
  IN  entry # Absent /\ edits = 0 /\ (\A slot \in asked : secret[spec.refs[slot]] \in Values)
        => /\ \A slot \in asked : entry.creds[slot] = secret[spec.refs[slot]]
           /\ \A k \in Explicit(spec) : entry.fields[k] = spec.fields[k]
=============================================================================
