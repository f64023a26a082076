----------------------- MODULE ModuleRendering_proofs -----------------------
(***************************************************************************)
(* Theorems about ModuleRendering, for all specs, secrets and bounds.      *)
(***************************************************************************)
EXTENDS ModuleRendering, FiniteSetTheorems, TLAPS

-----------------------------------------------------------------------------
(* Lemmas about admission, conversion and rendering *)

LEMMA SectionsFinite == IsFiniteSet(Sections)
<1>1. /\ IsFiniteSet({"http"} \cup {"tcp"})
      /\ IsFiniteSet({"dns"} \cup {"icmp"})
      /\ IsFiniteSet({"grpc"} \cup {"unix"})
      /\ IsFiniteSet({"websocket"})
  BY FS_Singleton, FS_Union
<1>2. /\ IsFiniteSet(({"http"} \cup {"tcp"}) \cup ({"dns"} \cup {"icmp"}))
      /\ IsFiniteSet(({"grpc"} \cup {"unix"}) \cup {"websocket"})
  BY <1>1, FS_Union
<1>3. IsFiniteSet((({"http"} \cup {"tcp"}) \cup ({"dns"} \cup {"icmp"}))
                  \cup (({"grpc"} \cup {"unix"}) \cup {"websocket"}))
  BY <1>2, FS_Union
<1>4. Sections = (({"http"} \cup {"tcp"}) \cup ({"dns"} \cup {"icmp"}))
                 \cup (({"grpc"} \cup {"unix"}) \cup {"websocket"})
  BY DEF Sections, SectionOrder
<1> QED BY <1>3, <1>4

\* A spec that was admitted has one section, and ConvertModule takes it.
LEMMA OneSection ==
  ASSUME NEW s \in SpecType, Admitted(s)
  PROVE  /\ s.sections = {Chosen(s)}
         /\ Chosen(s) \in Sections
<1>1. s.sections \subseteq Sections
  BY DEF SpecType
<1>2. PICK x : s.sections = {x}
  BY <1>1, SectionsFinite, FS_Subset, FS_Singleton DEF Admitted
<1>3. x \in Sections
  BY <1>1, <1>2
<1>4. SectionOrder[x] <= SectionOrder[x]
  BY <1>3 DEF Sections, SectionOrder
<1>5. Chosen(s) = x
  BY <1>2, <1>4 DEF Chosen
<1> QED BY <1>2, <1>3, <1>5

\* The upstream default is the only value a field gets that it was not given;
\* and on the way into blackbox.yml only a false recursionDesired and the
\* bodySizeLimit are lost.
LEMMA FieldRendered ==
  ASSUME NEW k \in Kinds, NEW v \in FieldValues
  PROVE  LET w == WrittenField(k, ConvertField(k, v)) IN
         /\ w \in FieldValues \cup {"default"}
         /\ w = "value" => v = "value"
         /\ v = "value" => w = v \/ k = "unread"
         /\ k = "pointer" /\ v = "zero" => w = v
BY DEF Kinds, FieldValues, ConvertField, WrittenField

\* What the entry made of a spec has.
Entry(s, c) == Written(Converted(s, c))

LEMMA EntryParts ==
  ASSUME NEW s, NEW c
  PROVE  /\ Entry(s, c).section = Chosen(s)
         /\ \A k \in Kinds :
              Entry(s, c).fields[k] = WrittenField(k, ConvertField(k, s.fields[k]))
         /\ \A slot \in Slots :
              Entry(s, c).creds[slot] = WrittenCred(slot, Injected(s, c, slot))
<1> DEFINE m == Converted(s, c)
<1>1. /\ m.section = Chosen(s)
      /\ \A k \in Kinds : m.fields[k] = ConvertField(k, s.fields[k])
      /\ \A slot \in Slots : m.creds[slot] = Injected(s, c, slot)
      /\ DOMAIN m = {"section", "prober", "fields", "creds"}
  BY DEF Converted
<1> HIDE DEF m
<1>2. /\ Written(m).section = m.section
      /\ Written(m).fields = [k \in Kinds |-> WrittenField(k, m.fields[k])]
      /\ Written(m).creds = [slot \in Slots |-> WrittenCred(slot, m.creds[slot])]
  BY <1>1 DEF Written
<1>3. Entry(s, c) = Written(m)
  BY DEF Entry, m
<1> QED BY <1>1, <1>2, <1>3

\* A credential is missing from an entry only if it was not given as a value.
LEMMA CredentialWritten ==
  ASSUME NEW s, NEW c \in Resolved, NEW slot \in Slots
  PROVE  /\ WrittenCred(slot, Injected(s, c, slot)) \in Values \cup {Empty, Redacted}
         /\ WrittenCred(slot, Injected(s, c, slot)) = Empty <=>
              ~ (slot \in UsedSlots(Chosen(s)) /\ s.refs[slot] # NoRef /\ c[slot] \in Values)
BY ValueAssumption DEF ValueAssumption, WrittenCred, Injected

\* Rendering of an admitted spec yields a module.
LEMMA EntryType ==
  ASSUME NEW s \in SpecType, Admitted(s), NEW c \in Resolved
  PROVE  Entry(s, c) \in Module
<1>1. Chosen(s) \in Sections
  BY OneSection
<1>2. (IF Chosen(s) = "unix" THEN "tcp" ELSE Chosen(s)) \in Sections
  BY <1>1 DEF Sections, SectionOrder
<1>3. [k \in Kinds |-> WrittenField(k, ConvertField(k, s.fields[k]))]
        \in [Kinds -> FieldValues \cup {"default"}]
  BY FieldRendered DEF SpecType
<1>4. [slot \in Slots |-> WrittenCred(slot, Injected(s, c, slot))]
        \in [Slots -> Values \cup {Empty, Redacted}]
  BY CredentialWritten
<1> QED BY <1>1, <1>2, <1>3, <1>4 DEF Entry, Written, Converted, Module

-----------------------------------------------------------------------------
(* The inductive invariant *)

\* The controller works on a spec that was admitted; and has read exactly the
\* references that are not left, unless one was missing and it gave up all.
WorkerInv ==
  worker.pc = "resolve" =>
    /\ Admitted(worker.spec)
    /\ worker.todo \subseteq Followed(worker.spec)
    /\ \/ worker.todo = {} /\ worker.secrets = NoSecrets
       \/ \A slot \in Slots :
            worker.secrets[slot] # NotRead <=> slot \in Followed(worker.spec) \ worker.todo

RenderingInv == TypeOK /\ Admitted(spec) /\ WorkerInv

LEMMA InitRenderingInv == Init => RenderingInv
<1> SUFFICES ASSUME Init PROVE RenderingInv
  OBVIOUS
<1>1. spec \in SpecType /\ Admitted(spec)
  BY SpecAssumption DEF SpecAssumption, Init
<1>2. worker.pc # "resolve" /\ worker = Idle
  BY DEF Init, Idle
<1>3. edits \in 0 .. MaxEdits
  BY BoundAssumption DEF BoundAssumption, Init
<1> QED BY <1>1, <1>2, <1>3 DEF RenderingInv, TypeOK, WorkerInv, Init

LEMMA EditCounted ==
  ASSUME edits \in 0 .. MaxEdits, Edit
  PROVE  edits' \in 0 .. MaxEdits
BY BoundAssumption DEF BoundAssumption, Edit

Resolving == [pc : {"resolve"}, spec : SpecType, todo : SUBSET Slots, secrets : Resolved]

LEMMA ResolvingType ==
  ASSUME TypeOK, worker.pc = "resolve"
  PROVE  worker \in Resolving
BY DEF TypeOK, Idle, Resolving

LEMMA StartInv ==
  ASSUME RenderingInv, StartModule
  PROVE  RenderingInv'
<1> DEFINE W == [pc |-> "resolve", spec |-> spec, todo |-> Followed(spec),
                 secrets |-> NoSecrets]
<1>1. worker' = W
  BY DEF StartModule
<1>2. NoSecrets \in Resolved /\ Followed(spec) \subseteq Slots
  BY DEF NoSecrets, Resolved, Followed
<1>3. W \in Resolving
  BY <1>2 DEF RenderingInv, TypeOK, Resolving
<1>4. TypeOK'
  BY <1>1, <1>3 DEF RenderingInv, TypeOK, StartModule, Resolving
<1>5. \A slot \in Slots : ~ (worker'.secrets[slot] # NotRead)
  BY <1>1 DEF NoSecrets
<1>6. WorkerInv'
  BY <1>1, <1>5 DEF WorkerInv, RenderingInv
<1> QED BY <1>4, <1>6 DEF RenderingInv, StartModule

LEMMA ReadInv ==
  ASSUME RenderingInv, NEW slot \in Slots, ReadSecret(slot)
  PROVE  RenderingInv'
<1> DEFINE v == secret[worker.spec.refs[slot]]
<1>1. worker \in Resolving /\ worker.pc = "resolve" /\ slot \in worker.todo
  BY ResolvingType DEF RenderingInv, ReadSecret, Due
<1>2. worker.spec.refs[slot] \in Refs /\ slot \in Followed(worker.spec)
  BY <1>1 DEF RenderingInv, WorkerInv, Followed, Resolving, SpecType
<1>3. v \in Values \cup {Empty, Missing}
  BY <1>2 DEF RenderingInv, TypeOK
<1>4. UNCHANGED <<spec, secret, entry, edits>>
  BY DEF ReadSecret
<1>5. CASE v = Missing
  <2>1. worker' = [worker EXCEPT !.todo = {}, !.secrets = NoSecrets]
    BY <1>5 DEF ReadSecret
  <2>2. worker' \in Resolving /\ worker'.todo = {} /\ worker'.secrets = NoSecrets
        /\ worker'.spec = worker.spec
    BY <2>1, <1>1 DEF Resolving, NoSecrets, Resolved
  <2>3. TypeOK'
    BY <2>2, <1>4 DEF RenderingInv, TypeOK, Resolving
  <2>4. WorkerInv'
    BY <2>2, <1>1 DEF RenderingInv, WorkerInv
  <2> QED BY <2>3, <2>4, <1>4 DEF RenderingInv
<1>6. CASE v # Missing
  <2>1. worker' = [worker EXCEPT !.todo = @ \ {slot}, !.secrets[slot] = v]
    BY <1>6 DEF ReadSecret
  <2>2. v \in Values \cup {Empty} /\ v # NotRead
    BY <1>3, <1>6, ValueAssumption DEF ValueAssumption
  <2>3. /\ worker' \in Resolving
        /\ worker'.todo = worker.todo \ {slot}
        /\ worker'.spec = worker.spec
        /\ worker'.secrets = [worker.secrets EXCEPT ![slot] = v]
    BY <2>1, <2>2, <1>1 DEF Resolving, Resolved
  <2>4. TypeOK'
    BY <2>3, <1>4 DEF RenderingInv, TypeOK, Resolving
  <2>5. \A t \in Slots : worker.secrets[t] # NotRead <=> t \in Followed(worker.spec) \ worker.todo
    BY <1>1 DEF RenderingInv, WorkerInv
  <2>6. \A t \in Slots : worker'.secrets[t] = IF t = slot THEN v ELSE worker.secrets[t]
    BY <2>3, <1>1 DEF Resolving, Resolved
  <2>7. \A t \in Slots :
          worker'.secrets[t] # NotRead <=> t \in Followed(worker'.spec) \ worker'.todo
    BY <2>2, <2>3, <2>5, <2>6, <1>2
  <2>8. WorkerInv'
    BY <2>3, <2>7, <1>1 DEF RenderingInv, WorkerInv
  <2> QED BY <2>4, <2>8, <1>4 DEF RenderingInv
<1> QED BY <1>5, <1>6

LEMMA RenderInv ==
  ASSUME RenderingInv, RenderModule
  PROVE  RenderingInv'
<1>1. worker \in Resolving /\ worker.pc = "resolve"
  BY ResolvingType DEF RenderingInv, RenderModule
<1>2. Entry(worker.spec, worker.secrets) \in Module
  BY <1>1, EntryType DEF RenderingInv, WorkerInv, Resolving
<1>3. entry' \in Module \cup {Absent}
  BY <1>2 DEF RenderModule, Outcome, RenderingInv, TypeOK, Entry
<1>4. TypeOK'
  BY <1>3 DEF RenderModule, RenderingInv, TypeOK
<1>5. WorkerInv'
  BY DEF RenderModule, WorkerInv, Idle
<1> QED BY <1>4, <1>5 DEF RenderModule, RenderingInv

LEMMA NextRenderingInv == RenderingInv /\ [Next]_vars => RenderingInv'
<1> SUFFICES ASSUME RenderingInv, [Next]_vars PROVE RenderingInv'
  OBVIOUS
<1>1. ASSUME NEW s \in Specs, ApplySpec(s) PROVE RenderingInv'
  <2>1. s \in SpecType /\ Admitted(s)
    BY <1>1, SpecAssumption DEF SpecAssumption, ApplySpec
  <2>2. edits' \in 0 .. MaxEdits
    BY <1>1, EditCounted DEF ApplySpec, RenderingInv, TypeOK
  <2> QED BY <1>1, <2>1, <2>2 DEF ApplySpec, RenderingInv, TypeOK, WorkerInv
<1>2. ASSUME NEW r \in Refs, NEW v \in Values \cup {Empty, Missing}, WriteSecret(r, v)
      PROVE RenderingInv'
  <2>1. edits' \in 0 .. MaxEdits
    BY <1>2, EditCounted DEF WriteSecret, RenderingInv, TypeOK
  <2>2. secret' \in [Refs -> Values \cup {Empty, Missing}]
    BY <1>2 DEF WriteSecret, RenderingInv, TypeOK
  <2> QED BY <1>2, <2>1, <2>2 DEF WriteSecret, RenderingInv, TypeOK, WorkerInv
<1>3. CASE StartModule
  BY <1>3, StartInv
<1>4. ASSUME NEW slot \in Slots, ReadSecret(slot) PROVE RenderingInv'
  BY <1>4, ReadInv
<1>5. CASE RenderModule
  BY <1>5, RenderInv
<1>6. CASE UNCHANGED vars
  BY <1>6 DEF vars, RenderingInv, TypeOK, WorkerInv
<1> QED BY <1>1, <1>2, <1>3, <1>4, <1>5, <1>6 DEF Next

\* Whatever users apply, and whatever secrets do meanwhile, the invariant holds.
THEOREM RenderingInvariant == Spec => []RenderingInv
BY InitRenderingInv, NextRenderingInv, PTL DEF Spec

\* The type invariant: no step of user, secret or controller leaves the types.
THEOREM TypeCorrect == Spec => []TypeOK
<1>1. RenderingInv => TypeOK
  BY DEF RenderingInv
<1> QED BY <1>1, RenderingInvariant, PTL

-----------------------------------------------------------------------------
(* What a step that renders does *)

LEMMA Rendering ==
  ASSUME RenderingInv, [Next]_vars, Renders, entry' # entry
  PROVE  /\ worker \in Resolving
         /\ Admitted(worker.spec)
         /\ worker.todo = {}
         /\ entry' # Absent => entry' = Entry(worker.spec, worker.secrets)
         /\ entry' = Absent => Outcome(worker.spec) = "error"
<1>1. worker \in Resolving /\ worker.pc = "resolve"
  BY ResolvingType DEF RenderingInv, Renders
<1>2. RenderModule
  BY DEF Next, vars, ApplySpec, WriteSecret, StartModule, ReadSecret
<1>3. Entry(worker.spec, worker.secrets) # Absent
  BY <1>1, EntryType, ValueAssumption
     DEF ValueAssumption, RenderingInv, WorkerInv, Resolving
<1>4. Outcome(worker.spec) \in {"error", "panic", "module"}
  BY DEF Outcome
<1> QED BY <1>1, <1>2, <1>3, <1>4 DEF RenderModule, RenderingInv, WorkerInv, Entry

-----------------------------------------------------------------------------
(* Theorems *)

\* Nothing a user configured is passed over: an admitted spec has one section,
\* and that one is rendered.
THEOREM SectionRendered == Spec => SectionHonoured
<1>1. ASSUME RenderingInv, [Next]_vars
      PROVE  Renders /\ entry' # entry /\ entry' # Absent
               => worker.spec.sections = {entry'.section}
  <2> SUFFICES ASSUME Renders, entry' # entry, entry' # Absent
               PROVE  worker.spec.sections = {entry'.section}
    OBVIOUS
  <2>1. entry'.section = Chosen(worker.spec)
    BY <1>1, Rendering, EntryParts
  <2> QED BY <2>1, <1>1, Rendering, OneSection DEF Resolving
<1> QED BY <1>1, RenderingInvariant, PTL DEF Spec, SectionHonoured

\* An entry lacks a credential of its spec and has another only if the key of
\* the one it lacks was there, and empty: whatever happens to the secrets between
\* two reads.
THEOREM CredentialsWhole == Spec => AllOrNothing
<1> DEFINE Asked(s) == {slot \in Slots : s.refs[slot] # NoRef}
           Given(m) == {slot \in Slots : m.creds[slot] # Empty}
<1>1. ASSUME RenderingInv, [Next]_vars, Renders, entry' # entry, entry' # Absent
      PROVE  \/ Given(entry') = {}
             \/ \A slot \in Asked(worker.spec) \ Given(entry') : worker.secrets[slot] = Empty
  <2> DEFINE s == worker.spec
             c == worker.secrets
  <2>1. /\ worker \in Resolving /\ Admitted(s) /\ worker.todo = {}
        /\ entry' = Entry(s, c)
    BY <1>1, Rendering
  <2>2. c \in Resolved /\ s \in SpecType
    BY <2>1 DEF Resolving
  <2>3. \A slot \in Slots : slot \in Given(entry') <=>
          slot \in UsedSlots(Chosen(s)) /\ s.refs[slot] # NoRef /\ c[slot] \in Values
    BY <2>1, <2>2, EntryParts, CredentialWritten
  <2>4. NotRead \notin Values
    BY ValueAssumption DEF ValueAssumption
  <2>5. CASE c = NoSecrets
    BY <2>3, <2>4, <2>5 DEF NoSecrets
  <2>6. CASE \A slot \in Slots : c[slot] # NotRead <=> slot \in Followed(s)
    <3>1. CASE Chosen(s) = "http"
      <4>1. "http" \in s.sections /\ UsedSlots(Chosen(s)) = Slots
        BY <3>1, <2>1, <2>2, OneSection DEF UsedSlots
      <4>2. \A slot \in Asked(s) : c[slot] \in Values \cup {Empty}
        BY <4>1, <2>2, <2>6 DEF Followed, Resolved
      <4> QED BY <4>1, <4>2, <2>3
    <3>2. CASE Chosen(s) # "http"
      <4>1. Followed(s) = {}
        BY <3>2, <2>1, <2>2, OneSection DEF Followed
      <4> QED BY <4>1, <2>3, <2>4, <2>6
    <3> QED BY <3>1, <3>2
  <2> QED BY <2>1, <2>5, <2>6, <1>1 DEF RenderingInv, WorkerInv, Resolving
<1>2. ASSUME RenderingInv, [Next]_vars
      PROVE  Renders /\ entry' # entry /\ entry' # Absent =>
               LET asked == {slot \in Slots : worker.spec.refs[slot] # NoRef}
                   given == {slot \in Slots : entry'.creds[slot] # Empty}
               IN  \/ given = {}
                   \/ \A slot \in asked \ given : worker.secrets[slot] = Empty
  BY <1>1, <1>2
<1> QED BY <1>2, RenderingInvariant, PTL DEF Spec, AllOrNothing

\* No state of the secrets makes a valid module disappear from blackbox.yml.
THEOREM ValidModulesKept == Spec => ValidKept
<1>1. ASSUME RenderingInv, [Next]_vars
      PROVE  Renders /\ entry' # entry /\ entry' = Absent => Outcome(worker.spec) = "error"
  BY <1>1, Rendering
<1> QED BY <1>1, RenderingInvariant, PTL DEF Spec, ValidKept

\* What a user set is what the exporter loads, but for bodySizeLimit and a false
\* recursionDesired, and it loads no value that was not set.
THEOREM ExplicitRendered == Spec => ExplicitKept
<1>1. ASSUME RenderingInv, [Next]_vars, Renders, entry' # entry, entry' # Absent,
             NEW k \in Kinds
      PROVE  /\ k \in Explicit(worker.spec) =>
                  \/ entry'.fields[k] = worker.spec.fields[k]
                  \/ k = "unread"
                  \/ k = "omitted" /\ worker.spec.fields[k] = "zero"
             /\ entry'.fields[k] = "value" => worker.spec.fields[k] = "value"
  <2>1. worker.spec.fields[k] \in FieldValues
    BY <1>1, Rendering DEF Resolving, SpecType
  <2>2. entry'.fields[k] = WrittenField(k, ConvertField(k, worker.spec.fields[k]))
    BY <1>1, Rendering, EntryParts
  <2> QED BY <2>1, <2>2, FieldRendered DEF Explicit
<1>2. ASSUME RenderingInv, [Next]_vars
      PROVE  Renders /\ entry' # entry /\ entry' # Absent =>
               /\ \A k \in Explicit(worker.spec) :
                    \/ entry'.fields[k] = worker.spec.fields[k]
                    \/ k = "unread"
                    \/ k = "omitted" /\ worker.spec.fields[k] = "zero"
               /\ \A k \in Kinds :
                    entry'.fields[k] = "value" => worker.spec.fields[k] = "value"
  BY <1>1, <1>2 DEF Explicit
<1> QED BY <1>2, RenderingInvariant, PTL DEF Spec, ExplicitKept

\* Admission refuses what conversion could not use, but for an explicitly empty
\* timeout and a bad pattern.
THEOREM AdmittedUsable == Spec => []AdmittedConverts
<1>1. RenderingInv => AdmittedConverts
  <2> SUFFICES ASSUME RenderingInv PROVE AdmittedConverts
    OBVIOUS
  <2>1. spec \in SpecType /\ spec.timeout \in {"duration", "empty", "garbled"}
        /\ spec.pattern \in {"none", "good", "bad"}
    BY DEF RenderingInv, TypeOK, SpecType
  <2>2. spec.sections # {} /\ spec.timeout # "garbled"
    BY <2>1, OneSection DEF RenderingInv, Admitted
  <2> QED BY <2>1, <2>2 DEF AdmittedConverts, Outcome
<1> QED BY <1>1, RenderingInvariant, PTL
=============================================================================
