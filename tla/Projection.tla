----------------------------- MODULE Projection -----------------------------
(***************************************************************************)
(* What a controller promises that derives objects from another one.       *)
(*                                                                         *)
(* A source is revised by users.  Parts are derived from it, each from one *)
(* version of the source, never from an older one than before.  A report   *)
(* says that the source has been dealt with: it is only made of the        *)
(* version the source has at that moment, when every part has been derived *)
(* from that version.  How the controller reads, caches, retries, crashes  *)
(* and is told of changes does not appear here, nor what others do to the  *)
(* parts.                                                                  *)
(*                                                                         *)
(* ProbeSync, ExporterResources and ConfigSync implement this.              *)
(***************************************************************************)
EXTENDS Integers

CONSTANTS
  Sources,    \* the keys of the sources
  Parts       \* what is derived from each

VARIABLES
  source,     \* the version of each source
  derived,    \* the version each part was last derived from, 0 at first
  reported    \* the version last reported, 0 if there is none

vars == <<source, derived, reported>>

TypeOK ==
  /\ source \in [Sources -> Nat]
  /\ derived \in [Sources -> [Parts -> Nat]]
  /\ reported \in [Sources -> Nat]

Init ==
  /\ source \in [Sources -> Nat]
  /\ derived = [s \in Sources |-> [p \in Parts |-> 0]]
  /\ reported = [s \in Sources |-> 0]

\* A user changes the source, or makes it anew, without a report.
Revise(s) ==
  /\ source'[s] \in Nat /\ source[s] < source'[s]
  /\ source' = [source EXCEPT ![s] = source'[s]]
  /\ reported' = reported \/ reported' = [reported EXCEPT ![s] = 0]
  /\ UNCHANGED derived

\* A part is derived from the source as it is, or as it was since the part was
\* derived last.
Derive(s, p) ==
  /\ derived'[s][p] \in derived[s][p] + 1 .. source[s]
  /\ derived' = [derived EXCEPT ![s][p] = derived'[s][p]]
  /\ UNCHANGED <<source, reported>>

\* All that was derived is from the source as it is, and that is said.
Report(s) ==
  /\ \A p \in Parts : derived[s][p] = source[s]
  /\ reported' = [reported EXCEPT ![s] = source[s]]
  /\ UNCHANGED <<source, derived>>

\* The report is taken back.
Retract(s) ==
  /\ reported' = [reported EXCEPT ![s] = 0]
  /\ UNCHANGED <<source, derived>>

Next == \E s \in Sources :
  Revise(s) \/ Report(s) \/ Retract(s) \/ \E p \in Parts : Derive(s, p)

Spec == Init /\ [][Next]_vars

----------------------------------------------------------------------------
\* Nothing is reported that was not derived, nothing derived that was not
\* asked for.
Ordered ==
  \A s \in Sources, p \in Parts :
    reported[s] <= derived[s][p] /\ derived[s][p] <= source[s]
=============================================================================
