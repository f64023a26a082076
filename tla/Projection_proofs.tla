-------------------------- MODULE Projection_proofs --------------------------
(***************************************************************************)
(* What the promise of Projection amounts to, for every set of sources and *)
(* of parts.                                                               *)
(***************************************************************************)
EXTENDS Projection, TLAPS

LEMMA TypeInductive ==
  /\ Init => TypeOK
  /\ TypeOK /\ [Next]_vars => TypeOK'
<1>1. Init => TypeOK
  BY DEF Init, TypeOK
<1>2. ASSUME TypeOK, [Next]_vars PROVE TypeOK'
  <2>1. CASE UNCHANGED vars
    BY <1>2, <2>1 DEF TypeOK, vars
  <2>2. ASSUME NEW s \in Sources, Revise(s) PROVE TypeOK'
    <3>1. \E v \in Nat : source' = [source EXCEPT ![s] = v]
      BY <2>2 DEF Revise
    <3>2. source' \in [Sources -> Nat]
      BY <1>2, <3>1 DEF TypeOK
    <3>3. reported' \in [Sources -> Nat] /\ UNCHANGED derived
      BY <1>2, <2>2 DEF TypeOK, Revise
    <3> QED BY <1>2, <3>2, <3>3 DEF TypeOK
  <2>3. ASSUME NEW s \in Sources, Report(s) \/ Retract(s) PROVE TypeOK'
    BY <1>2, <2>3 DEF TypeOK, Report, Retract
  <2>4. ASSUME NEW s \in Sources, NEW p \in Parts, Derive(s, p) PROVE TypeOK'
    <3> DEFINE v == derived'[s][p]
    <3>1. v \in derived[s][p] + 1 .. source[s] /\ derived[s] \in [Parts -> Nat]
          /\ source[s] \in Nat /\ derived[s][p] \in Nat
      BY <1>2, <2>4 DEF TypeOK, Derive
    <3>2. v \in Nat
      BY <3>1
    <3> HIDE DEF v
    <3>3. [derived[s] EXCEPT ![p] = v] \in [Parts -> Nat]
      BY <3>1, <3>2
    <3>4. derived' = [derived EXCEPT ![s] = [derived[s] EXCEPT ![p] = v]]
      BY <2>4 DEF Derive, v
    <3>5. derived' \in [Sources -> [Parts -> Nat]]
      BY <1>2, <3>3, <3>4 DEF TypeOK
    <3> QED BY <1>2, <2>4, <3>5 DEF TypeOK, Derive
  <2> QED BY <1>2, <2>1, <2>2, <2>3, <2>4 DEF Next
<1> QED BY <1>1, <1>2

\* A report is of a version every part was derived from, and no part is ahead
\* of its source: what an implementation may conclude from a report.
THEOREM AlwaysOrdered == Spec => [](TypeOK /\ Ordered)
<1>1. Init => Ordered
  BY DEF Init, Ordered
<1>2. ASSUME TypeOK, Ordered, [Next]_vars PROVE Ordered'
  <2> SUFFICES ASSUME NEW s \in Sources, NEW p \in Parts
               PROVE  reported'[s] <= derived'[s][p] /\ derived'[s][p] <= source'[s]
    BY DEF Ordered
  <2>0. /\ reported[s] <= derived[s][p] /\ derived[s][p] <= source[s]
        /\ reported[s] \in Nat /\ derived[s][p] \in Nat /\ source[s] \in Nat
    BY <1>2 DEF Ordered, TypeOK
  <2>1. CASE UNCHANGED vars
    BY <2>0, <2>1 DEF vars
  <2>2. ASSUME NEW t \in Sources, Revise(t)
        PROVE  reported'[s] <= derived'[s][p] /\ derived'[s][p] <= source'[s]
    <3>1. source'[s] = source[s] \/ (source'[s] \in Nat /\ source[s] < source'[s])
      BY <1>2, <2>2 DEF TypeOK, Revise
    <3>2. (reported'[s] = reported[s] \/ reported'[s] = 0) /\ derived'[s][p] = derived[s][p]
      BY <1>2, <2>2 DEF TypeOK, Revise
    <3> QED BY <2>0, <3>1, <3>2
  <2>3. ASSUME NEW t \in Sources, Report(t) \/ Retract(t)
        PROVE  reported'[s] <= derived'[s][p] /\ derived'[s][p] <= source'[s]
    BY <1>2, <2>0, <2>3 DEF TypeOK, Report, Retract
  <2>4. ASSUME NEW t \in Sources, NEW q \in Parts, Derive(t, q)
        PROVE  reported'[s] <= derived'[s][p] /\ derived'[s][p] <= source'[s]
    <3>1. derived' = [derived EXCEPT ![t] = [derived[t] EXCEPT ![q] = derived'[t][q]]]
      BY <2>4 DEF Derive
    <3>2. derived'[s][p] = derived[s][p] \/ (s = t /\ p = q)
      BY <1>2, <3>1 DEF TypeOK
    <3>3. UNCHANGED <<source, reported>> /\ derived'[t][q] \in derived[t][q] + 1 .. source[t]
      BY <2>4 DEF Derive
    <3>4. CASE s = t /\ p = q
      BY <2>0, <3>3, <3>4
    <3>5. CASE derived'[s][p] = derived[s][p]
      BY <2>0, <3>3, <3>5
    <3> QED BY <3>2, <3>4, <3>5
  <2> QED BY <1>2, <2>1, <2>2, <2>3, <2>4 DEF Next
<1>3. TypeOK /\ Ordered /\ [Next]_vars => Ordered'
  BY <1>2
<1> QED BY <1>1, <1>3, TypeInductive, PTL DEF Spec
=============================================================================
