------------------------------- MODULE Labels -------------------------------
(***************************************************************************)
(* Label maps: functions on the keys that are set.                         *)
(***************************************************************************)

\* Mutant of Over: the labels that are copied last do not win.
OverUnder(base, top) ==
  [k \in DOMAIN base \cup DOMAIN top |-> IF k \in DOMAIN base THEN base[k] ELSE top[k]]

\* maps.Copy of top onto base, or the loop that does the same.
Over(base, top) ==
  [k \in DOMAIN base \cup DOMAIN top |-> IF k \in DOMAIN top THEN top[k] ELSE base[k]]
=============================================================================
