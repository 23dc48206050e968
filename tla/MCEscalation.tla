---- MODULE MCEscalation ----
(***************************************************************************)
(* An instance of Escalation for TLC.                                      *)
(***************************************************************************)
EXTENDS Escalation

\* Two attempts for step 0, a first and a last one; one attempt for step 1.
MCMaxAttempts == [s \in Steps |-> IF s = 0 THEN 2 ELSE 1]
====
