------------------------- MODULE EscalationContract -------------------------
(***************************************************************************)
(* What the escalation scheduler promises, without workers, leases, tokens *)
(* or retries: each escalation of an incident is tried a bounded number of *)
(* times and gets exactly one outcome.                                     *)
(*                                                                         *)
(*   - It is SENT only if its target got the notification.                 *)
(*   - It is DEAD only after its whole budget of tries.                    *)
(*   - It is CANCELLED only together with every other unsettled escalation *)
(*     of the same incident, and of no other incident.                     *)
(*   - No try begins once it is settled.                                   *)
(***************************************************************************)
EXTENDS Integers

CONSTANTS Incidents, Steps, MaxTries

VARIABLES
    outcome,  \* "unscheduled", "open", or the final "sent", "dead", "cancelled"
    tries,    \* number of tries begun
    reached   \* the escalations whose target got the notification

contractVars == <<outcome, tries, reached>>

Targets == Incidents \X Steps

Init ==
    /\ outcome = [e \in Targets |-> "unscheduled"]
    /\ tries = [e \in Targets |-> 0]
    /\ reached = {}

\* All the steps of an incident are scheduled together.
Schedule(i) ==
    /\ \A s \in Steps : outcome[<<i, s>>] = "unscheduled"
    /\ outcome' = [e \in Targets |-> IF e[1] = i THEN "open" ELSE outcome[e]]
    /\ UNCHANGED <<tries, reached>>

\* One look at the schedule: some escalations are given up, others tried.
Sweep(given, tried) ==
    /\ \A e \in given : outcome[e] = "open" /\ tries[e] = MaxTries[e[2]]
    /\ \A e \in tried : outcome[e] = "open" /\ tries[e] < MaxTries[e[2]]
    /\ outcome' = [e \in Targets |-> IF e \in given THEN "dead" ELSE outcome[e]]
    /\ tries' = [e \in Targets |-> IF e \in tried THEN tries[e] + 1 ELSE tries[e]]
    /\ UNCHANGED reached

\* The target gets the notification, perhaps after the outcome is settled.
Reach(e) ==
    /\ tries[e] > 0
    /\ reached' = reached \cup {e}
    /\ UNCHANGED <<outcome, tries>>

Send(e) ==
    /\ outcome[e] = "open" /\ e \in reached
    /\ outcome' = [outcome EXCEPT ![e] = "sent"]
    /\ UNCHANGED <<tries, reached>>

Cancel(i) ==
    /\ outcome' = [e \in Targets |->
                     IF e[1] = i /\ outcome[e] = "open" THEN "cancelled" ELSE outcome[e]]
    /\ UNCHANGED <<tries, reached>>

Next ==
    \/ \E i \in Incidents : Schedule(i) \/ Cancel(i)
    \/ \E given, tried \in SUBSET Targets : Sweep(given, tried)
    \/ \E e \in Targets : Reach(e) \/ Send(e)

Spec == Init /\ [][Next]_contractVars
=============================================================================
