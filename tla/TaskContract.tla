---------------------------- MODULE TaskContract ----------------------------
(* What the gateway promises about the cost of an asynchronous task: it is *)
(* charged on submission and closed once, at no cost if it failed and at   *)
(* the submitted or the actual quota if it succeeded.                      *)
EXTENDS Integers

CONSTANTS
    Tasks,
    Quota,      \* charged on submission
    Actuals     \* what the provider's usage may amount to, 0: unknown

VARIABLES
    state,      \* "none", "held", "FAILURE" or "SUCCESS"
    cost

Init ==
    /\ state = [t \in Tasks |-> "none"]
    /\ cost = [t \in Tasks |-> 0]

Close(t, from, to, n) ==
    /\ state[t] = from
    /\ state' = [state EXCEPT ![t] = to]
    /\ cost' = [cost EXCEPT ![t] = n]

Submit(t) == Close(t, "none", "held", Quota)

Fail(t) == Close(t, "held", "FAILURE", 0)

Succeed(t) ==
    \E n \in {Quota} \cup (Actuals \ {0}) : Close(t, "held", "SUCCESS", n)

Next == \E t \in Tasks : Submit(t) \/ Fail(t) \/ Succeed(t)

Spec == Init /\ [][Next]_<<state, cost>>
=============================================================================
