-------------------------- MODULE PaidSubscription --------------------------
(***************************************************************************)
(* What checkout promises: a charge the provider reports as paid activates *)
(* one subscription at most, and nothing else activates one.               *)
(***************************************************************************)
EXTENDS Integers

CONSTANT Charge     \* the charges customers may make

VARIABLES
    paid,           \* the charges that were paid
    subscriptions   \* how many subscriptions each charge has activated

Init == /\ paid = {}
        /\ subscriptions = [c \in Charge |-> 0]

Pay(c) == /\ c \notin paid
          /\ paid' = paid \cup {c}
          /\ UNCHANGED subscriptions

Activate(c) == /\ c \in paid
               /\ subscriptions[c] = 0
               /\ subscriptions' = [subscriptions EXCEPT ![c] = 1]
               /\ UNCHANGED paid

Next == \E c \in Charge : Pay(c) \/ Activate(c)

Spec == Init /\ [][Next]_<<paid, subscriptions>>
=============================================================================
