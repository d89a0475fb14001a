------------------------------ MODULE Checkout ------------------------------
(***************************************************************************)
(* CheckoutService: card charges, and the subscriptions the provider's     *)
(* webhooks activate.                                                      *)
(*                                                                         *)
(* A checkout request and a webhook delivery are each one database         *)
(* transaction that becomes visible when the request ends; a request that  *)
(* raises leaves nothing.  The provider redelivers an event until one      *)
(* delivery is answered, in any order and possibly to several handlers at  *)
(* once.                                                                   *)
(***************************************************************************)
EXTENDS Integers

CONSTANTS
    Charge,       \* the checkouts, each with one provider charge
    Handler,      \* webhook deliveries that may be handled at the same time
    NoEvent,      \* stands for "no event"
    MaxCrashes    \* bound on the deliveries that fail half-way

ASSUME EventAssumption == NoEvent \notin Charge \X {"succeeded", "failed"}
ASSUME CrashAssumption == MaxCrashes \in Nat

VARIABLES
    charge,         \* the provider's record of each charge
    sent,           \* the events the provider delivers
    request,        \* what the checkout request of each charge is doing
    checkout,       \* the committed PendingCheckout rows
    processed,      \* the committed ledger of processed events
    subscriptions,  \* subscriptions activated for each charge
    handler,        \* the webhook deliveries in progress
    crashes         \* deliveries that failed so far

vars == <<charge, sent, request, checkout, processed, subscriptions, handler, crashes>>

-----------------------------------------------------------------------------

Outcome == {"succeeded", "failed"}

(* The idempotency key: charge.completed events by charge id and status.   *)
Event == Charge \X Outcome
ChargeOf(e) == e[1]
StatusOf(e) == e[2]

(* What a delivery holds: its event, and the row it will write.            *)
Delivery == [pc : {"idle", "mark", "lookup", "commit"},
             event : Event \cup {NoEvent},
             writes : Outcome \cup {"nothing"}]

Idle == [pc |-> "idle", event |-> NoEvent, writes |-> "nothing"]

(* A delivery whose ledger entry is inserted but not committed.            *)
Holds(h, e) == handler[h].event = e /\ handler[h].pc \in {"lookup", "commit"}

Init == /\ charge = [c \in Charge |-> "none"]
        /\ sent = {}
        /\ request = [c \in Charge |-> "none"]
        /\ checkout = [c \in Charge |-> "none"]
        /\ processed = {}
        /\ subscriptions = [c \in Charge |-> 0]
        /\ handler = [h \in Handler |-> Idle]
        /\ crashes = 0

(***************************** initiate_checkout ****************************)

(* The row is inserted, uncommitted, and the provider is called.           *)
StartCheckout(c) ==
    /\ request[c] = "none"
    /\ request' = [request EXCEPT ![c] = "charging"]
    /\ UNCHANGED <<charge, sent, checkout, processed, subscriptions, handler, crashes>>

(* The provider takes the charge, and may settle it at once.               *)
TakeCharge(c) ==
    /\ request[c] = "charging"
    /\ charge[c] = "none"
    /\ \E status \in Outcome \cup {"pending"} :
         /\ charge' = [charge EXCEPT ![c] = status]
         /\ sent' = IF status \in Outcome THEN sent \cup {<<c, status>>} ELSE sent
         /\ request' = [request EXCEPT ![c] = status]
    /\ UNCHANGED <<checkout, processed, subscriptions, handler, crashes>>

(* Mutant: the synchronous answer resolves the row.                        *)
FinishCheckoutTrusting(c) ==
    /\ request[c] \in Outcome \cup {"pending"}
    /\ request' = [request EXCEPT ![c] = "done"]
    /\ checkout' = [checkout EXCEPT ![c] = request[c]]
    /\ UNCHANGED <<charge, sent, processed, subscriptions, handler, crashes>>

(* The answer arrives and the row is committed; only a synchronous failure *)
(* resolves it.                                                            *)
FinishCheckout(c) ==
    /\ request[c] \in Outcome \cup {"pending"}
    /\ request' = [request EXCEPT ![c] = "done"]
    /\ checkout' = [checkout EXCEPT ![c] = IF request[c] = "failed" THEN "failed" ELSE "pending"]
    /\ UNCHANGED <<charge, sent, processed, subscriptions, handler, crashes>>

(* The provider call raises or times out, before or after the charge was   *)
(* taken: the request's transaction rolls back.                            *)
AbandonCheckout(c) ==
    /\ request[c] \in Outcome \cup {"charging", "pending"}
    /\ request' = [request EXCEPT ![c] = "done"]
    /\ UNCHANGED <<charge, sent, checkout, processed, subscriptions, handler, crashes>>

(******************************* the provider *******************************)

(* A pending charge settles; a declined one may still be paid.             *)
Settle(c, status) ==
    /\ \/ charge[c] = "pending"
       \/ charge[c] = "failed" /\ status = "succeeded"
    /\ charge' = [charge EXCEPT ![c] = status]
    /\ sent' = sent \cup {<<c, status>>}
    /\ UNCHANGED <<request, checkout, processed, subscriptions, handler, crashes>>

(****************************** handle_webhook ******************************)

(* The signature verifies and the ledger does not have the event yet.      *)
Receive(h, e) ==
    /\ handler[h].pc = "idle"
    /\ e \in sent \ processed
    /\ handler' = [handler EXCEPT ![h] = [pc |-> "mark", event |-> e, writes |-> "nothing"]]
    /\ UNCHANGED <<charge, sent, request, checkout, processed, subscriptions, crashes>>

(* Mutant: the insert of a key that is already there is not noticed.       *)
MarkUnchecked(h) ==
    /\ handler[h].pc = "mark"
    /\ handler' = [handler EXCEPT ![h].pc = "lookup"]
    /\ UNCHANGED <<charge, sent, request, checkout, processed, subscriptions, crashes>>

(* mark_processed: the insert waits for another one of the same key, and   *)
(* fails if that one was committed.                                        *)
Mark(h) ==
    /\ handler[h].pc = "mark"
    /\ \A other \in Handler : ~Holds(other, handler[h].event)
    /\ handler' = [handler EXCEPT ![h] = IF handler[h].event \in processed THEN Idle
                                         ELSE [@ EXCEPT !.pc = "lookup"]]
    /\ UNCHANGED <<charge, sent, request, checkout, processed, subscriptions, crashes>>

(* Mutant: only a pending row is resolved.                                 *)
ResolutionOfPending(row, status) == IF row = "pending" THEN status ELSE "nothing"

(* What the handler writes to the checkout row it has read.                *)
Resolution(row, status) == IF row \in {"none", "succeeded"} THEN "nothing" ELSE status

Lookup(h) ==
    /\ handler[h].pc = "lookup"
    /\ LET e == handler[h].event
       IN  handler' = [handler EXCEPT ![h].pc = "commit",
                         ![h].writes = Resolution(checkout[ChargeOf(e)], StatusOf(e))]
    /\ UNCHANGED <<charge, sent, request, checkout, processed, subscriptions, crashes>>

(* The ledger entry, the row and the subscription become visible.          *)
CommitDelivery(h) ==
    /\ handler[h].pc = "commit"
    /\ LET e == handler[h].event
           c == ChargeOf(e)
           written == handler[h].writes
       IN  /\ processed' = processed \cup {e}
           /\ checkout' = IF written = "nothing" THEN checkout
                          ELSE [checkout EXCEPT ![c] = written]
           /\ subscriptions' = IF written = "succeeded"
                               THEN [subscriptions EXCEPT ![c] = @ + 1]
                               ELSE subscriptions
    /\ handler' = [handler EXCEPT ![h] = Idle]
    /\ UNCHANGED <<charge, sent, request, crashes>>

(* A delivery fails before its commit: nothing of it remains.              *)
Crash(h) ==
    /\ handler[h].pc # "idle"
    /\ crashes < MaxCrashes
    /\ crashes' = crashes + 1
    /\ handler' = [handler EXCEPT ![h] = Idle]
    /\ UNCHANGED <<charge, sent, request, checkout, processed, subscriptions>>

(****************************************************************************)

Handle(h) == Mark(h) \/ Lookup(h) \/ CommitDelivery(h)

Next == \/ \E c \in Charge : \/ StartCheckout(c) \/ TakeCharge(c)
                             \/ FinishCheckout(c) \/ AbandonCheckout(c)
                             \/ \E status \in Outcome : Settle(c, status)
        \/ \E h \in Handler : \/ \E e \in Event : Receive(h, e)
                              \/ Mark(h) \/ Lookup(h) \/ CommitDelivery(h)
                              \/ Crash(h)

Spec == Init /\ [][Next]_vars

(* A delivery that was not answered is repeated, and handlers progress.    *)
Fairness == /\ \A e \in Event : SF_vars(\E h \in Handler : Receive(h, e))
            /\ \A h \in Handler : WF_vars(Handle(h))

FairSpec == Spec /\ Fairness

-----------------------------------------------------------------------------

(* Type correctness of the provider's records, the tables and the handlers. *)
TypeOK == /\ charge \in [Charge -> Outcome \cup {"none", "pending"}]
          /\ sent \subseteq Event
          /\ request \in [Charge -> Outcome \cup {"none", "charging", "pending", "done"}]
          /\ checkout \in [Charge -> Outcome \cup {"none", "pending"}]
          /\ processed \subseteq Event
          /\ subscriptions \in [Charge -> Nat]
          /\ handler \in [Handler -> Delivery]
          /\ crashes \in 0..MaxCrashes

(* "the same event id must never be processed twice, no matter how many    *)
(* times the provider redelivers it": one subscription per charge at most, *)
(* also when two handlers work on copies of the event at once, or when the *)
(* first one dies half-way.                                                *)
AtMostOneSubscription == \A c \in Charge : subscriptions[c] <= 1

(* A subscription is only ever activated for a charge the provider settled *)
(* as paid, whatever the synchronous answer said.                          *)
PaidBeforeSubscribed ==
    \A c \in Charge : subscriptions[c] > 0 => charge[c] = "succeeded"

(* A checkout reads SUCCEEDED only when its subscription exists: the row,  *)
(* the ledger entry and the subscription are one commit.                   *)
SucceededIsSubscribed ==
    \A c \in Charge : checkout[c] = "succeeded" => subscriptions[c] > 0

(* CheckoutService implements what PaidSubscription promises.              *)
Promise == INSTANCE PaidSubscription
              WITH paid <- {c \in Charge : charge[c] = "succeeded"}
PaidOnce == Promise!Spec

(* A payment for a checkout that was committed before its success event is *)
(* first looked at activates a subscription in the end, although           *)
(* deliveries may fail, overlap and arrive after a failure event.          *)
Reported(c) == /\ checkout[c] \in {"pending", "failed"}
               /\ <<c, "succeeded">> \in sent \ processed
               /\ \A h \in Handler : ~Holds(h, <<c, "succeeded">>)
PaymentIsHonoured == \A c \in Charge : Reported(c) ~> subscriptions[c] > 0

-----------------------------------------------------------------------------

(* handle_webhook: a failure is "recorded, not dropped, so the checkout    *)
(* attempt reads as FAILED rather than staying PENDING forever".           *)
FailureIsRecorded ==
    \A c \in Charge : <<c, "failed">> \in processed => checkout[c] # "pending"
=============================================================================
