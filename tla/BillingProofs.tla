--------------------------- MODULE BillingProofs ----------------------------
(***************************************************************************)
(* Proofs about the two parts of billing: Checkout, for any number of      *)
(* charges and of deliveries handled at the same time, and                 *)
(* PredictionCredits, whose specification has prefixed names, for any      *)
(* number of sessions and events and any sizes of the two grants.          *)
(***************************************************************************)
EXTENDS Checkout, PredictionCredits, FiniteSetTheorems, TLAPS

-----------------------------------------------------------------------------

(***************************************************************************)
(* The inductive invariant: the ledger entry a delivery has inserted is    *)
(* exclusive, and it guards the subscription.                              *)
(***************************************************************************)

(* A paid charge stays paid, and success is reported of no other.          *)
SentIsTrue == \A c \in Charge : <<c, "succeeded">> \in sent => charge[c] = "succeeded"

(* Deliveries in progress, and the ledger, are of events that were sent.   *)
HandledWasSent == /\ processed \subseteq sent
                  /\ \A h \in Handler : handler[h].pc # "idle" => handler[h].event \in sent

(* The unique index: one uncommitted entry per event, and none committed.  *)
Exclusive == /\ \A g, h \in Handler : \A e \in Event : Holds(g, e) /\ Holds(h, e) => g = h
             /\ \A h \in Handler : \A e \in Event : Holds(h, e) => e \notin processed

(* A delivery about to activate a subscription holds a success event.      *)
ActivatesOnSuccess ==
    \A h \in Handler : handler[h].pc = "commit" /\ handler[h].writes = "succeeded"
                         => StatusOf(handler[h].event) = "succeeded"

(* A subscription has its success event in the ledger.                     *)
SubscribedOnce ==
    \A c \in Charge : \/ subscriptions[c] = 0
                      \/ subscriptions[c] = 1 /\ <<c, "succeeded">> \in processed

IInv == TypeOK /\ SentIsTrue /\ HandledWasSent /\ Exclusive /\ ActivatesOnSuccess
        /\ SubscribedOnce

-----------------------------------------------------------------------------

(* The empty delivery is a delivery.                                       *)
LEMMA IdleType == Idle \in Delivery /\ Idle.pc = "idle"
BY DEF Idle, Delivery

(* What the resolution of a row can be.                                    *)
LEMMA ResolutionType ==
  ASSUME NEW row, NEW status \in Outcome
  PROVE  /\ Resolution(row, status) \in Outcome \cup {"nothing"}
         /\ Resolution(row, status) = "succeeded" => status = "succeeded"
BY DEF Resolution, Outcome

(* The parts of an event.                                                  *)
LEMMA EventParts ==
  ASSUME NEW e \in Event
  PROVE  /\ ChargeOf(e) \in Charge /\ StatusOf(e) \in Outcome
         /\ e = <<ChargeOf(e), StatusOf(e)>>
BY DEF Event, ChargeOf, StatusOf

(* Before the first checkout the invariant holds.                          *)
LEMMA InitIInv == Init => IInv
BY CrashAssumption
   DEF Init, IInv, TypeOK, SentIsTrue, HandledWasSent, Exclusive, ActivatesOnSuccess,
       SubscribedOnce, Holds, Idle, Delivery, Outcome

(* A step of the checkout request or of the provider: charges only move    *)
(* towards being paid and no delivery is touched.                          *)
LEMMA ChargeStep ==
  ASSUME IInv, TypeOK', UNCHANGED <<processed, subscriptions, handler>>, sent \subseteq sent',
         \A c \in Charge : charge[c] = "succeeded" => charge'[c] = "succeeded",
         \A c \in Charge : <<c, "succeeded">> \in sent' \ sent => charge'[c] = "succeeded"
  PROVE  IInv'
BY DEF IInv, SentIsTrue, HandledWasSent, Exclusive, ActivatesOnSuccess, SubscribedOnce, Holds

(* The checkout request writes no ledger entry and settles no charge.      *)
LEMMA RequestStep ==
  ASSUME IInv, NEW c \in Charge,
         StartCheckout(c) \/ FinishCheckout(c) \/ AbandonCheckout(c)
  PROVE  IInv'
<1>1. TypeOK'
  BY DEF IInv, TypeOK, StartCheckout, FinishCheckout, AbandonCheckout, Outcome
<1> QED
  BY <1>1, ChargeStep DEF StartCheckout, FinishCheckout, AbandonCheckout

(* A charge settled at once is paid before its event is sent.              *)
LEMMA TakeChargeStep ==
  ASSUME IInv, NEW c \in Charge, TakeCharge(c)
  PROVE  IInv'
<1>1. PICK status \in Outcome \cup {"pending"} :
        /\ charge' = [charge EXCEPT ![c] = status]
        /\ sent' = IF status \in Outcome THEN sent \cup {<<c, status>>} ELSE sent
        /\ request' = [request EXCEPT ![c] = status]
  BY DEF TakeCharge
<1>2. charge[c] = "none" /\ UNCHANGED <<checkout, processed, subscriptions, handler, crashes>>
  BY DEF TakeCharge
<1>3. TypeOK'
  BY <1>1, <1>2 DEF IInv, TypeOK, Event
<1>4. \A d \in Charge : charge'[d] = IF d = c THEN status ELSE charge[d]
  BY <1>1 DEF IInv, TypeOK
<1>5. \A d \in Charge : <<d, "succeeded">> \in sent' \ sent => d = c /\ status = "succeeded"
  BY <1>1
<1> QED
  BY <1>1, <1>2, <1>3, <1>4, <1>5, ChargeStep

(* A charge settled later is paid before its event is sent.                *)
LEMMA SettleStep ==
  ASSUME IInv, NEW c \in Charge, NEW status \in Outcome, Settle(c, status)
  PROVE  IInv'
<1>1. TypeOK'
  BY DEF IInv, TypeOK, Settle, Event
<1>2. \A d \in Charge : charge'[d] = IF d = c THEN status ELSE charge[d]
  BY DEF IInv, TypeOK, Settle
<1>3. \A d \in Charge : <<d, "succeeded">> \in sent' \ sent => d = c /\ status = "succeeded"
  BY DEF Settle
<1> QED
  BY <1>1, <1>2, <1>3, ChargeStep DEF Settle

(* A step of delivery h that publishes nothing and takes no new entry.     *)
LEMMA DeliveryStep ==
  ASSUME IInv, NEW h \in Handler, NEW r \in Delivery,
         handler' = [handler EXCEPT ![h] = r],
         r.pc # "idle" => r.event \in sent,
         r.pc \in {"lookup", "commit"} =>
            /\ r.event \notin processed
            /\ \A g \in Handler \ {h} : ~Holds(g, r.event),
         r.pc = "commit" /\ r.writes = "succeeded" => StatusOf(r.event) = "succeeded",
         UNCHANGED <<charge, sent, request, checkout, processed, subscriptions>>,
         crashes' \in 0..MaxCrashes
  PROVE  IInv'
<1> USE DEF IInv
<1>1. handler'[h] = r /\ \A g \in Handler \ {h} : handler'[g] = handler[g]
  BY DEF TypeOK
<1>2. TypeOK'
  BY DEF TypeOK
<1>3. SentIsTrue' /\ SubscribedOnce'
  BY DEF SentIsTrue, SubscribedOnce
<1>4. HandledWasSent'
  BY <1>1 DEF HandledWasSent
<1>5. Exclusive'
  BY <1>1 DEF Exclusive, Holds
<1>6. ActivatesOnSuccess'
  BY <1>1 DEF ActivatesOnSuccess
<1> QED
  BY <1>2, <1>3, <1>4, <1>5, <1>6

(* A delivery that begins holds no ledger entry yet.                       *)
LEMMA ReceiveStep ==
  ASSUME IInv, NEW h \in Handler, NEW e \in Event, Receive(h, e)
  PROVE  IInv'
<1> DEFINE r == [pc |-> "mark", event |-> e, writes |-> "nothing"]
<1>1. r \in Delivery /\ r.pc = "mark" /\ r.event = e
  BY DEF Delivery
<1>2. crashes' \in 0..MaxCrashes
  BY DEF Receive, IInv, TypeOK
<1>3. handler' = [handler EXCEPT ![h] = r]
  BY DEF Receive
<1> HIDE DEF r
<1> QED
  BY <1>1, <1>2, <1>3, DeliveryStep DEF Receive

(* The ledger entry is taken only while nobody holds it or has committed   *)
(* it.                                                                     *)
LEMMA MarkStep ==
  ASSUME IInv, NEW h \in Handler, Mark(h)
  PROVE  IInv'
<1> DEFINE r == [handler[h] EXCEPT !.pc = "lookup"]
<1>1. /\ handler[h] \in Delivery /\ handler[h].pc = "mark" /\ handler[h].event \in sent
      /\ crashes' \in 0..MaxCrashes
  BY DEF Mark, IInv, TypeOK, HandledWasSent
<1>2. CASE handler[h].event \in processed
  <2>1. handler' = [handler EXCEPT ![h] = Idle]
    BY <1>2 DEF Mark
  <2> QED
    BY <1>1, <2>1, IdleType, DeliveryStep DEF Mark
<1>3. CASE handler[h].event \notin processed
  <2>1. r \in Delivery /\ r.pc = "lookup" /\ r.event = handler[h].event
    BY <1>1 DEF Delivery
  <2>2. handler' = [handler EXCEPT ![h] = r]
    BY <1>3 DEF Mark
  <2> HIDE DEF r
  <2> QED
    BY <1>1, <1>3, <2>1, <2>2, DeliveryStep DEF Mark
<1> QED
  BY <1>2, <1>3

(* What is to be written activates a subscription on a success event only. *)
LEMMA LookupStep ==
  ASSUME IInv, NEW h \in Handler, Lookup(h)
  PROVE  IInv'
<1> DEFINE e == handler[h].event
           written == Resolution(checkout[ChargeOf(e)], StatusOf(e))
           r == [handler[h] EXCEPT !.pc = "commit", !.writes = written]
<1>1. /\ handler[h] \in Delivery /\ handler[h].pc = "lookup" /\ e \in sent /\ e \in Event
      /\ crashes' \in 0..MaxCrashes
  BY DEF Lookup, IInv, TypeOK, HandledWasSent
<1>2. StatusOf(e) \in Outcome
  BY <1>1, EventParts
<1>3. written \in Outcome \cup {"nothing"} /\ (written = "succeeded" => StatusOf(e) = "succeeded")
  BY <1>2, ResolutionType
<1>4. handler' = [handler EXCEPT ![h] = r]
  BY <1>1 DEF Lookup, IInv, TypeOK
<1>5. Holds(h, e)
  BY <1>1 DEF Holds
<1>6. e \notin processed /\ \A g \in Handler \ {h} : ~Holds(g, e)
  BY <1>1, <1>5 DEF IInv, Exclusive
<1>7. r \in Delivery /\ r.pc = "commit" /\ r.event = e /\ r.writes = written
  <2> HIDE DEF written
  <2> QED
    BY <1>1, <1>3 DEF Delivery
<1> HIDE DEF r, written, e
<1> QED
  BY <1>1, <1>3, <1>4, <1>6, <1>7, DeliveryStep DEF Lookup

(* A delivery that fails leaves the others as they were.                   *)
LEMMA CrashStep ==
  ASSUME IInv, NEW h \in Handler, Crash(h)
  PROVE  IInv'
<1>1. crashes' \in 0..MaxCrashes
  BY CrashAssumption DEF Crash, IInv, TypeOK
<1> QED
  BY <1>1, IdleType, DeliveryStep DEF Crash

(* A delivery that commits was the only one with its ledger entry, so the  *)
(* subscription it activates is the charge's first.                        *)
LEMMA CommitDeliveryStep ==
  ASSUME IInv, NEW h \in Handler, CommitDelivery(h)
  PROVE  IInv'
<1> DEFINE e == handler[h].event
           c == ChargeOf(e)
           written == handler[h].writes
<1> USE DEF IInv
<1>1. /\ handler[h] \in Delivery /\ handler[h].pc = "commit" /\ e \in sent /\ e \in Event
      /\ processed' = processed \cup {e}
      /\ UNCHANGED <<charge, sent, request, crashes>>
      /\ handler' = [handler EXCEPT ![h] = Idle]
      /\ checkout' = IF written = "nothing" THEN checkout
                     ELSE [checkout EXCEPT ![c] = written]
      /\ subscriptions' = IF written = "succeeded"
                          THEN [subscriptions EXCEPT ![c] = @ + 1] ELSE subscriptions
  BY DEF CommitDelivery, TypeOK, HandledWasSent
<1>2. c \in Charge /\ e = <<c, StatusOf(e)>>
  BY <1>1, EventParts
<1>3. written \in Outcome \cup {"nothing"}
  BY <1>1 DEF Delivery
<1>4. written = "succeeded" => e = <<c, "succeeded">>
  BY <1>1, <1>2 DEF ActivatesOnSuccess
<1>5. e \notin processed /\ \A g \in Handler \ {h} : ~Holds(g, e)
  BY <1>1 DEF Exclusive, Holds
<1>6. handler'[h] = Idle /\ \A g \in Handler \ {h} : handler'[g] = handler[g]
  BY <1>1 DEF TypeOK
<1> HIDE DEF c, e, written
<1>7. TypeOK'
  BY <1>1, <1>2, <1>3, IdleType DEF TypeOK, Outcome
<1>8. SentIsTrue'
  BY <1>1 DEF SentIsTrue
<1>9. HandledWasSent'
  BY <1>1, <1>6, IdleType DEF HandledWasSent
<1>10. Exclusive'
  <2>1. \A g \in Handler, f \in Event : Holds(g, f)' => g # h /\ Holds(g, f)
    BY <1>6, IdleType DEF Holds
  <2> QED
    BY <1>1, <1>5, <2>1 DEF Exclusive
<1>11. ActivatesOnSuccess'
  BY <1>6, IdleType DEF ActivatesOnSuccess
<1>12. SubscribedOnce'
  <2>1. CASE written = "succeeded"
    <3>1. subscriptions[c] = 0
      BY <1>2, <1>4, <1>5, <2>1 DEF SubscribedOnce
    <3>2. \A d \in Charge : subscriptions'[d] = IF d = c THEN 1 ELSE subscriptions[d]
      BY <1>1, <1>2, <2>1, <3>1 DEF TypeOK
    <3> QED
      BY <1>1, <1>4, <2>1, <3>2 DEF SubscribedOnce
  <2>2. CASE written # "succeeded"
    BY <1>1, <2>2 DEF SubscribedOnce
  <2> QED
    BY <2>1, <2>2
<1> QED
  BY <1>7, <1>8, <1>9, <1>10, <1>11, <1>12

-----------------------------------------------------------------------------

(* The invariant is inductive: one case per action.                        *)
LEMMA StepIInv == IInv /\ [Next]_vars => IInv'
<1> SUFFICES ASSUME IInv, [Next]_vars PROVE IInv'
  OBVIOUS
<1>1. ASSUME NEW c \in Charge, StartCheckout(c) \/ FinishCheckout(c) \/ AbandonCheckout(c)
      PROVE IInv'
  BY <1>1, RequestStep
<1>2. ASSUME NEW c \in Charge, TakeCharge(c) PROVE IInv'
  BY <1>2, TakeChargeStep
<1>3. ASSUME NEW c \in Charge, NEW status \in Outcome, Settle(c, status) PROVE IInv'
  BY <1>3, SettleStep
<1>4. ASSUME NEW h \in Handler, NEW e \in Event, Receive(h, e) PROVE IInv'
  BY <1>4, ReceiveStep
<1>5. ASSUME NEW h \in Handler, Mark(h) \/ Lookup(h) PROVE IInv'
  BY <1>5, MarkStep, LookupStep
<1>6. ASSUME NEW h \in Handler, CommitDelivery(h) \/ Crash(h) PROVE IInv'
  BY <1>6, CommitDeliveryStep, CrashStep
<1>7. CASE UNCHANGED vars
  BY <1>7 DEF vars, IInv, TypeOK, SentIsTrue, HandledWasSent, Exclusive, ActivatesOnSuccess,
              SubscribedOnce, Holds
<1> QED
  BY <1>1, <1>2, <1>3, <1>4, <1>5, <1>6, <1>7 DEF Next

(* The ledger, the rows and the deliveries always satisfy the invariant.    *)
THEOREM InductiveInvariant == Spec => []IInv
BY InitIInv, StepIInv, PTL DEF Spec

(* The tables and the deliveries keep their types.                          *)
THEOREM TypeCorrect == Spec => []TypeOK
<1>1. IInv => TypeOK
  BY DEF IInv
<1> QED
  BY <1>1, InductiveInvariant, PTL

(* However many copies of an event are handled at once and however many     *)
(* fail half-way, a charge activates one subscription at most.              *)
THEOREM OneSubscriptionPerCharge == Spec => []AtMostOneSubscription
<1>1. IInv => AtMostOneSubscription
  <2> SUFFICES ASSUME IInv, NEW c \in Charge PROVE subscriptions[c] <= 1
    BY DEF AtMostOneSubscription
  <2>1. subscriptions[c] = 0 \/ subscriptions[c] = 1
    BY DEF IInv, SubscribedOnce
  <2> QED
    BY <2>1
<1> QED
  BY <1>1, InductiveInvariant, PTL

(* Nothing but a charge settled as paid activates a subscription.           *)
THEOREM OnlyPaidSubscribes == Spec => []PaidBeforeSubscribed
<1>1. IInv => PaidBeforeSubscribed
  <2> SUFFICES ASSUME IInv, NEW c \in Charge, subscriptions[c] > 0
               PROVE  charge[c] = "succeeded"
    BY DEF PaidBeforeSubscribed
  <2>1. <<c, "succeeded">> \in processed
    BY DEF IInv, SubscribedOnce
  <2> QED
    BY <2>1 DEF IInv, HandledWasSent, SentIsTrue
<1> QED
  BY <1>1, InductiveInvariant, PTL

(* A row reads SUCCEEDED only by the commit that activates its              *)
(* subscription, and no step takes a subscription back.                     *)
LEMMA StepSucceeded ==
  IInv /\ SucceededIsSubscribed /\ [Next]_vars => SucceededIsSubscribed'
<1> SUFFICES ASSUME IInv, SucceededIsSubscribed, [Next]_vars,
                    NEW c \in Charge, checkout'[c] = "succeeded"
             PROVE  subscriptions'[c] > 0
  BY DEF SucceededIsSubscribed
<1>1. ASSUME UNCHANGED <<checkout, subscriptions>> PROVE subscriptions'[c] > 0
  BY <1>1 DEF SucceededIsSubscribed
<1>2. ASSUME NEW d \in Charge, FinishCheckout(d) PROVE subscriptions'[c] > 0
  <2>1. checkout'[c] = checkout[c]
    BY <1>2 DEF FinishCheckout, IInv, TypeOK
  <2> QED
    BY <1>2, <2>1 DEF SucceededIsSubscribed, FinishCheckout
<1>3. ASSUME NEW h \in Handler, CommitDelivery(h) PROVE subscriptions'[c] > 0
  <2> DEFINE d == ChargeOf(handler[h].event)
             written == handler[h].writes
  <2>1. /\ checkout' = IF written = "nothing" THEN checkout
                       ELSE [checkout EXCEPT ![d] = written]
        /\ subscriptions' = IF written = "succeeded"
                            THEN [subscriptions EXCEPT ![d] = @ + 1] ELSE subscriptions
        /\ checkout \in [Charge -> Outcome \cup {"none", "pending"}]
        /\ subscriptions \in [Charge -> Nat]
    BY <1>3 DEF CommitDelivery, IInv, TypeOK
  <2> HIDE DEF d, written
  <2>2. CASE checkout[c] = "succeeded"
    <3>1. subscriptions[c] > 0
      BY <2>2 DEF SucceededIsSubscribed
    <3>2. subscriptions'[c] >= subscriptions[c]
      BY <2>1
    <3> QED
      BY <2>1, <3>1, <3>2
  <2>3. CASE checkout[c] # "succeeded"
    <3>1. c = d /\ written = "succeeded"
      BY <2>1, <2>3
    <3>2. subscriptions'[c] = subscriptions[c] + 1
      BY <2>1, <3>1
    <3> QED
      BY <2>1, <3>2
  <2> QED
    BY <2>2, <2>3
<1> QED
  BY <1>1, <1>2, <1>3
  DEF Next, vars, StartCheckout, TakeCharge, AbandonCheckout, Settle, Receive, Mark, Lookup, Crash

(* Whatever fails or overlaps, a checkout never reads SUCCEEDED without the *)
(* subscription the payment was for.                                        *)
THEOREM SucceededMeansSubscribed == Spec => []SucceededIsSubscribed
<1>1. Init => SucceededIsSubscribed
  BY DEF Init, SucceededIsSubscribed
<1> QED
  BY <1>1, StepSucceeded, InductiveInvariant, PTL DEF Spec

-----------------------------------------------------------------------------

(***************************************************************************)
(* Refinement of PaidSubscription.                                         *)
(***************************************************************************)

PaidCharges == {c \in Charge : charge[c] = "succeeded"}

(* Initially nothing is paid and nothing is activated.                       *)
LEMMA InitRefines == Init => Promise!Init
BY DEF Init, Promise!Init

(* A step that takes or settles a charge pays it, or stutters.              *)
LEMMA ChargeRefines ==
  ASSUME IInv, NEW c \in Charge, NEW status, charge[c] # "succeeded",
         charge' = [charge EXCEPT ![c] = status], UNCHANGED subscriptions
  PROVE  [Promise!Next]_<<PaidCharges, subscriptions>>
<1>1. \A d \in Charge : charge'[d] = IF d = c THEN status ELSE charge[d]
  BY DEF IInv, TypeOK
<1>2. CASE status = "succeeded"
  <2>1. c \notin PaidCharges /\ PaidCharges' = PaidCharges \cup {c}
    BY <1>1, <1>2 DEF PaidCharges
  <2>2. Promise!Pay(c)
    BY <2>1 DEF Promise!Pay, PaidCharges
  <2> QED
    BY <2>2 DEF Promise!Next
<1>3. CASE status # "succeeded"
  <2>1. PaidCharges' = PaidCharges
    BY <1>1, <1>3 DEF PaidCharges
  <2> QED
    BY <2>1
<1> QED
  BY <1>2, <1>3

(* A commit activates the subscription of a paid charge, or stutters.       *)
LEMMA CommitRefines ==
  ASSUME IInv, NEW h \in Handler, CommitDelivery(h)
  PROVE  [Promise!Next]_<<PaidCharges, subscriptions>>
<1> DEFINE e == handler[h].event
           c == ChargeOf(e)
<1>1. PaidCharges' = PaidCharges
  BY DEF CommitDelivery, PaidCharges
<1>2. CASE handler[h].writes # "succeeded"
  BY <1>1, <1>2 DEF CommitDelivery
<1>3. CASE handler[h].writes = "succeeded"
  <2>1. /\ handler[h].pc = "commit" /\ e \in sent /\ e \in Event
        /\ subscriptions' = [subscriptions EXCEPT ![c] = @ + 1]
    BY <1>3 DEF CommitDelivery, IInv, TypeOK, HandledWasSent
  <2>2. c \in Charge /\ e = <<c, "succeeded">>
    BY <1>3, <2>1, EventParts DEF IInv, ActivatesOnSuccess
  <2>3. e \notin processed
    BY <2>1 DEF IInv, Exclusive, Holds
  <2> HIDE DEF c, e
  <2>4. c \in PaidCharges
    BY <2>1, <2>2 DEF IInv, SentIsTrue, PaidCharges
  <2>5. subscriptions[c] = 0
    BY <2>2, <2>3 DEF IInv, SubscribedOnce
  <2>6. subscriptions' = [subscriptions EXCEPT ![c] = 1]
    BY <2>1, <2>5
  <2>7. Promise!Activate(c)
    BY <1>1, <2>4, <2>5, <2>6 DEF Promise!Activate, PaidCharges
  <2> QED
    BY <2>2, <2>7 DEF Promise!Next
<1> QED
  BY <1>2, <1>3

(* Every step pays, activates or stutters.                                  *)
LEMMA StepRefines == IInv /\ [Next]_vars => [Promise!Next]_<<PaidCharges, subscriptions>>
<1> SUFFICES ASSUME IInv, [Next]_vars
             PROVE  [Promise!Next]_<<PaidCharges, subscriptions>>
  OBVIOUS
<1>1. ASSUME UNCHANGED <<charge, subscriptions>>
      PROVE  [Promise!Next]_<<PaidCharges, subscriptions>>
  BY <1>1 DEF PaidCharges
<1>2. ASSUME NEW c \in Charge, TakeCharge(c)
      PROVE  [Promise!Next]_<<PaidCharges, subscriptions>>
  BY <1>2, ChargeRefines DEF TakeCharge
<1>3. ASSUME NEW c \in Charge, NEW status \in Outcome, Settle(c, status)
      PROVE  [Promise!Next]_<<PaidCharges, subscriptions>>
  BY <1>3, ChargeRefines DEF Settle
<1>4. ASSUME NEW h \in Handler, CommitDelivery(h)
      PROVE  [Promise!Next]_<<PaidCharges, subscriptions>>
  BY <1>4, CommitRefines
<1> QED
  BY <1>1, <1>2, <1>3, <1>4
  DEF Next, vars, StartCheckout, FinishCheckout, AbandonCheckout, Receive, Mark, Lookup, Crash

(* CheckoutService implements the promise: every charge activates one       *)
(* subscription at most, and only once it is paid.                          *)
THEOREM ImplementsPromise == Spec => PaidOnce
<1>1. Spec => Promise!Init
  BY InitRefines DEF Spec
<1>2. IInv /\ [Next]_vars => [Promise!Next]_<<{c \in Charge : charge[c] = "succeeded"}, subscriptions>>
  BY StepRefines DEF PaidCharges
<1> QED
  BY <1>1, <1>2, InductiveInvariant, PTL DEF Spec, PaidOnce, Promise!Spec

-----------------------------------------------------------------------------

(***************************************************************************)
(* Prediction credits: every version of the row accounts for what has been *)
(* granted and answered.                                                   *)
(***************************************************************************)

(* A version of the row that accounts for everything committed, for g more *)
(* credits granted and n more consumed.                                    *)
Sums(row, g, n) == /\ row.available = Budget + g - answered - n
                   /\ row.granted = RewardGrant * Cardinality(rewards) + g
                   /\ row.used = answered + n

Given(s) == IF tx[s].pc = "commit" /\ tx[s].kind = "reward" THEN RewardGrant ELSE 0
Spent(s) == IF tx[s].pc = "commit" /\ tx[s].kind = "generate" THEN 1 ELSE 0

(* What each step of a transaction implies about its memory.               *)
TxInv(s) ==
    /\ tx[s].pc \in {"idle", "record", "read", "insert"} => tx[s].row = NoAccount
    /\ tx[s].kind = "none" <=> tx[s].pc = "idle"
    /\ tx[s].pc = "record" => tx[s].kind = "reward"
    /\ tx[s].kind = "reward" => tx[s].event \in AdEvent
    /\ tx[s].kind = "reward" /\ tx[s].pc # "record" => tx[s].event \notin rewards
    /\ tx[s].pc \in {"apply", "commit"} /\ tx[s].row = NoAccount => account # NoAccount
    /\ tx[s].pc = "commit" /\ tx[s].kind \in {"generate", "reward"} => tx[s].row # NoAccount
    /\ tx[s].row # NoAccount => Sums(tx[s].row, Given(s), Spent(s))

AccountInv == /\ account # NoAccount => Sums(account, 0, 0)
              /\ account = NoAccount => rewards = {} /\ answered = 0

(* The row, and the key of an event, are held by one transaction at most.  *)
OneHolder == \A s, t \in Session :
                tx[s].row # NoAccount /\ tx[t].row # NoAccount => s = t
OneKeyHolder == \A s, t \in Session :
                   (/\ tx[s].kind = "reward" /\ tx[s].pc # "record"
                    /\ tx[t].kind = "reward" /\ tx[t].pc # "record"
                    /\ tx[s].event = tx[t].event) => s = t

CreditsIInv == /\ CreditsTypeOK /\ AccountInv /\ OneHolder /\ OneKeyHolder
               /\ \A s \in Session : TxInv(s)

TxType == [pc : PC, kind : Kind, event : AdEvent \cup {NoAdEvent}, row : Account \cup {NoAccount}]

-----------------------------------------------------------------------------

(* The number of rewards is a natural number, and one more with a new one. *)
LEMMA RewardCount ==
    ASSUME CreditsTypeOK
    PROVE  /\ Cardinality(rewards) \in Nat
           /\ IsFiniteSet(rewards)
           /\ \A e : e \notin rewards => Cardinality(rewards \cup {e}) = Cardinality(rewards) + 1
<1>1. IsFiniteSet(rewards)
  BY AdEventAssumption, FS_Subset DEF CreditsTypeOK
<1>2. QED
  BY <1>1, FS_CardinalityType, FS_AddElement

(* The initial state satisfies the invariant.                              *)
LEMMA CreditsInitIInv == CreditsInit => CreditsIInv
<1> SUFFICES ASSUME CreditsInit PROVE CreditsIInv
  OBVIOUS
<1>1. IdleTx \in TxType
  BY DEF IdleTx, Tx, TxType, PC, Kind
<1>2. CreditsTypeOK
  BY <1>1 DEF CreditsInit, CreditsTypeOK, TxType
<1>3. AccountInv
  BY DEF CreditsInit, AccountInv
<1>4. OneHolder /\ OneKeyHolder
  BY DEF CreditsInit, OneHolder, OneKeyHolder, IdleTx, Tx
<1>5. \A s \in Session : TxInv(s)
  BY DEF CreditsInit, TxInv, IdleTx, Tx
<1>6. QED
  BY <1>2, <1>3, <1>4, <1>5 DEF CreditsIInv

(* A step that changes only one transaction, and takes neither the row nor *)
(* a key another one holds, keeps the invariant if it keeps it for that    *)
(* transaction.                                                            *)
LEMMA LocalStep ==
    ASSUME CreditsIInv, NEW s \in Session, NEW r \in TxType,
           tx' = [tx EXCEPT ![s] = r],
           UNCHANGED <<account, rewards, answered>>,
           r.row # NoAccount => ~RowLocked(s) \/ tx[s].row # NoAccount,
           r.kind = "reward" /\ r.pc # "record" =>
              ~KeyLocked(s, r.event) \/ (tx[s].kind = "reward" /\ tx[s].pc # "record"
                                         /\ tx[s].event = r.event),
           TxInv(s)'
    PROVE  CreditsIInv'
<1>1. CreditsTypeOK'
  BY DEF CreditsIInv, CreditsTypeOK, TxType
<1>2. tx'[s] = r /\ \A t \in Session \ {s} : tx'[t] = tx[t]
  BY DEF CreditsIInv, CreditsTypeOK
<1>3. AccountInv'
  BY DEF CreditsIInv, AccountInv, Sums, Budget
<1>4. OneHolder'
  BY <1>2 DEF CreditsIInv, OneHolder, RowLocked
<1>5. OneKeyHolder'
  BY <1>2 DEF CreditsIInv, OneKeyHolder, KeyLocked
<1>6. ASSUME NEW t \in Session PROVE TxInv(t)'
  <2>1. CASE t = s
    BY <2>1
  <2>2. CASE t # s
    BY <2>2, <1>2 DEF CreditsIInv, TxInv, Sums, Budget, Given, Spent
  <2>3. QED
    BY <2>1, <2>2
<1>7. QED
  BY <1>1, <1>3, <1>4, <1>5, <1>6 DEF CreditsIInv

(* The fields of a transaction's record.                                   *)
LEMMA TxFields ==
    ASSUME NEW pc \in PC, NEW kind \in Kind, NEW event \in AdEvent \cup {NoAdEvent},
           NEW row \in Account \cup {NoAccount}
    PROVE  /\ Tx(pc, kind, event, row) \in TxType
           /\ Tx(pc, kind, event, row).pc = pc
           /\ Tx(pc, kind, event, row).kind = kind
           /\ Tx(pc, kind, event, row).event = event
           /\ Tx(pc, kind, event, row).row = row
BY DEF Tx, TxType

(* Ending a transaction without writing anything.                          *)
LEMMA EndStep ==
    ASSUME CreditsIInv, NEW s \in Session, tx' = [tx EXCEPT ![s] = IdleTx],
           UNCHANGED <<account, rewards, answered>>
    PROVE  CreditsIInv'
<1>1. /\ IdleTx \in TxType /\ IdleTx.row = NoAccount /\ IdleTx.kind = "none" /\ IdleTx.pc = "idle"
  BY TxFields DEF IdleTx, PC, Kind
<1>2. tx'[s] = IdleTx
  BY DEF CreditsIInv, CreditsTypeOK
<1>3. TxInv(s)'
  BY <1>1, <1>2 DEF TxInv
<1>4. QED
  BY <1>1, <1>3, LocalStep

(* The first steps: nothing is written yet.                                *)
LEMMA BeginStep ==
    ASSUME CreditsIInv, NEW s \in Session, NEW kind \in {"entitlement", "generate"}, Begin(s, kind)
    PROVE  CreditsIInv'
<1> DEFINE r == Tx("read", kind, NoAdEvent, NoAccount)
<1>1. /\ r \in TxType /\ r.pc = "read" /\ r.kind = kind /\ r.row = NoAccount
  BY TxFields DEF PC, Kind
<1>2. tx' = [tx EXCEPT ![s] = r] /\ UNCHANGED <<account, rewards, answered>>
  BY DEF Begin
<1> HIDE DEF r
<1>3. TxInv(s)'
  <2>1. tx'[s] = r
    BY <1>2 DEF CreditsIInv, CreditsTypeOK
  <2>2. QED
    BY <1>1, <2>1 DEF TxInv
<1>4. QED
  BY <1>1, <1>2, <1>3, LocalStep

(* So does the callback, whatever event it reports.                        *)
LEMMA CallbackStep ==
    ASSUME CreditsIInv, NEW s \in Session, NEW e \in AdEvent, Callback(s, e)
    PROVE  CreditsIInv'
<1> DEFINE r == Tx("record", "reward", e, NoAccount)
<1>1. /\ r \in TxType /\ r.pc = "record" /\ r.kind = "reward" /\ r.event = e
      /\ r.row = NoAccount
  BY TxFields DEF PC, Kind
<1>2. tx' = [tx EXCEPT ![s] = r] /\ UNCHANGED <<account, rewards, answered>>
  BY DEF Callback
<1> HIDE DEF r
<1>3. TxInv(s)'
  <2>1. tx'[s] = r
    BY <1>2 DEF CreditsIInv, CreditsTypeOK
  <2>2. QED
    BY <1>1, <2>1 DEF TxInv
<1>4. QED
  BY <1>1, <1>2, <1>3, LocalStep

(* The event's key is held from here on, unless it was granted before.     *)
LEMMA RecordRewardStep ==
    ASSUME CreditsIInv, NEW s \in Session, RecordReward(s)
    PROVE  CreditsIInv'
<1> DEFINE e == tx[s].event
<1> DEFINE r == IF e \in rewards THEN Tx("read", "duplicate", NoAdEvent, NoAccount)
                ELSE Tx("read", "reward", e, NoAccount)
<1>1. e \in AdEvent
  BY DEF RecordReward, CreditsIInv, TxInv
<1>2. /\ r \in TxType /\ r.pc = "read" /\ r.row = NoAccount
      /\ r.kind \in {"reward", "duplicate"}
      /\ r.kind = "reward" => r.event = e /\ e \notin rewards
  BY <1>1, TxFields DEF PC, Kind
<1>3. /\ tx' = [tx EXCEPT ![s] = r] /\ UNCHANGED <<account, rewards, answered>>
      /\ ~KeyLocked(s, e)
  BY DEF RecordReward
<1> HIDE DEF r
<1>4. TxInv(s)'
  <2>1. tx'[s] = r
    BY <1>3 DEF CreditsIInv, CreditsTypeOK
  <2>2. QED
    BY <1>1, <1>2, <1>3, <2>1 DEF TxInv
<1>5. QED
  BY <1>2, <1>3, <1>4, LocalStep

(* A transaction keeps the key it holds when it goes on.                   *)
LEMMA GoOnStep ==
    ASSUME CreditsIInv, NEW s \in Session, tx[s].pc # "idle", tx[s].pc # "record",
           NEW pc \in {"insert", "apply", "commit"}, NEW row \in Account \cup {NoAccount},
           tx' = [tx EXCEPT ![s] = GoOn(s, pc, row)],
           UNCHANGED <<account, rewards, answered>>,
           row # NoAccount => ~RowLocked(s) \/ tx[s].row # NoAccount,
           pc = "insert" => row = NoAccount,
           row = NoAccount => account # NoAccount \/ pc = "insert",
           pc = "commit" /\ tx[s].kind \in {"generate", "reward"} => row # NoAccount,
           row # NoAccount =>
              Sums(row, IF pc = "commit" /\ tx[s].kind = "reward" THEN RewardGrant ELSE 0,
                        IF pc = "commit" /\ tx[s].kind = "generate" THEN 1 ELSE 0)
    PROVE  CreditsIInv'
<1> DEFINE r == GoOn(s, pc, row)
<1>1. tx[s] \in TxType
  BY DEF CreditsIInv, CreditsTypeOK, TxType
<1>2. tx[s].kind \in Kind /\ tx[s].event \in AdEvent \cup {NoAdEvent}
  BY <1>1 DEF TxType
<1>3. /\ r \in TxType /\ r.pc = pc /\ r.kind = tx[s].kind /\ r.event = tx[s].event
      /\ r.row = row
  <2>1. pc \in PC /\ r = Tx(pc, tx[s].kind, tx[s].event, row)
    BY DEF GoOn, PC
  <2> HIDE DEF r
  <2>2. QED
    BY <1>2, <2>1, TxFields
<1>4. tx'[s] = r
  BY <1>3 DEF CreditsIInv, CreditsTypeOK
<1> HIDE DEF r
<1>5. TxInv(s)
  BY DEF CreditsIInv
<1>6. TxInv(s)'
  <2>1. row # NoAccount => Sums(tx[s].row, Given(s), Spent(s))'
    BY <1>3, <1>4 DEF Sums, Budget, Given, Spent
  <2>2. /\ tx'[s].kind = "none" <=> tx'[s].pc = "idle"
        /\ tx'[s].kind = "reward" => tx'[s].event \in AdEvent /\ tx'[s].event \notin rewards
    BY <1>3, <1>4, <1>5 DEF TxInv
  <2>3. QED
    BY <1>3, <1>4, <2>1, <2>2 DEF TxInv, Sums, Budget, Given, Spent
<1>7. tx' = [tx EXCEPT ![s] = r]
  BY DEF r
<1>8. r.kind = "reward" /\ r.pc # "record" =>
         tx[s].kind = "reward" /\ tx[s].pc # "record" /\ tx[s].event = r.event
  BY <1>3
<1>9. QED
  BY <1>3, <1>6, <1>7, <1>8, LocalStep

(* A new account holds what is not yet given or consumed.                  *)
LEMMA FreshSums ==
    ASSUME CreditsIInv, account = NoAccount
    PROVE  FreshAccount \in Account /\ Sums(FreshAccount, 0, 0)
<1>1. FreshAccount \in Account
  BY GrantAssumption DEF FreshAccount, Account
<1>2. rewards = {} /\ answered = 0
  BY DEF CreditsIInv, AccountInv
<1>3. Cardinality(rewards) = 0
  BY <1>2, FS_EmptySet
<1>4. QED
  BY <1>1, <1>2, <1>3, GrantAssumption DEF Sums, FreshAccount, Budget

(* The lookup and the insertion of the row.                                *)
LEMMA RowStep ==
    ASSUME CreditsIInv, NEW s \in Session, ReadRow(s) \/ InsertRow(s)
    PROVE  CreditsIInv'
<1>1. CASE ReadRow(s)
  <2>1. account = NoAccount \/ account # NoAccount
    OBVIOUS
  <2>2. QED
    BY <1>1, GoOnStep DEF ReadRow
<1>2. CASE InsertRow(s)
  <2> DEFINE row == IF account = NoAccount THEN FreshAccount ELSE NoAccount
  <2>1. /\ row \in Account \cup {NoAccount}
        /\ row # NoAccount => Sums(row, 0, 0)
        /\ row = NoAccount => account # NoAccount
    BY FreshSums, AccountAssumption
  <2>2. /\ tx' = [tx EXCEPT ![s] = GoOn(s, "apply", row)] /\ ~RowLocked(s)
        /\ tx[s].pc = "insert" /\ UNCHANGED <<account, rewards, answered>>
    BY <1>2 DEF InsertRow
  <2> HIDE DEF row
  <2>3. QED
    BY <2>1, <2>2, GoOnStep
<1>3. QED
  BY <1>1, <1>2

(* The transaction's row, its own or the committed one, adds up as long as *)
(* it has not been charged or credited.                                    *)
LEMMA RowSums ==
    ASSUME CreditsIInv, NEW s \in Session, tx[s].pc = "apply"
    PROVE  Row(s) \in Account /\ Sums(Row(s), 0, 0)
<1>1. TxInv(s)
  BY DEF CreditsIInv
<1>2. CASE tx[s].row # NoAccount
  <2>1. Given(s) = 0 /\ Spent(s) = 0
    BY DEF Given, Spent
  <2>2. tx[s].row \in Account
    BY <1>2 DEF CreditsIInv, CreditsTypeOK
  <2>3. QED
    BY <1>1, <1>2, <2>1, <2>2 DEF TxInv, Row
<1>3. CASE tx[s].row = NoAccount
  <2>1. account # NoAccount
    BY <1>1, <1>3 DEF TxInv
  <2>2. account \in Account
    BY <2>1 DEF CreditsIInv, CreditsTypeOK
  <2>3. QED
    BY <1>3, <2>1, <2>2 DEF CreditsIInv, AccountInv, Row
<1>4. QED
  BY <1>2, <1>3

(* The answers that write nothing.                                         *)
LEMMA AnswerStep ==
    ASSUME CreditsIInv, NEW s \in Session, Answer(s)
    PROVE  CreditsIInv'
<1>1. tx[s].row # NoAccount => Sums(tx[s].row, 0, 0)
  BY RowSums DEF Answer, Row
<1>2. tx[s].row = NoAccount => account # NoAccount
  BY DEF Answer, CreditsIInv, TxInv
<1>3. tx[s].row \in Account \cup {NoAccount}
  BY DEF CreditsIInv, CreditsTypeOK
<1>4. QED
  BY <1>1, <1>2, <1>3, GoOnStep DEF Answer

(* What the two updates do to a row.                                       *)
LEMMA UpdatedRows ==
    ASSUME NEW row \in Account
    PROVE  /\ row.available > 0 => Consumed(row) \in Account
           /\ Consumed(row).available = row.available - 1
           /\ Consumed(row).used = row.used + 1
           /\ Consumed(row).granted = row.granted
           /\ Granted(row) \in Account
           /\ Granted(row).available = row.available + RewardGrant
           /\ Granted(row).granted = row.granted + RewardGrant
           /\ Granted(row).used = row.used
<1>1. row.available \in Nat /\ row.used \in Nat /\ row.granted \in Nat
  BY DEF Account
<1>2. row.available > 0 => row.available - 1 \in Nat
  BY <1>1
<1>3. row.available + RewardGrant \in Nat /\ row.granted + RewardGrant \in Nat
  BY <1>1, GrantAssumption
<1>4. row.used + 1 \in Nat
  BY <1>1
<1>5. QED
  BY <1>1, <1>2, <1>3, <1>4 DEF Consumed, Granted, Account

(* The guarded UPDATE.                                                     *)
LEMMA ConsumeStep ==
    ASSUME CreditsIInv, NEW s \in Session, Consume(s)
    PROVE  CreditsIInv'
<1>1. CASE Row(s).available > 0
  <2> DEFINE row == Consumed(Row(s))
  <2>1. Row(s) \in Account /\ Sums(Row(s), 0, 0)
    BY RowSums DEF Consume
  <2>2. row \in Account
    BY <1>1, <2>1, UpdatedRows
  <2>3. Sums(row, 0, 1)
    <3>1. /\ row.available = Row(s).available - 1 /\ row.used = Row(s).used + 1
          /\ row.granted = Row(s).granted
      BY <2>1, UpdatedRows
    <3>2. Cardinality(rewards) \in Nat
      BY RewardCount DEF CreditsIInv
    <3>3. answered \in Nat /\ Budget \in Int
      BY <3>2, GrantAssumption DEF CreditsIInv, CreditsTypeOK, Budget
    <3>4. QED
      BY <2>1, <3>1, <3>3 DEF Sums
  <2>4. tx' = [tx EXCEPT ![s] = GoOn(s, "commit", row)] /\ ~RowLocked(s)
    BY <1>1 DEF Consume
  <2>5. row # NoAccount
    BY <2>2, AccountAssumption
  <2> HIDE DEF row
  <2>6. QED
    BY <2>2, <2>3, <2>4, <2>5, GoOnStep DEF Consume
<1>2. CASE ~(Row(s).available > 0)
  BY <1>2, EndStep DEF Consume
<1>3. QED
  BY <1>1, <1>2

(* The grant of a rewarded ad.                                             *)
LEMMA GrantStep ==
    ASSUME CreditsIInv, NEW s \in Session, Grant(s)
    PROVE  CreditsIInv'
<1> DEFINE row == Granted(Row(s))
<1>1. Row(s) \in Account /\ Sums(Row(s), 0, 0)
  BY RowSums DEF Grant
<1>2. row \in Account
  BY <1>1, UpdatedRows
<1>3. Sums(row, RewardGrant, 0)
  <2>1. /\ row.available = Row(s).available + RewardGrant
        /\ row.granted = Row(s).granted + RewardGrant /\ row.used = Row(s).used
    BY <1>1, UpdatedRows
  <2>2. Cardinality(rewards) \in Nat
    BY RewardCount DEF CreditsIInv
  <2>3. answered \in Nat /\ Budget \in Int
    BY <2>2, GrantAssumption DEF CreditsIInv, CreditsTypeOK, Budget
  <2>4. RewardGrant * Cardinality(rewards) \in Int
    BY <2>2, GrantAssumption
  <2>5. QED
    BY <1>1, <2>1, <2>3, <2>4, GrantAssumption DEF Sums
<1>4. row # NoAccount
  BY <1>2, AccountAssumption
<1>5. tx' = [tx EXCEPT ![s] = GoOn(s, "commit", row)] /\ ~RowLocked(s)
  BY DEF Grant
<1> HIDE DEF row
<1>6. QED
  BY <1>2, <1>3, <1>4, <1>5, GoOnStep DEF Grant

(* Committing: what the transaction holds becomes the committed row.       *)
LEMMA CommitStep ==
    ASSUME CreditsIInv, NEW s \in Session, Commit(s)
    PROVE  CreditsIInv'
<1>1. TxInv(s) /\ tx[s] \in TxType /\ tx[s].pc = "commit"
  BY DEF CreditsIInv, CreditsTypeOK, TxType, Commit
<1>2. Row(s) \in Account /\ Sums(Row(s), Given(s), Spent(s))
  <2>1. CASE tx[s].row # NoAccount
    BY <1>1, <2>1 DEF TxInv, Row, TxType
  <2>2. CASE tx[s].row = NoAccount
    <3>1. account # NoAccount /\ Given(s) = 0 /\ Spent(s) = 0
      BY <1>1, <2>2 DEF TxInv, Given, Spent, TxType
    <3>2. QED
      BY <2>2, <3>1 DEF CreditsIInv, CreditsTypeOK, AccountInv, Row
  <2>3. QED
    BY <2>1, <2>2
<1>3. /\ account' = Row(s)
      /\ rewards' = IF tx[s].kind = "reward" THEN rewards \cup {tx[s].event} ELSE rewards
      /\ answered' = answered + Spent(s)
      /\ tx' = [tx EXCEPT ![s] = IdleTx]
  BY <1>1 DEF Commit, Spent, CreditsIInv, CreditsTypeOK
<1>4. /\ IdleTx \in TxType /\ IdleTx.row = NoAccount /\ IdleTx.kind = "none" /\ IdleTx.pc = "idle"
  BY TxFields DEF IdleTx, PC, Kind
<1>5. tx'[s] = IdleTx /\ \A t \in Session \ {s} : tx'[t] = tx[t]
  BY <1>3 DEF CreditsIInv, CreditsTypeOK
<1>6. CreditsTypeOK'
  BY <1>1, <1>2, <1>3, <1>4 DEF CreditsIInv, CreditsTypeOK, TxInv, TxType, Spent
<1>7. /\ Cardinality(rewards) \in Nat /\ Cardinality(rewards') \in Nat
      /\ RewardGrant * Cardinality(rewards') = RewardGrant * Cardinality(rewards) + Given(s)
  <2>1. Cardinality(rewards) \in Nat
    BY RewardCount DEF CreditsIInv
  <2>2. CASE tx[s].kind = "reward"
    <3>1. Cardinality(rewards') = Cardinality(rewards) + 1
      BY <1>1, <1>3, <2>2, RewardCount DEF CreditsIInv, TxInv
    <3>2. QED
      BY <1>1, <2>1, <2>2, <3>1, GrantAssumption DEF Given
  <2>3. CASE tx[s].kind # "reward"
    BY <1>3, <2>1, <2>3, GrantAssumption DEF Given
  <2>4. QED
    BY <2>1, <2>2, <2>3
<1>8. AccountInv'
  <2>1. Budget' = Budget + Given(s)
    BY <1>7, GrantAssumption DEF Budget, Given
  <2>2. Sums(account, 0, 0)'
    BY <1>2, <1>3, <1>7, <2>1, GrantAssumption DEF Sums, Budget, Given, Spent, CreditsIInv, CreditsTypeOK, Account
  <2>3. QED
    BY <1>2, <1>3, <2>2, AccountAssumption DEF AccountInv
<1>9. OneHolder' /\ OneKeyHolder'
  BY <1>4, <1>5 DEF CreditsIInv, OneHolder, OneKeyHolder
<1>10. ASSUME NEW t \in Session PROVE TxInv(t)'
  <2>1. CASE t = s
    BY <1>4, <1>5, <2>1 DEF TxInv
  <2>2. CASE t # s
    <3>1. tx'[t] = tx[t] /\ TxInv(t) /\ Given(t)' = Given(t) /\ Spent(t)' = Spent(t)
      BY <1>5, <2>2 DEF CreditsIInv, Given, Spent
    <3>2. tx[t].kind = "reward" /\ tx[t].pc # "record" => tx[t].event \notin rewards'
      BY <1>1, <1>3, <2>2, <3>1 DEF CreditsIInv, OneKeyHolder, TxInv
    <3>3. account' # NoAccount
      BY <1>2, <1>3, AccountAssumption
    <3>4. tx[t].row # NoAccount => Sums(tx[t].row, Given(t), Spent(t))'
      <4> SUFFICES ASSUME tx[t].row # NoAccount PROVE Sums(tx[t].row, Given(t), Spent(t))'
        OBVIOUS
      <4>1. tx[s].row = NoAccount
        BY <2>2 DEF CreditsIInv, OneHolder
      <4>2. tx[s].kind \notin {"generate", "reward"}
        BY <1>1, <4>1 DEF TxInv
      <4>3. rewards' = rewards /\ answered' = answered
        BY <4>2 DEF Commit
      <4>4. QED
        BY <3>1, <4>3 DEF TxInv, Sums, Budget
    <3>5. QED
      BY <3>1, <3>2, <3>3, <3>4 DEF TxInv
  <2>3. QED
    BY <2>1, <2>2
<1>11. QED
  BY <1>6, <1>8, <1>9, <1>10 DEF CreditsIInv

(* Every step keeps the invariant.                                         *)
LEMMA NextStep == CreditsIInv /\ [CreditsNext]_creditsVars => CreditsIInv'
<1> SUFFICES ASSUME CreditsIInv, [CreditsNext]_creditsVars PROVE CreditsIInv'
  OBVIOUS
<1>1. ASSUME NEW s \in Session, NEW kind \in {"entitlement", "generate"}, Begin(s, kind)
      PROVE CreditsIInv'
  BY <1>1, BeginStep
<1>2. ASSUME NEW s \in Session, NEW e \in AdEvent, Callback(s, e) PROVE CreditsIInv'
  BY <1>2, CallbackStep
<1>3. ASSUME NEW s \in Session, RecordReward(s) PROVE CreditsIInv'
  BY <1>3, RecordRewardStep
<1>4. ASSUME NEW s \in Session, ReadRow(s) \/ InsertRow(s) PROVE CreditsIInv'
  BY <1>4, RowStep
<1>5. ASSUME NEW s \in Session, Answer(s) PROVE CreditsIInv'
  BY <1>5, AnswerStep
<1>6. ASSUME NEW s \in Session, Consume(s) PROVE CreditsIInv'
  BY <1>6, ConsumeStep
<1>7. ASSUME NEW s \in Session, Grant(s) PROVE CreditsIInv'
  BY <1>7, GrantStep
<1>8. ASSUME NEW s \in Session, Commit(s) PROVE CreditsIInv'
  BY <1>8, CommitStep
<1>9. ASSUME NEW s \in Session, Abort(s) PROVE CreditsIInv'
  BY <1>9, EndStep DEF Abort
<1>10. CASE UNCHANGED creditsVars
  BY <1>10 DEF creditsVars, CreditsIInv, CreditsTypeOK, AccountInv, OneHolder, OneKeyHolder, TxInv, Sums, Budget,
               Given, Spent
<1>11. QED
  BY <1>1, <1>2, <1>3, <1>4, <1>5, <1>6, <1>7, <1>8, <1>9, <1>10 DEF CreditsNext

-----------------------------------------------------------------------------

(* The inductive invariant: the row, the ledger and the uncommitted        *)
(* versions of them always add up.                                         *)
THEOREM CreditsInductiveInvariant == CreditsSpec => []CreditsIInv
BY CreditsInitIInv, NextStep, PTL DEF CreditsSpec

(* Rows, ledger and transactions keep their types; in particular the       *)
(* balance never becomes negative.                                         *)
THEOREM CreditsTypeCorrect == CreditsSpec => []CreditsTypeOK
<1>1. CreditsIInv => CreditsTypeOK
  BY DEF CreditsIInv
<1>2. QED
  BY <1>1, CreditsInductiveInvariant, PTL

(* The row always equals what was given minus what was answered.           *)
THEOREM CreditsAreConserved == CreditsSpec => []CreditsAddUp
<1>1. CreditsIInv => CreditsAddUp
  <2> SUFFICES ASSUME CreditsIInv PROVE CreditsAddUp
    OBVIOUS
  <2>1. Cardinality(rewards) \in Nat
    BY RewardCount DEF CreditsIInv
  <2>2. Budget \in Int /\ RewardGrant * Cardinality(rewards) \in Int /\ answered \in Int
    BY <2>1, GrantAssumption DEF Budget, CreditsIInv, CreditsTypeOK
  <2>3. QED
    BY <2>2 DEF CreditsIInv, AccountInv, Sums, CreditsAddUp
<1>2. QED
  BY <1>1, CreditsInductiveInvariant, PTL

(* No user is answered more than the free and the earned predictions.      *)
THEOREM OverspendingIsImpossible == CreditsSpec => []NeverOverspent
<1>1. CreditsIInv => NeverOverspent
  <2> SUFFICES ASSUME CreditsIInv PROVE NeverOverspent
    OBVIOUS
  <2>1. Cardinality(rewards) \in Nat
    BY RewardCount DEF CreditsIInv
  <2>2. Budget \in Nat /\ answered \in Nat
    BY <2>1, GrantAssumption DEF Budget, CreditsIInv, CreditsTypeOK
  <2>3. CASE account = NoAccount
    BY <2>2, <2>3 DEF CreditsIInv, AccountInv, NeverOverspent
  <2>4. CASE account # NoAccount
    <3>1. account.available \in Nat /\ account.available = Budget + 0 - answered - 0
      BY <2>4 DEF CreditsIInv, AccountInv, Sums, CreditsTypeOK, Account
    <3>2. QED
      BY <2>2, <3>1 DEF NeverOverspent
  <2>5. QED
    BY <2>3, <2>4
<1>2. QED
  BY <1>1, CreditsInductiveInvariant, PTL
=============================================================================
