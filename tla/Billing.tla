-------------------------------- MODULE Billing --------------------------------
(***************************************************************************)
(* Premium: the checkout and the webhook of internal/billing, and the row  *)
(* of one user they write (internal/users/store.go).                       *)
(*                                                                         *)
(* Stripe is the environment.  It numbers the states of subscriptions it   *)
(* tells of: event e is any subscription event, e + 1 a later one.  It     *)
(* delivers an event again until it is answered 200 (and sometimes after   *)
(* that), in any order and several at once.  The number stands for the     *)
(* status, the period's end and the plan derived from it, which the row    *)
(* takes together.  Each step of a handler is one call, to Stripe or to    *)
(* Postgres; the calls of two handlers interleave.                         *)
(***************************************************************************)
EXTENDS Naturals, Sequences

CONSTANTS Tabs,         \* where the user may press "Go Premium" at the same time
          Deliveries,   \* webhook requests handled at the same time
          MaxCustomers, \* bound: customers created at Stripe
          MaxEvents,    \* bound: events Stripe emits
          MaxEffects    \* bound: events applied, again or not

ASSUME BillingAssumption == {MaxCustomers, MaxEvents, MaxEffects} \subseteq Nat

NoCustomer == 0    \* stripe_customer_id is NULL; an event that names no customer
NoEvent    == 0

VARIABLES linked,    \* users.stripe_customer_id
          mirror,    \* the event whose state the row holds
          processed, \* the table stripe_events
          checkout,  \* [Tabs -> where its request is, and for which customer]
          customers, \* customers created at Stripe, numbered in that order
          payers,    \* those a checkout session was opened for: they may subscribe
          ownerOf,   \* the events emitted: the customer each is about
          unanswered,   \* the events Stripe has not been answered 200 for
          delivery,  \* [Deliveries -> where the handler is, and for which event]
          effects    \* history: the events applied (SetSubscription), in order

billingVars == <<linked, mirror, processed, checkout, customers, payers, ownerOf, unanswered,
                 delivery, effects>>
StripeSide == <<ownerOf, unanswered>>
WebhookSide == <<mirror, processed, delivery, effects>>
CheckoutSide == <<linked, checkout, customers, payers>>

Customers == 1..MaxCustomers
Emitted == DOMAIN ownerOf
AppliedEvents == {effects[i] : i \in DOMAIN effects}

Idle == [pc |-> "idle", customer |-> NoCustomer]
NoDelivery == [pc |-> "idle", event |-> NoEvent]

\* What the variables hold; a checkout that is past ensureCustomer, and every
\* session, is for a customer that Stripe knows.
BillingTypeOK ==
    /\ customers \in 0..MaxCustomers
    /\ linked \in 0..customers /\ payers \subseteq 1..customers
    /\ ownerOf \in Seq(0..customers) /\ Len(ownerOf) <= MaxEvents
    /\ checkout \in [Tabs -> [pc : {"idle", "unknown", "created", "known"},
                              customer : 0..customers]]
    /\ \A t \in Tabs : checkout[t].pc \in {"created", "known"} => checkout[t].customer # 0
    /\ processed \subseteq Emitted /\ unanswered \subseteq Emitted
    /\ delivery \in [Deliveries -> [pc : {"idle", "received", "fresh", "applied"},
                                    event : Emitted \cup {NoEvent}]]
    /\ \A d \in Deliveries : delivery[d].pc # "idle" => delivery[d].event \in Emitted
    /\ effects \in Seq(Emitted) /\ Len(effects) <= MaxEffects
    /\ mirror \in AppliedEvents \cup {NoEvent}

BillingInit ==
    /\ linked = NoCustomer /\ mirror = NoEvent /\ processed = {}
    /\ checkout = [t \in Tabs |-> Idle]
    /\ customers = 0 /\ payers = {}
    /\ ownerOf = <<>> /\ unanswered = {}
    /\ delivery = [d \in Deliveries |-> NoDelivery]
    /\ effects = <<>>
------------------------------------------------------------------------------
(***************************************************************************)
(* POST /api/billing/checkout                                              *)
(***************************************************************************)
CheckoutAt(t, place, c) == checkout' = [checkout EXCEPT ![t] = [pc |-> place, customer |-> c]]

\* RequireAuth reads the row: ensureCustomer has only that copy of it.
OpenCheckout(t) ==
    /\ checkout[t].pc = "idle"
    /\ CheckoutAt(t, IF linked = NoCustomer THEN "unknown" ELSE "known", linked)
    /\ UNCHANGED <<linked, customers, payers, WebhookSide, StripeSide>>

\* Stripe.CreateCustomer.
CreateCustomer(t) ==
    /\ checkout[t].pc = "unknown"
    /\ customers < MaxCustomers
    /\ customers' = customers + 1
    /\ CheckoutAt(t, "created", customers + 1)
    /\ UNCHANGED <<linked, payers, WebhookSide, StripeSide>>

\* SetCustomerID: whatever the row holds by now is overwritten.
LinkCustomer(t) ==
    /\ checkout[t].pc = "created"
    /\ linked' = checkout[t].customer
    /\ CheckoutAt(t, "known", checkout[t].customer)
    /\ UNCHANGED <<customers, payers, WebhookSide, StripeSide>>

\* CreateCheckoutSession: from here on the user may pay as that customer.
OpenSession(t) ==
    /\ checkout[t].pc = "known"
    /\ payers' = payers \cup {checkout[t].customer}
    /\ CheckoutAt(t, "idle", NoCustomer)
    /\ UNCHANGED <<linked, customers, WebhookSide, StripeSide>>

\* 502, or the process stops.
CheckoutFailed(t) ==
    /\ checkout[t].pc # "idle"
    /\ CheckoutAt(t, "idle", NoCustomer)
    /\ UNCHANGED <<linked, customers, payers, WebhookSide, StripeSide>>
------------------------------------------------------------------------------
(***************************************************************************)
(* Stripe                                                                  *)
(***************************************************************************)
\* A new state of a payer's subscription, or an event the webhook has no use
\* for: of another type, or naming no customer.
Emit ==
    /\ Len(ownerOf) < MaxEvents
    /\ \E c \in payers \cup {NoCustomer} : ownerOf' = Append(ownerOf, c)
    /\ unanswered' = unanswered \cup {Len(ownerOf) + 1}
    /\ UNCHANGED <<CheckoutSide, WebhookSide>>

Handling(d, place, e) == delivery' = [delivery EXCEPT ![d] = [pc |-> place, event |-> e]]

\* Any event, whether it is the next one or not, answered before or not.
Deliver(d) ==
    /\ delivery[d].pc = "idle"
    /\ \E e \in Emitted : Handling(d, "received", e)
    /\ UNCHANGED <<CheckoutSide, StripeSide, mirror, processed, effects>>

\* The handler is done: Stripe hears its 200, or the answer is lost.
Answered(d) ==
    /\ Handling(d, "idle", NoEvent)
    /\ unanswered' \in {unanswered, unanswered \ {delivery[d].event}}
------------------------------------------------------------------------------
(***************************************************************************)
(* POST /api/billing/webhook                                               *)
(***************************************************************************)
\* Mutant: the event is marked before its effect.
MarkOnLookup(d) ==
    /\ delivery[d].pc = "received"
    /\ IF delivery[d].event \in processed
       THEN Answered(d)
       ELSE Handling(d, "fresh", delivery[d].event) /\ UNCHANGED unanswered
    /\ processed' = processed \cup {delivery[d].event}
    /\ UNCHANGED <<CheckoutSide, ownerOf, mirror, effects>>

\* AlreadyProcessed.
LookupEvent(d) ==
    /\ delivery[d].pc = "received"
    /\ IF delivery[d].event \in processed
       THEN Answered(d)
       ELSE Handling(d, "fresh", delivery[d].event) /\ UNCHANGED unanswered
    /\ UNCHANGED <<CheckoutSide, ownerOf, mirror, processed, effects>>

\* Mutant: the row is found by its user, whose customer may be another by now.
MirrorOfUser(e) == mirror' = e

\* The UPDATE of SetSubscription touches no row when the customer is not linked.
MirrorOf(e) == mirror' = IF ownerOf[e] = linked THEN e ELSE mirror

\* SetSubscription, for an event about a customer's subscription.
ApplyEvent(d) ==
    LET e == delivery[d].event IN
    /\ delivery[d].pc = "fresh"
    /\ \/ /\ ownerOf[e] = NoCustomer
          /\ UNCHANGED <<mirror, effects>>
       \/ /\ ownerOf[e] # NoCustomer
          /\ Len(effects) < MaxEffects
          /\ MirrorOf(e)
          /\ effects' = Append(effects, e)
    /\ Handling(d, "applied", e)
    /\ UNCHANGED <<CheckoutSide, StripeSide, processed>>

\* MarkProcessed, whose failure is only logged; then 200.
MarkEvent(d) ==
    /\ delivery[d].pc = "applied"
    /\ processed' \in {processed, processed \cup {delivery[d].event}}
    /\ Answered(d)
    /\ UNCHANGED <<CheckoutSide, ownerOf, mirror, effects>>

\* 400 or 500, or the process stops.
DeliveryFailed(d) ==
    /\ delivery[d].pc # "idle"
    /\ Handling(d, "idle", NoEvent)
    /\ UNCHANGED <<CheckoutSide, StripeSide, mirror, processed, effects>>
------------------------------------------------------------------------------
Checkout(t) ==
    \/ OpenCheckout(t) \/ CreateCustomer(t) \/ LinkCustomer(t) \/ OpenSession(t)
    \/ CheckoutFailed(t)

Webhook(d) ==
    Deliver(d) \/ LookupEvent(d) \/ ApplyEvent(d) \/ MarkEvent(d) \/ DeliveryFailed(d)

BillingNext ==
    \/ \E t \in Tabs : Checkout(t)
    \/ Emit
    \/ \E d \in Deliveries : Webhook(d)

BillingSpec == BillingInit /\ [][BillingNext]_billingVars
------------------------------------------------------------------------------
(***************************************************************************)
(* Properties                                                              *)
(***************************************************************************)
Of(c) == {e \in Emitted : ownerOf[e] = c}
Newest(e, c) == e \in Of(c) /\ \A f \in Of(c) : f <= e

\* A subscription event that Stripe will not deliver again was applied: no
\* failure, crash, duplicate or lost answer leaves it marked without its effect
\* (the order HandleWebhook chooses, "abonné qui paye sans accès").
NoEventLost ==
    \A e \in Emitted \ unanswered : ownerOf[e] # NoCustomer => e \in AppliedEvents

\* The events of the linked customer were applied in the order of their emission.
InOrder ==
    \A i, j \in DOMAIN effects :
        i < j /\ ownerOf[effects[i]] = linked /\ ownerOf[effects[j]] = linked
            => effects[i] <= effects[j]

\* Once Stripe has been answered for every event, a row whose events came in order
\* (again or not) holds the newest of its customer's, whatever came for another
\* customer and whenever the row was linked.
MirrorSettles ==
    unanswered = {} /\ linked # NoCustomer /\ InOrder /\ Of(linked) # {}
        => Newest(mirror, linked)
=============================================================================
