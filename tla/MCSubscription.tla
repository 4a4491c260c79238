--------------------------- MODULE MCSubscription ---------------------------
(* Three plans; one payment announced by two webhook requests. *)
EXTENDS Subscription

MCPlan == <<"free", "starter", "professional">>
MCPaymentOf == [d \in Delivery |-> "pay1"]
MCPaysFor == [r \in Payment |-> "professional"]
=============================================================================
