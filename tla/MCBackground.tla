---------------------------- MODULE MCBackground ----------------------------
(* Parts of the system that share no state with each other or with the       *)
(* other modules: the run explores them as a disjoint sum.  A part moves     *)
(* only while the others are in their initial states.                        *)
EXTENDS Deliveries, Webhooks, MobileQueue, Realtime, Framing, TLC

CONSTANTS a1, a2, pod1, pod2, s1, s2

\* Two alerts of one position; a stream on each replica, of different tenants.
MCBatch == <<a1, a2>>
MCHome == s1 :> pod1 @@ s2 :> pod2
MCViewer == s1 :> "acme" @@ s2 :> "zeta"

BackgroundTypeOK == DeliveriesTypeOK /\ WebhooksTypeOK /\ MobileTypeOK /\ RealtimeTypeOK /\ FramingTypeOK

vars == <<deliveryVars, hookVars, mobileVars, busVars, conn>>

OnlyDeliveries == WebhooksInit /\ MobileInit /\ RealtimeInit /\ FramingInit /\ UNCHANGED <<hookVars, mobileVars, busVars, conn>>
OnlyWebhooks == DeliveriesInit /\ MobileInit /\ RealtimeInit /\ FramingInit /\ UNCHANGED <<deliveryVars, mobileVars, busVars, conn>>
OnlyMobile == DeliveriesInit /\ WebhooksInit /\ RealtimeInit /\ FramingInit /\ UNCHANGED <<deliveryVars, hookVars, busVars, conn>>
OnlyRealtime == DeliveriesInit /\ WebhooksInit /\ MobileInit /\ FramingInit /\ UNCHANGED <<deliveryVars, hookVars, mobileVars, conn>>
OnlyFraming == DeliveriesInit /\ WebhooksInit /\ MobileInit /\ RealtimeInit /\ UNCHANGED <<deliveryVars, hookVars, mobileVars, busVars>>

Init == DeliveriesInit /\ WebhooksInit /\ MobileInit /\ RealtimeInit /\ FramingInit

Next ==
  \/ OnlyDeliveries /\ DeliveriesNext
  \/ OnlyWebhooks /\ WebhooksNext
  \/ OnlyMobile /\ MobileNext
  \/ OnlyRealtime /\ RealtimeNext
  \/ OnlyFraming /\ FramingNext

\* The backoff ends, and the scheduler runs the retry job again and again.
Fairness ==
  /\ WF_vars(OnlyDeliveries /\ \E a \in Alert : BackoffEnds(a))
  /\ \A r \in Run : WF_vars(OnlyDeliveries /\ Retry(r))

Spec == Init /\ [][Next]_vars /\ Fairness
=============================================================================
