---- MODULE MCBookingFlows ----
(* One tab of the console, whose user runs flows and sends forms. *)
EXTENDS BookingFlows, TLC

CONSTANTS k1, k2, x1, h1

MCRequests == FlowRequests
MCContinuations == FlowContinuations
MCFields == {"orderId", "queryOrderId", "idempotencyKey", "providerTxnId", "paymentStatus",
             "holdId"}
MCInitialDrafts ==
    [orderId |-> Nil, queryOrderId |-> Nil, idempotencyKey |-> k1, providerTxnId |-> x1,
     paymentStatus |-> "SUCCESS", holdId |-> h1]
MCDraftChoices ==
    [orderId |-> {<<k2, 0>>}, queryOrderId |-> {Nil}, idempotencyKey |-> {k1, k2},
     providerTxnId |-> {x1}, paymentStatus |-> {"SUCCESS"}, holdId |-> {h1}]
====
