---- MODULE MCHealthBoard ----
(* Two tabs of the console on the dashboard and on a page with a form. *)
EXTENDS HealthBoard, TLC

CONSTANTS s1, s2, v1, v2

MCServices == <<s1, s2>>
MCContinuations == [at : 0 .. 2, mounted : BOOLEAN]
MCInitialDrafts == [orderId |-> v1]
MCDraftChoices == [orderId |-> {v1, v2}]
====
