------------------------------ MODULE MCPlatform ------------------------------
(***************************************************************************)
(* The components that share no state with the review, the wallet or the    *)
(* engine, nor with each other.  A behaviour is one of them: part says      *)
(* which, and the others stand still, so that they add up and do not        *)
(* multiply.                                                               *)
(***************************************************************************)
EXTENDS GenerationJobs, WebhookDelivery, DeveloperIdeas, DeveloperAccount, Idempotency

VARIABLE part

\* One endpoint takes every event, the other none.
CONSTANT Quiet
Subscriptions == [n \in Endpoints |-> IF n = Quiet THEN {} ELSE Occurrences]

platformVars == <<jobVars, hookVars, ideaVars, devVars, keyVars, part>>

PlatformInit ==
  /\ part \in {"generation", "delivery", "ideas", "account", "idempotency"}
  /\ GenerationInit /\ DeliveryInit /\ IdeasInit /\ AccountInit /\ IdempotencyInit

Generation == /\ part = "generation" /\ GenerationNext
              /\ UNCHANGED <<part, hookVars, ideaVars, devVars, keyVars>>
Delivery == /\ part = "delivery" /\ DeliveryNext
            /\ UNCHANGED <<part, jobVars, ideaVars, devVars, keyVars>>
IdeaDecisions == /\ part = "ideas" /\ IdeasNext
                 /\ UNCHANGED <<part, jobVars, hookVars, devVars, keyVars>>
AccountDecisions == /\ part = "account" /\ AccountNext
                    /\ UNCHANGED <<part, jobVars, hookVars, ideaVars, keyVars>>
Requesting == /\ part = "idempotency" /\ IdempotencyNext
              /\ UNCHANGED <<part, jobVars, hookVars, ideaVars, devVars>>

PlatformNext == Generation \/ Delivery \/ IdeaDecisions \/ AccountDecisions \/ Requesting

\* Workers, the watchdog and Beat go on; people and faults need not.
GenerationGoesOn == /\ part = "generation" /\ GenerationStep
                    /\ UNCHANGED <<part, hookVars, ideaVars, devVars, keyVars>>
DeliveryGoesOn == /\ part = "delivery" /\ DeliveryStep
                  /\ UNCHANGED <<part, jobVars, ideaVars, devVars, keyVars>>

PlatformSpec ==
  /\ PlatformInit /\ [][PlatformNext]_platformVars
  /\ WF_platformVars(GenerationGoesOn) /\ WF_platformVars(DeliveryGoesOn)

\* What was begun comes to an end: no job and no event waits for ever.
WorkSettles == JobEnds /\ EventSettles
=============================================================================
