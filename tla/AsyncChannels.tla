----------------------------- MODULE AsyncChannels -----------------------------
(***************************************************************************)
(* What the rollouter and the trainer of the fully asynchronous trainer    *)
(* share: the message queue, the weights loaded in the rollout servers, and*)
(* the trainer's remote call of the rollouter's reset_staleness.           *)
(***************************************************************************)
EXTENDS MessageQueue, FiniteSets

CONSTANTS TotalRolloutSteps,  \* total_rollout_steps: samples the rollouter feeds
          RequiredSamples,    \* required_samples: train points in a batch
          TriggerSync         \* trigger_parameter_sync_step

ASSUME ChannelsAssumption ==
    /\ TotalRolloutSteps \in Nat \ {0}
    /\ RequiredSamples \in Nat \ {0}
    /\ TriggerSync \in Nat \ {0}
    (* max_required_samples = int(required * (threshold + 1) * trigger),   *)
    (* with threshold >= 0, is also the size given to the queue.           *)
    /\ MaxQueueSize >= RequiredSamples * TriggerSync

VARIABLES serverVersion,  \* the parameter version the rollout servers hold
          syncing,        \* the servers are stopped for a weight update
          resetCall       \* "none", "called", "counting" or "returned"

channelVars == <<serverVersion, syncing, resetCall>>

RolloutSamples == 1..TotalRolloutSteps

ChannelsInit ==
    /\ MQInit
    /\ serverVersion = 0
    /\ syncing = FALSE
    /\ resetCall = "none"
===============================================================================
