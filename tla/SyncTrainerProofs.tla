---------------------------- MODULE SyncTrainerProofs ----------------------------
(***************************************************************************)
(* Proofs about SyncTrainer and OneStepOff for every configuration, number *)
(* of steps, batches and crashes: for RayPPOTrainer's fit alone the type   *)
(* invariant, OnPolicy, DeviceFree, EachBatchOnce and SavedInTime, and for *)
(* both trainers these and OneStepAhead.                                   *)
(***************************************************************************)
EXTENDS OneStepOff, FiniteSetTheorems, SequenceTheorems, TLAPS

(* The actor was trained and its weights have not been sent yet.           *)
Unsent == {"savingActor", "savingData", "savingTracker", "updating"}

(* A step was begun and nothing of it is on disk.                          *)
Unsaved == {"generating", "baseline", "training", "savingActor", "savingData", "savingTracker"}

(* The batch handed out last was not trained on yet.                       *)
NotTrained == {"generating", "baseline", "training"}

(* The steps count the batches, and are ahead of the checkpoint.           *)
Ahead ==
    /\ step = data
    /\ phase # "loading" => tracker <= step
    /\ phase \in Unsaved => tracker < step

(* Except while a save or an update is under way, the replicas have the    *)
(* weights of the actor.                                                   *)
Sent == phase \notin Unsent => loaded = actor

(* The configurations in which a generation follows an update have awake   *)
(* replicas wherever a generation may come, and no second generation.      *)
Waking ==
    /\ ~config.freeCache => awake
    /\ GeneratesAwake /\ config.freeCache =>
         /\ phase # "baseline"
         /\ phase \in {"validating", "nextStep", "generating", "stepEnd", "finished"} => awake

(* Where the devices are needed the replicas sleep, and whoever called the *)
(* policy has put them to sleep.                                           *)
Sleeping ==
    config.freeCache /\ (config.twoStage => config.emit) =>
        /\ phase \in {"loading", "validationReward", "training"} \cup Unsent => ~awake
        /\ phase \in {"generating", "baseline"} /\ rounds > 0 => ~awake

(* A single stage calls the policy before it generates the baseline.       *)
Called == phase = "baseline" /\ ~config.twoStage => rounds > 0

(* A batch the reward model judges is not counted yet.                     *)
Judging == phase = "validationReward" => valBatch < ValBatches

(* Trained on batches up to n, in order and on none twice.                 *)
Ordered(trained, n) ==
    /\ \A i, j \in DOMAIN trained : i < j => trained[i] < trained[j]
    /\ \A i \in DOMAIN trained : trained[i] <= n

(* Trained on all batches up to n but those of the critic's warm-up.       *)
Whole(trained, n) ==
    ~config.twoStage =>
        \A b \in 1..n : b >= config.criticWarmup => \E i \in DOMAIN trained : trained[i] = b

Good(trained, n) == Ordered(trained, n) /\ Whole(trained, n)

ActorGood == Good(actor, IF phase \in NotTrained THEN data - 1 ELSE data)

(* What is on disk of the step being saved, and what the tracker names.    *)
DiskGood ==
    /\ phase \in {"savingData", "savingTracker"} => saved[step].actor = actor
    /\ phase = "savingTracker" => saved[step].data = step
    /\ tracker > 0 => saved[tracker].data = tracker /\ Good(saved[tracker].actor, tracker)

IInv ==
    /\ TypeOK /\ Ahead /\ Sent /\ Waking /\ Sleeping /\ Called /\ Judging
    /\ ActorGood /\ DiskGood

-----------------------------------------------------------------------------
(* The fields of a configuration have their types.                         *)
LEMMA ConfigType ==
    ASSUME config \in Configurations
    PROVE  /\ {config.freeCache, config.twoStage, config.emit, config.remax,
               config.rewardModel, config.valBefore} \subseteq BOOLEAN
           /\ {config.criticWarmup, config.saveFreq, config.testFreq} \subseteq Nat
BY SyncTrainerAssumption

(* Nothing was trained on at first.                                        *)
LEMMA NothingTrained ==
    <<>> \in Seq(1..Batches) /\ Good(<<>>, 0)
<1>1. <<>> \in Seq(1..Batches) /\ DOMAIN <<>> = {}
  BY EmptySeq
<1> QED BY <1>1 DEF Good, Ordered, Whole

(* One more batch, later than all the others.                              *)
LEMMA TrainedOnOneMore ==
    ASSUME config.criticWarmup \in Nat, NEW s \in Seq(1..Batches), NEW n \in 1..Batches, Good(s, n - 1)
    PROVE  Append(s, n) \in Seq(1..Batches) /\ Good(Append(s, n), n)
<1> DEFINE t == Append(s, n)
<1>1. /\ t \in Seq(1..Batches) /\ Len(t) = Len(s) + 1 /\ Len(s) \in Nat
      /\ DOMAIN s = 1..Len(s) /\ DOMAIN t = 1..(Len(s) + 1)
      /\ \A i \in 1..Len(s) : t[i] = s[i] /\ s[i] \in 1..Batches
      /\ t[Len(s) + 1] = n
  <2>1. Len(s) \in Nat /\ DOMAIN s = 1..Len(s)
    BY LenProperties
  <2>2. t \in Seq(1..Batches) /\ Len(t) = Len(s) + 1
    BY AppendProperties
  <2>3. DOMAIN t = 1..Len(t)
    BY <2>2, LenProperties
  <2>4. (\A i \in 1..Len(s) : t[i] = s[i]) /\ t[Len(s) + 1] = n
    BY AppendProperties
  <2>5. \A i \in 1..Len(s) : s[i] \in 1..Batches
    BY ElementOfSeq
  <2> QED BY <2>1, <2>2, <2>3, <2>4, <2>5
<1> HIDE DEF t
<1>2. Ordered(t, n)
  <2>1. /\ \A i, j \in 1..Len(s) : i < j => s[i] < s[j]
        /\ \A i \in 1..Len(s) : s[i] <= n - 1
    BY <1>1 DEF Good, Ordered
  <2>2. \A i \in DOMAIN t : i \in 1..Len(s) \/ i = Len(s) + 1
    BY <1>1
  <2>3. n \in Nat /\ n - 1 < n
    BY SyncTrainerAssumption
  <2>4. \A i \in DOMAIN t : t[i] <= n
    BY <1>1, <2>1, <2>2, <2>3
  <2>5. ASSUME NEW i \in DOMAIN t, NEW j \in DOMAIN t, i < j
        PROVE  t[i] < t[j]
    <3>1. i \in 1..Len(s)
      BY <1>1, <2>5
    <3>2. CASE j = Len(s) + 1
      BY <1>1, <2>1, <2>3, <3>1, <3>2
    <3>3. CASE j \in 1..Len(s)
      BY <1>1, <2>1, <2>5, <3>1, <3>3
    <3> QED BY <2>2, <3>2, <3>3
  <2> QED BY <2>4, <2>5 DEF Ordered
<1>3. Whole(t, n)
  <2> SUFFICES ASSUME ~config.twoStage, NEW b \in 1..n, b >= config.criticWarmup
               PROVE  \E i \in DOMAIN t : t[i] = b
    BY DEF Whole
  <2>1. CASE b = n
    BY <1>1, <2>1
  <2>2. CASE b # n
    <3>1. b \in 1..(n - 1)
      BY <2>2, SyncTrainerAssumption
    <3>2. PICK i \in DOMAIN s : s[i] = b
      BY <3>1 DEF Good, Whole
    <3> QED BY <1>1, <3>2
  <2> QED BY <2>1, <2>2
<1> QED BY <1>1, <1>2, <1>3 DEF Good, t

(* A batch of the warm-up may be missing.                                  *)
LEMMA SkippedInWarmup ==
    ASSUME NEW s \in Seq(1..Batches), NEW n \in 1..Batches, Good(s, n - 1),
           config.criticWarmup \in Nat, config.twoStage \/ n < config.criticWarmup
    PROVE  Good(s, n)
<1>1. \A i \in DOMAIN s : s[i] \in 1..Batches
  BY LenProperties, ElementOfSeq
<1>2. Ordered(s, n)
  BY <1>1, SyncTrainerAssumption DEF Good, Ordered
<1>3. Whole(s, n)
  BY SyncTrainerAssumption DEF Good, Whole
<1> QED BY <1>2, <1>3 DEF Good

(* It holds of every first state.                                          *)
LEMMA InitInv == Init => IInv
<1> SUFFICES ASSUME Init PROVE IInv
  OBVIOUS
<1>1. config \in Configurations
  BY DEF Init
<1> USE ConfigType, SyncTrainerAssumption
<1>2. TypeOK
  <2>1. awake \in BOOLEAN /\ stepped \in BOOLEAN
    BY DEF Init
  <2>2. saved \in [1..Batches -> [actor : Seq(1..Batches), data : 0..Batches]]
    BY NothingTrained DEF Init, NoFolder
  <2>3. actor \in Seq(1..Batches) /\ loaded \in Seq(1..Batches)
    BY NothingTrained DEF Init
  <2> QED BY <1>1, <2>1, <2>2, <2>3 DEF Init, TypeOK, Phases
<1>3. Ahead /\ Sent /\ Waking /\ Sleeping /\ Called /\ Judging
  BY <1>1 DEF Init, Ahead, Sent, Waking, Sleeping, Called, Judging, Unsent, Unsaved
<1>4. ActorGood /\ DiskGood
  BY <1>1 DEF Init, ActorGood, DiskGood, Good, Ordered, Whole, NotTrained
<1> QED BY <1>2, <1>3, <1>4 DEF IInv

LEMMA NextInv == IInv /\ [Next]_vars => IInv'
<1> SUFFICES ASSUME IInv, [Next]_vars PROVE IInv'
  OBVIOUS
<1> USE SyncTrainerAssumption
<1>0. /\ TypeOK /\ Ahead /\ Sent /\ Waking /\ Sleeping /\ Called /\ Judging /\ ActorGood /\ DiskGood
      /\ {config.freeCache, config.twoStage, config.emit, config.remax,
          config.rewardModel, config.valBefore} \subseteq BOOLEAN
      /\ {config.criticWarmup, config.saveFreq, config.testFreq} \subseteq Nat
      /\ Batches \in Nat \ {0} /\ MaxRounds \in Nat \ {0} /\ ValBatches \in Nat /\ MaxRestarts \in Nat
  BY ConfigType DEF IInv, TypeOK
<1>1. CASE Load
  <2> USE <1>0, <1>1 DEF Load, UpdateWeights, AfterStep, IsLastStep, replicas, disk
  <2>1. TypeOK'
    <3>1. tracker # 0 => saved[tracker] \in [actor : Seq(1..Batches), data : 0..Batches]
      BY DEF TypeOK
    <3>2. actor' \in Seq(1..Batches) /\ data' \in 0..Batches
      BY <3>1, NothingTrained DEF TypeOK
    <3> QED BY <3>2 DEF TypeOK, Phases
  <2>2. Ahead'
    BY DEF TypeOK, Ahead, Unsaved, DiskGood
  <2>3. Sent' /\ Waking'
    BY DEF Sent, Unsent, Waking, GeneratesAwake, TypeOK, Ahead, Unsaved
  <2>4. Sleeping' /\ Called' /\ Judging'
    BY DEF Sleeping, Called, Judging, Unsent, TypeOK
  <2>5. ActorGood'
    <3>1. Good(actor', data')
      BY NothingTrained DEF TypeOK, DiskGood
    <3> QED BY <3>1 DEF ActorGood, Good, Ordered, Whole, NotTrained
  <2>6. DiskGood'
    BY DEF TypeOK, DiskGood, Good, Ordered, Whole, Ahead, Unsaved
  <2> QED BY <2>1, <2>2, <2>3, <2>4, <2>5, <2>6 DEF IInv
<1>2. CASE ValidateBatch
  <2> USE <1>0, <1>2 DEF ValidateBatch, SleepForReward, Sleep, replicas, disk
  <2>1. TypeOK'
    <3>1. awake' \in BOOLEAN /\ loaded' = loaded
      BY DEF TypeOK
    <3>2. phase' \in Phases
      BY DEF Phases
    <3>3. valBatch' = valBatch \/ valBatch' = valBatch + 1
      OBVIOUS
    <3>4. valBatch' \in 0..ValBatches
      BY <3>3 DEF TypeOK
    <3> QED BY <3>1, <3>2, <3>4 DEF TypeOK
  <2>2. Ahead'
    BY DEF TypeOK, Ahead, Unsaved, DiskGood
  <2>3. Sent' /\ Waking'
    BY DEF Sent, Unsent, Waking, GeneratesAwake, TypeOK, Ahead, Unsaved
  <2>4. Sleeping' /\ Called' /\ Judging'
    BY DEF Sleeping, Called, Judging, Unsent, TypeOK
  <2>5. ActorGood'
    BY DEF TypeOK, ActorGood, Good, Ordered, Whole, NotTrained, Ahead, Unsaved, DiskGood
  <2>6. DiskGood'
    BY DEF TypeOK, DiskGood, Good, Ordered, Whole, Ahead, Unsaved
  <2> QED BY <2>1, <2>2, <2>3, <2>4, <2>5, <2>6 DEF IInv
<1>3. CASE RewardValidation
  <2> USE <1>0, <1>3 DEF RewardValidation, UpdateWeights, replicas, disk
  <2>1. TypeOK'
    BY DEF TypeOK, Phases, Judging
  <2>2. Ahead'
    BY DEF TypeOK, Ahead, Unsaved, DiskGood
  <2>3. Sent' /\ Waking'
    BY DEF Sent, Unsent, Waking, GeneratesAwake, TypeOK, Ahead, Unsaved
  <2>4. Sleeping' /\ Called' /\ Judging'
    BY DEF Sleeping, Called, Judging, Unsent, TypeOK
  <2>5. ActorGood'
    BY DEF TypeOK, ActorGood, Good, Ordered, Whole, NotTrained, Ahead, Unsaved, DiskGood
  <2>6. DiskGood'
    BY DEF TypeOK, DiskGood, Good, Ordered, Whole, Ahead, Unsaved
  <2> QED BY <2>1, <2>2, <2>3, <2>4, <2>5, <2>6 DEF IInv
<1>4. CASE ValidationEnds
  <2> USE <1>0, <1>4 DEF ValidationEnds, AfterStep, IsLastStep, replicas, disk
  <2>1. TypeOK'
    BY DEF TypeOK, Phases, Ahead, Unsaved
  <2>2. Ahead'
    BY DEF TypeOK, Ahead, Unsaved, DiskGood
  <2>3. Sent' /\ Waking'
    BY DEF Sent, Unsent, Waking, GeneratesAwake, TypeOK, Ahead, Unsaved
  <2>4. Sleeping' /\ Called' /\ Judging'
    BY DEF Sleeping, Called, Judging, Unsent, TypeOK
  <2>5. ActorGood'
    BY DEF TypeOK, ActorGood, Good, Ordered, Whole, NotTrained, Ahead, Unsaved, DiskGood
  <2>6. DiskGood'
    BY DEF TypeOK, DiskGood, Good, Ordered, Whole, Ahead, Unsaved
  <2> QED BY <2>1, <2>2, <2>3, <2>4, <2>5, <2>6 DEF IInv
<1>5. CASE NextStep
  <2> USE <1>0, <1>5 DEF NextStep, replicas, disk
  <2>1. TypeOK'
    <3>0. stepped' \in BOOLEAN
      BY Zenon DEF TypeOK
    <3>1. rounds' \in 0..MaxRounds /\ phase' \in Phases
      BY DEF TypeOK, Phases
    <3>2. step' \in 0..Batches /\ data' \in 0..Batches
      BY DEF TypeOK, Ahead
    <3> QED BY <3>0, <3>1, <3>2 DEF TypeOK
  <2>2. Ahead'
    BY DEF TypeOK, Ahead, Unsaved
  <2>3. Sent' /\ Waking'
    BY DEF Sent, Unsent, Waking, GeneratesAwake, TypeOK, Ahead, Unsaved
  <2>4. Sleeping' /\ Called' /\ Judging'
    BY DEF Sleeping, Called, Judging, Unsent, TypeOK
  <2>5. ActorGood'
    <3>1. CASE data >= Batches
      BY <3>1 DEF ActorGood, Good, Ordered, Whole, NotTrained
    <3>2. CASE ~(data >= Batches)
      <4>1. data' - 1 = data
        BY <3>2 DEF TypeOK
      <4> QED BY <3>2, <4>1 DEF ActorGood, Good, Ordered, Whole, NotTrained
    <3> QED BY <3>1, <3>2
  <2>6. DiskGood'
    BY DEF TypeOK, DiskGood, Good, Ordered, Whole, Ahead, Unsaved
  <2> QED BY <2>1, <2>2, <2>3, <2>4, <2>5, <2>6 DEF IInv
<1>6. CASE Generate
  <2> USE <1>0, <1>6 DEF Generate, Sleep, RolloutDone, AfterRollout, replicas, disk
  <2>1. TypeOK'
    BY DEF TypeOK, Phases, Ahead, Unsaved
  <2>2. Ahead'
    BY DEF TypeOK, Ahead, Unsaved, DiskGood
  <2>3. Sent' /\ Waking'
    BY DEF Sent, Unsent, Waking, GeneratesAwake, TypeOK, Ahead, Unsaved
  <2>4. Sleeping' /\ Called' /\ Judging'
    BY DEF Sleeping, Called, Judging, Unsent, TypeOK
  <2>5. ActorGood'
    BY DEF TypeOK, ActorGood, Good, Ordered, Whole, NotTrained, Ahead, Unsaved, DiskGood
  <2>6. DiskGood'
    BY DEF TypeOK, DiskGood, Good, Ordered, Whole, Ahead, Unsaved
  <2> QED BY <2>1, <2>2, <2>3, <2>4, <2>5, <2>6 DEF IInv
<1>7. CASE PolicyRound
  <2> USE <1>0, <1>7 DEF PolicyRound, Sleep, replicas, disk
  <2>1. TypeOK'
    BY DEF TypeOK, Phases, Ahead, Unsaved
  <2>2. Ahead'
    BY DEF TypeOK, Ahead, Unsaved, DiskGood
  <2>3. Sent' /\ Waking'
    BY DEF Sent, Unsent, Waking, GeneratesAwake, TypeOK, Ahead, Unsaved
  <2>4. Sleeping' /\ Called' /\ Judging'
    BY DEF Sleeping, Called, Judging, Unsent, TypeOK
  <2>5. ActorGood'
    BY DEF TypeOK, ActorGood, Good, Ordered, Whole, NotTrained, Ahead, Unsaved, DiskGood
  <2>6. DiskGood'
    BY DEF TypeOK, DiskGood, Good, Ordered, Whole, Ahead, Unsaved
  <2> QED BY <2>1, <2>2, <2>3, <2>4, <2>5, <2>6 DEF IInv
<1>8. CASE BackboneEnds
  <2> USE <1>0, <1>8 DEF BackboneEnds, RolloutDone, AfterRollout, replicas, disk
  <2>1. TypeOK'
    BY DEF TypeOK, Phases, Ahead, Unsaved
  <2>2. Ahead'
    BY DEF TypeOK, Ahead, Unsaved, DiskGood
  <2>3. Sent' /\ Waking'
    BY DEF Sent, Unsent, Waking, GeneratesAwake, TypeOK, Ahead, Unsaved
  <2>4. Sleeping' /\ Called' /\ Judging'
    BY DEF Sleeping, Called, Judging, Unsent, TypeOK
  <2>5. ActorGood'
    BY DEF TypeOK, ActorGood, Good, Ordered, Whole, NotTrained, Ahead, Unsaved, DiskGood
  <2>6. DiskGood'
    BY DEF TypeOK, DiskGood, Good, Ordered, Whole, Ahead, Unsaved
  <2> QED BY <2>1, <2>2, <2>3, <2>4, <2>5, <2>6 DEF IInv
<1>9. CASE Baseline
  <2> USE <1>0, <1>9 DEF Baseline, Sleep, AfterRollout, replicas, disk
  <2>1. TypeOK'
    BY DEF TypeOK, Phases, Ahead, Unsaved
  <2>2. Ahead'
    BY DEF TypeOK, Ahead, Unsaved, DiskGood
  <2>3. Sent' /\ Waking'
    BY DEF Sent, Unsent, Waking, GeneratesAwake, TypeOK, Ahead, Unsaved
  <2>4. Sleeping' /\ Called' /\ Judging'
    BY DEF Sleeping, Called, Judging, Unsent, TypeOK
  <2>5. ActorGood'
    <3>1. CASE phase' \in NotTrained
      BY <3>1 DEF ActorGood, Good, Ordered, Whole, NotTrained
    <3>2. CASE phase' \notin NotTrained
      <4>1. config.twoStage /\ data \in 1..Batches /\ actor \in Seq(1..Batches) /\ Good(actor, data - 1)
        BY <3>2 DEF TypeOK, Ahead, Unsaved, Called, NotTrained, ActorGood
      <4>2. Good(actor, data)
        BY <4>1, SkippedInWarmup
      <4> QED BY <3>2, <4>2 DEF ActorGood, Good, Ordered, Whole
    <3> QED BY <3>1, <3>2
  <2>6. DiskGood'
    BY DEF TypeOK, DiskGood, Good, Ordered, Whole, Ahead, Unsaved
  <2> QED BY <2>1, <2>2, <2>3, <2>4, <2>5, <2>6 DEF IInv
<1>10. CASE Train
  <2> USE <1>0, <1>10 DEF Train, SaveDue, IsLastStep, replicas, disk
  <2>0. data \in 1..Batches /\ actor \in Seq(1..Batches) /\ Good(actor, data - 1)
    BY DEF TypeOK, Ahead, Unsaved, NotTrained, ActorGood
  <2>1. TypeOK'
    <3>1. actor' \in Seq(1..Batches)
      BY <2>0, TrainedOnOneMore
    <3> QED BY <3>1 DEF TypeOK, Phases
  <2>2. Ahead'
    BY DEF TypeOK, Ahead, Unsaved, DiskGood
  <2>3. Sent' /\ Waking'
    BY DEF Sent, Unsent, Waking, GeneratesAwake, TypeOK, Ahead, Unsaved
  <2>4. Sleeping' /\ Called' /\ Judging'
    BY DEF Sleeping, Called, Judging, Unsent, TypeOK
  <2>5. ActorGood'
    <3>1. CASE config.criticWarmup <= step
      <4>1. Good(Append(actor, data), data)
        BY <2>0, TrainedOnOneMore
      <4> QED BY <3>1, <4>1 DEF ActorGood, Good, Ordered, Whole, NotTrained
    <3>2. CASE ~(config.criticWarmup <= step)
      <4>1. Good(actor, data)
        BY <2>0, <3>2, SkippedInWarmup DEF TypeOK, Ahead
      <4> QED BY <3>2, <4>1 DEF ActorGood, Good, Ordered, Whole, NotTrained
    <3> QED BY <3>1, <3>2
  <2>6. DiskGood'
    BY DEF TypeOK, DiskGood, Good, Ordered, Whole, Ahead, Unsaved
  <2> QED BY <2>1, <2>2, <2>3, <2>4, <2>5, <2>6 DEF IInv
<1>11. CASE SaveActor
  <2> USE <1>0, <1>11 DEF SaveActor, replicas, disk
  <2>1. TypeOK'
    BY DEF TypeOK, Phases, Ahead, Unsaved
  <2>2. Ahead'
    BY DEF TypeOK, Ahead, Unsaved, DiskGood
  <2>3. Sent' /\ Waking'
    BY DEF Sent, Unsent, Waking, GeneratesAwake, TypeOK, Ahead, Unsaved
  <2>4. Sleeping' /\ Called' /\ Judging'
    BY DEF Sleeping, Called, Judging, Unsent, TypeOK
  <2>5. ActorGood'
    BY DEF TypeOK, ActorGood, Good, Ordered, Whole, NotTrained, Ahead, Unsaved, DiskGood
  <2>6. DiskGood'
    BY DEF TypeOK, DiskGood, Good, Ordered, Whole, Ahead, Unsaved
  <2> QED BY <2>1, <2>2, <2>3, <2>4, <2>5, <2>6 DEF IInv
<1>12. CASE SaveData
  <2> USE <1>0, <1>12 DEF SaveData, Position, replicas, disk
  <2>1. TypeOK'
    BY DEF TypeOK, Phases, Ahead, Unsaved
  <2>2. Ahead'
    BY DEF TypeOK, Ahead, Unsaved, DiskGood
  <2>3. Sent' /\ Waking'
    BY DEF Sent, Unsent, Waking, GeneratesAwake, TypeOK, Ahead, Unsaved
  <2>4. Sleeping' /\ Called' /\ Judging'
    BY DEF Sleeping, Called, Judging, Unsent, TypeOK
  <2>5. ActorGood'
    BY DEF TypeOK, ActorGood, Good, Ordered, Whole, NotTrained, Ahead, Unsaved, DiskGood
  <2>6. DiskGood'
    BY DEF TypeOK, DiskGood, Good, Ordered, Whole, Ahead, Unsaved
  <2> QED BY <2>1, <2>2, <2>3, <2>4, <2>5, <2>6 DEF IInv
<1>13. CASE SaveTracker
  <2> USE <1>0, <1>13 DEF SaveTracker, AfterSaving, replicas, disk
  <2>1. TypeOK'
    BY DEF TypeOK, Phases, Ahead, Unsaved
  <2>2. Ahead'
    BY DEF TypeOK, Ahead, Unsaved, DiskGood
  <2>3. Sent' /\ Waking'
    BY DEF Sent, Unsent, Waking, GeneratesAwake, TypeOK, Ahead, Unsaved
  <2>4. Sleeping' /\ Called' /\ Judging'
    BY DEF Sleeping, Called, Judging, Unsent, TypeOK
  <2>5. ActorGood'
    BY DEF TypeOK, ActorGood, Good, Ordered, Whole, NotTrained, Ahead, Unsaved, DiskGood
  <2>6. DiskGood'
    <3>1. Good(saved[step].actor, step) /\ saved[step].data = step
      BY DEF DiskGood, ActorGood, Ahead, NotTrained, Unsaved
    <3> QED BY <3>1 DEF DiskGood, Good, Ordered, Whole
  <2> QED BY <2>1, <2>2, <2>3, <2>4, <2>5, <2>6 DEF IInv
<1>14. CASE Update
  <2> USE <1>0, <1>14 DEF Update, UpdateWeights, replicas, disk
  <2>1. TypeOK'
    BY DEF TypeOK, Phases, Ahead, Unsaved
  <2>2. Ahead'
    BY DEF TypeOK, Ahead, Unsaved, DiskGood
  <2>3. Sent' /\ Waking'
    BY DEF Sent, Unsent, Waking, GeneratesAwake, TypeOK, Ahead, Unsaved
  <2>4. Sleeping' /\ Called' /\ Judging'
    BY DEF Sleeping, Called, Judging, Unsent, TypeOK
  <2>5. ActorGood'
    BY DEF TypeOK, ActorGood, Good, Ordered, Whole, NotTrained, Ahead, Unsaved, DiskGood
  <2>6. DiskGood'
    BY DEF TypeOK, DiskGood, Good, Ordered, Whole, Ahead, Unsaved
  <2> QED BY <2>1, <2>2, <2>3, <2>4, <2>5, <2>6 DEF IInv
<1>15. CASE StepEnds
  <2> USE <1>0, <1>15 DEF StepEnds, ShouldValidate, AfterStep, IsLastStep, replicas, disk
  <2>1. TypeOK'
    BY DEF TypeOK, Phases, Ahead, Unsaved
  <2>2. Ahead'
    BY DEF TypeOK, Ahead, Unsaved, DiskGood
  <2>3. Sent' /\ Waking'
    BY DEF Sent, Unsent, Waking, GeneratesAwake, TypeOK, Ahead, Unsaved
  <2>4. Sleeping' /\ Called' /\ Judging'
    BY DEF Sleeping, Called, Judging, Unsent, TypeOK
  <2>5. ActorGood'
    BY DEF TypeOK, ActorGood, Good, Ordered, Whole, NotTrained, Ahead, Unsaved, DiskGood
  <2>6. DiskGood'
    BY DEF TypeOK, DiskGood, Good, Ordered, Whole, Ahead, Unsaved
  <2> QED BY <2>1, <2>2, <2>3, <2>4, <2>5, <2>6 DEF IInv
<1>16. CASE Crash
  <2> USE <1>0, <1>16 DEF Crash, replicas, disk
  <2>1. TypeOK'
    <3>1. awake' \in BOOLEAN
      BY Zenon
    <3>2. actor' \in Seq(1..Batches) /\ loaded' \in Seq(1..Batches)
      BY NothingTrained
    <3>3. restarts' \in 0..MaxRestarts
      BY DEF TypeOK
    <3>4. /\ step' \in 0..Batches /\ data' \in 0..Batches /\ tracker' \in 0..Batches
          /\ rounds' \in 0..MaxRounds /\ valBatch' \in 0..ValBatches
      BY DEF TypeOK
    <3>5. phase' \in Phases /\ stepped' \in BOOLEAN
      BY DEF Phases
    <3> QED BY <3>1, <3>2, <3>3, <3>4, <3>5 DEF TypeOK
  <2>2. Ahead'
    BY DEF TypeOK, Ahead, Unsaved, DiskGood
  <2>3. Sent' /\ Waking'
    BY DEF Sent, Unsent, Waking, GeneratesAwake, TypeOK, Ahead, Unsaved
  <2>4. Sleeping' /\ Called' /\ Judging'
    BY DEF Sleeping, Called, Judging, Unsent, TypeOK
  <2>5. ActorGood'
    BY DEF TypeOK, ActorGood, Good, Ordered, Whole, NotTrained, Ahead, Unsaved, DiskGood
  <2>6. DiskGood'
    BY DEF TypeOK, DiskGood, Good, Ordered, Whole, Ahead, Unsaved
  <2> QED BY <2>1, <2>2, <2>3, <2>4, <2>5, <2>6 DEF IInv
<1>17. CASE UNCHANGED vars
  BY <1>0, <1>17 DEF vars, replicas, disk, IInv, TypeOK, Ahead, Sent, Waking, Sleeping, Called, Judging, ActorGood,
     DiskGood, GeneratesAwake, Good, Ordered, Whole
<1> QED
  BY <1>1, <1>2, <1>3, <1>4, <1>5, <1>6, <1>7, <1>8, <1>9, <1>10, <1>11, <1>12, <1>13, <1>14, <1>15, <1>16, <1>17 DEF Next

-----------------------------------------------------------------------------
(* The strengthening holds in every reachable state.                       *)
THEOREM Invariance == Spec => []IInv
BY InitInv, NextInv, PTL DEF Spec

(* Every variable of a run of fit stays in its type.                       *)
THEOREM TypeCorrect == Spec => []TypeOK
<1>1. IInv => TypeOK
  BY DEF IInv
<1> QED BY Invariance, <1>1, PTL

(* What is generated comes from the newest weights and from replicas that  *)
(* are awake, for any configuration (fit, _validate).                      *)
THEOREM OnPolicyHolds == Spec => []OnPolicy
<1>1. IInv => OnPolicy
  BY DEF IInv, OnPolicy, Sent, Unsent, Waking
<1> QED BY Invariance, <1>1, PTL

(* Replicas sleep wherever the devices are needed (fit, _validate).        *)
THEOREM DeviceFreeHolds == Spec => []DeviceFree
<1>1. IInv => DeviceFree
  BY DEF IInv, DeviceFree, Sleeping, Unsent
<1> QED BY Invariance, <1>1, PTL

(* Each batch is trained on once over any number of crashes and resumes    *)
(* (_save_checkpoint, _load_checkpoint).                                   *)
THEOREM EachBatchOnceHolds == Spec => []EachBatchOnce
<1>1. IInv => EachBatchOnce
  BY DEF IInv, EachBatchOnce, ActorGood, Good, Ordered, Whole, NotTrained
<1> QED BY Invariance, <1>1, PTL
-----------------------------------------------------------------------------
(* The usual trainer saves in time: no batch is trained on during a warm-up *)
(* or a two-stage rollout, and it saves at all.                            *)
SavesOften == ~config.twoStage /\ config.saveFreq > 0 /\ config.criticWarmup <= 1

(* The tracker is not behind the last multiple of the save frequency that  *)
(* is due: with step that one counts once the step's save is decided.      *)
Punctual ==
    SavesOften =>
        /\ phase \in Unsaved => (step - 1) - tracker <= (step - 1) % config.saveFreq
        /\ phase \notin Unsaved \cup {"loading"} =>
              /\ step - tracker <= step % config.saveFreq
              /\ stepped /\ IsLastStep => tracker = step /\ saved[tracker].actor = actor

-----------------------------------------------------------------------------
(* The one-step-off trainer. Before its first step nothing is in flight.   *)
OneStepPhases ==
    {"loading", "validating", "first", "awaiting", "training", "updating", "validated",
     "savingActor", "savingData", "savingTracker", "over", "returned", "raised"}

Starting == phase \in {"loading", "first"} \/ (phase = "validating" /\ ~stepped)

Generation == [number : 0..Batches, weights : Nat, state : {"none", "generating", "done"},
               cut : BOOLEAN]

OneStepType ==
    /\ config \in Configurations /\ Separate /\ awake = TRUE
    /\ phase \in OneStepPhases
    /\ stepped \in BOOLEAN
    /\ phase \in {"loading", "first"} => ~stepped
    /\ phase \notin {"loading", "first", "validating"} => stepped
    /\ step \in Nat /\ data \in 0..Batches
    /\ actor \in Seq(1..Batches) /\ loaded \in Seq(1..Batches)
    /\ saved \in [1..Batches -> [actor : Seq(1..Batches), data : 0..Batches]]
    /\ tracker \in 0..Batches
    /\ restarts \in Nat
    /\ ahead \in Generation /\ batch \in Generation

(* Trained on batches up to n, each later than the one before.             *)
Increasing(s) == \A i, j \in DOMAIN s : i < j => s[i] < s[j]

UpTo(s, n) == \A i \in DOMAIN s : s[i] <= n

(* The batch in flight is the last one handed out and the one trained on   *)
(* comes before it; the actor was trained on batches before both, in order, *)
(* and every step has a batch of its own.                                  *)
InOrder ==
    /\ ahead # Nothing => ahead.state # "none" /\ ahead.number = data /\ data > 0
    /\ Starting => ahead = Nothing
    /\ Increasing(actor) /\ UpTo(actor, data)
    /\ ahead # Nothing => UpTo(actor, data - 1)
    /\ phase = "training" =>
          /\ step <= batch.number /\ batch.number <= data
          /\ ahead # Nothing => batch.number < data
          /\ UpTo(actor, batch.number - 1)

(* The steps are ahead of the checkpoint and behind the batches.           *)
Counted ==
    /\ phase = "loading" => step = 0 /\ data = 0 /\ actor = <<>> /\ loaded = <<>>
    /\ phase # "loading" /\ Starting => step = tracker /\ tracker <= data
    /\ phase \in {"awaiting", "training", "updating", "savingActor", "savingData", "savingTracker"}
          \/ (phase \in {"validating", "validated"} /\ stepped) => tracker < step
    /\ phase = "over" => tracker <= step
    /\ phase = "awaiting" /\ ahead # Nothing => step <= data
    /\ phase \notin {"awaiting", "raised", "returned"} /\ ~Starting =>
          /\ step <= data
          /\ ahead # Nothing => step + 1 <= data

(* Replicas have the weights of the actor, but between its update and      *)
(* theirs; what is generated is at most one training step behind.          *)
Fresh ==
    /\ actor # <<>> => config.criticWarmup <= step
    /\ phase # "updating" \/ ~UpdateDue => loaded = actor
    /\ ahead # Nothing =>
          Len(actor) - ahead.weights <= IF phase = "training" THEN 0 ELSE 1
    /\ phase = "training" => Len(actor) - batch.weights <= 1

(* The numbers up to n that were not trained on.                           *)
Lost(n, trained) == {b \in 1..n : \A i \in DOMAIN trained : trained[i] # b}

Least(a, b) == IF a <= b THEN a ELSE b

(* Restarts that may have cost a batch: the one since the save included    *)
(* once it has happened.                                                   *)
Costs == IF phase = "loading" THEN restarts ELSE restarts + 1

(* What the tracker names.                                                 *)
SavedWell(at, trained, position) ==
    /\ at <= position
    /\ Increasing(trained) /\ UpTo(trained, position)
    /\ trained # <<>> => config.criticWarmup <= at
    /\ position < Least(at + 1, TotalSteps) + Costs
    /\ config.criticWarmup <= 1 => Cardinality(Lost(position, trained)) <= Costs

OnDisk ==
    /\ phase \in {"savingData", "savingTracker"} => saved[step].actor = actor
    /\ phase = "savingTracker" => saved[step].data = data
    /\ tracker > 0 => SavedWell(tracker, saved[tracker].actor, saved[tracker].data)

(* Each restart has cost a batch at most.                                  *)
FewLost ==
    /\ config.criticWarmup <= 1 => Cardinality(Skipped) <= restarts
    /\ Starting => data < Least(step + 1, TotalSteps) + restarts \/ phase = "loading"
    /\ phase = "awaiting" =>
          IF ahead = Nothing THEN data = Batches /\ Batches < TotalSteps + restarts
          ELSE data <= Least(step, TotalSteps) + restarts
    /\ phase \notin {"awaiting", "raised", "returned"} /\ ~Starting =>
          /\ data <= Least(step + 1, TotalSteps) + restarts
          /\ ahead = Nothing /\ ~IsLastStep =>
                data = Batches /\ Batches <= step + restarts
    /\ phase = "raised" => Batches < TotalSteps + restarts

OneStepInv == OneStepType /\ InOrder /\ Counted /\ Fresh /\ OnDisk /\ FewLost

(* One of the two trainers runs, and keeps its own invariant.              *)
TrainersInv ==
    /\ oneStepOff \in BOOLEAN
    /\ ~oneStepOff => IInv /\ Punctual
    /\ oneStepOff => OneStepInv
-----------------------------------------------------------------------------
(* The remainder grows with the number, unless it starts again at zero.    *)
LEMMA NextRemainder ==
    ASSUME NEW n \in Nat, NEW f \in Nat, f > 0
    PROVE  (n + 1) % f # 0 => (n + 1) % f = (n % f) + 1
<1>0. n % f \in 0..f-1 /\ (n+1) % f \in 0..f-1
  OBVIOUS
<1>1. n = f * (n \div f) + (n % f) /\ n + 1 = f * ((n + 1) \div f) + ((n + 1) % f)
  OBVIOUS
<1> DEFINE q == n \div f  r == n % f  p == (n + 1) \div f  s == (n + 1) % f
<1>2. q \in Int /\ r \in 0..f-1 /\ p \in Int /\ s \in 0..f-1 /\ n = f * q + r /\ n + 1 = f * p + s
  BY <1>0, <1>1
<1> HIDE DEF q, r, p, s
<1>3. p = q \/ p <= q - 1 \/ p >= q + 1
  BY <1>2
<1>4. CASE p = q
  BY <1>2, <1>4 DEF r, s
<1>5. CASE p <= q - 1
  <2>1. f * p <= f * (q - 1) /\ f * (q - 1) = f * q - f
    BY <1>2, <1>5
  <2> QED BY <1>2, <2>1
<1>6. CASE p >= q + 1
  <2>1. f * p >= f * (q + 1) /\ f * (q + 1) = f * q + f
    BY <1>2, <1>6
  <2>2. s = 0
    BY <1>2, <2>1
  <2> QED BY <2>2 DEF s
<1> QED BY <1>3, <1>4, <1>5, <1>6

LEMMA InitPunctual == Init => Punctual
BY DEF Init, Punctual, Unsaved

(* Train decides that the step is saved if it is a multiple of the save    *)
(* frequency or the last one; SaveTracker makes it the step the tracker    *)
(* names; NextStep begins one that is not due yet.                         *)
LEMMA NextPunctual ==
    ASSUME IInv, Punctual, [Next]_vars
    PROVE  Punctual'
<1> USE SyncTrainerAssumption
<1>0. /\ TypeOK /\ Ahead /\ Called /\ DiskGood /\ Punctual
      /\ {config.freeCache, config.twoStage, config.emit, config.remax,
          config.rewardModel, config.valBefore} \subseteq BOOLEAN
      /\ {config.criticWarmup, config.saveFreq, config.testFreq} \subseteq Nat
      /\ step \in Nat /\ tracker \in Nat /\ stepped \in BOOLEAN
  BY ConfigType DEF IInv, TypeOK
<1> SUFFICES ASSUME SavesOften, config' = config
             PROVE  Punctual'
  <2>1. config' = config
    BY DEF Next, vars, Load, ValidateBatch, RewardValidation, ValidationEnds, NextStep, Generate, PolicyRound, BackboneEnds, Baseline, Train, SaveActor, SaveData, SaveTracker, Update, StepEnds, Crash
  <2> QED  BY <2>1 DEF Punctual, SavesOften
<1>1. CASE Load
  BY <1>0, <1>1 DEF Load, replicas, disk, UpdateWeights, AfterStep, IsLastStep, Punctual, SavesOften, Unsaved, IsLastStep
<1>2. CASE ValidateBatch
  BY <1>0, <1>2 DEF ValidateBatch, SleepForReward, Sleep, replicas, disk, Punctual, SavesOften, Unsaved, IsLastStep
<1>3. CASE RewardValidation
  BY <1>0, <1>3 DEF RewardValidation, UpdateWeights, disk, Punctual, SavesOften, Unsaved, IsLastStep
<1>4. CASE ValidationEnds
  BY <1>0, <1>4 DEF ValidationEnds, AfterStep, IsLastStep, replicas, disk, Punctual, SavesOften, Unsaved, IsLastStep
<1>5. CASE NextStep
  BY <1>0, <1>5 DEF NextStep, replicas, disk, Punctual, SavesOften, Unsaved, IsLastStep
<1>6. CASE Generate
  BY <1>0, <1>6 DEF Generate, Sleep, RolloutDone, AfterRollout, disk, Punctual, SavesOften, Unsaved, IsLastStep
<1>7. CASE PolicyRound
  BY <1>0, <1>7 DEF PolicyRound, Sleep, disk, Punctual, SavesOften, Unsaved, IsLastStep
<1>8. CASE BackboneEnds
  BY <1>0, <1>8 DEF BackboneEnds, disk, Punctual, SavesOften, Unsaved, IsLastStep
<1>9. CASE Baseline
  BY <1>0, <1>9 DEF Baseline, Sleep, AfterRollout, disk, Called, Punctual, SavesOften, Unsaved, IsLastStep
<1>10. CASE Train
  <2> USE <1>0, <1>10 DEF Train
  <2>1. tracker < step /\ config.criticWarmup <= step
    BY DEF Ahead, Unsaved, SavesOften
  <2>2. CASE phase' \in Unsaved
    BY <2>2 DEF disk, Punctual, Unsaved
  <2>3. CASE phase' \notin Unsaved
    <3>1. phase' = "updating" /\ step % config.saveFreq # 0 /\ ~IsLastStep
      BY <2>1, <2>3 DEF SaveDue, SavesOften, Unsaved
    <3>2. step % config.saveFreq = ((step - 1) % config.saveFreq) + 1
      <4>1. step - 1 \in Nat /\ config.saveFreq \in Nat /\ config.saveFreq > 0 /\ (step - 1) + 1 = step
        BY <2>1 DEF SavesOften
      <4> QED BY <3>1, <4>1, NextRemainder
    <3>3. (step - 1) - tracker <= (step - 1) % config.saveFreq
      BY DEF Punctual, Unsaved
    <3>4. /\ (step - 1) % config.saveFreq \in Int
          /\ step - tracker <= step % config.saveFreq
      BY <3>2, <3>3 DEF SavesOften
    <3> QED BY <3>1, <3>4 DEF disk, Punctual, Unsaved, IsLastStep
  <2> QED BY <2>2, <2>3
<1>11. CASE SaveActor
  BY <1>0, <1>11 DEF SaveActor, disk, Punctual, SavesOften, Unsaved, IsLastStep
<1>12. CASE SaveData
  BY <1>0, <1>12 DEF SaveData, disk, Punctual, SavesOften, Unsaved, IsLastStep
<1>13. CASE SaveTracker
  <2> USE <1>0, <1>13 DEF SaveTracker
  <2>1. step % config.saveFreq >= 0 /\ step - step = 0
    BY DEF SavesOften
  <2>2. saved'[step].actor = actor /\ tracker' = step /\ step' = step /\ actor' = actor
    BY DEF DiskGood
  <2> QED BY <2>1, <2>2 DEF AfterSaving, Punctual, Unsaved, IsLastStep
<1>14. CASE Update
  BY <1>0, <1>14 DEF Update, disk, Punctual, SavesOften, Unsaved, IsLastStep
<1>15. CASE StepEnds
  BY <1>0, <1>15 DEF StepEnds, ShouldValidate, AfterStep, IsLastStep, disk, Punctual, SavesOften, Unsaved, IsLastStep
<1>16. CASE Crash
  BY <1>0, <1>16 DEF Crash, disk, Punctual, SavesOften, Unsaved, IsLastStep
<1>17. CASE UNCHANGED vars
  BY <1>0, <1>17 DEF vars, disk, Punctual, SavesOften, Unsaved, IsLastStep
<1> QED
  BY <1>1, <1>2, <1>3, <1>4, <1>5, <1>6, <1>7, <1>8, <1>9, <1>10, <1>11, <1>12, <1>13, <1>14, <1>15, <1>16, <1>17 DEF Next

-----------------------------------------------------------------------------
(* Both trainers start in their invariants.                                *)
LEMMA LostFinite ==
    ASSUME NEW n \in Nat, NEW trained
    PROVE  IsFiniteSet(Lost(n, trained)) /\ Cardinality(Lost(n, trained)) \in Nat
<1>1. IsFiniteSet(1..n)
  BY FS_Interval
<1>2. Lost(n, trained) \subseteq 1..n
  BY DEF Lost
<1> QED  BY <1>1, <1>2, FS_Subset, FS_CardinalityType

LEMMA FewerAreFewer ==
    ASSUME NEW S, NEW T, IsFiniteSet(S), T \subseteq S
    PROVE  Cardinality(T) <= Cardinality(S) /\ Cardinality(T) \in Nat /\ Cardinality(S) \in Nat
BY FS_Subset, FS_CardinalityType

LEMMA NoneLost == \A trained : Lost(0, trained) = {}
BY DEF Lost

(* What has been skipped is lost, and all that is lost is skipped or in    *)
(* flight or being trained on.                                             *)
LEMMA SkippedLost ==
    ASSUME data \in Nat
    PROVE  /\ Untrained = Lost(data, actor)
           /\ Skipped \subseteq Lost(data, actor)
           /\ IsFiniteSet(Skipped) /\ Cardinality(Skipped) \in Nat
<1>1. Untrained = Lost(data, actor)
  BY DEF Untrained, Lost
<1>2. Skipped \subseteq Lost(data, actor)
  BY <1>1 DEF Skipped
<1>3. IsFiniteSet(Lost(data, actor))
  BY LostFinite
<1>4. IsFiniteSet(Skipped)
  BY <1>2, <1>3, FS_Subset
<1> QED  BY <1>1, <1>2, <1>4, FS_CardinalityType

(* The same for the next state.                                            *)
LEMMA NoMoreSkipped ==
    ASSUME data \in Nat, restarts \in Nat, restarts' = restarts, config' = config,
           config.criticWarmup <= 1 => Cardinality(Skipped) <= restarts,
           config.criticWarmup <= 1 => Skipped' \subseteq Skipped
    PROVE  config'.criticWarmup <= 1 => Cardinality(Skipped') <= restarts'
<1>1. IsFiniteSet(Skipped) /\ Cardinality(Skipped) \in Nat
  BY SkippedLost
<1>2. ASSUME config.criticWarmup <= 1 PROVE Cardinality(Skipped') <= Cardinality(Skipped) /\ Cardinality(Skipped') \in Nat
  BY <1>1, <1>2, FewerAreFewer
<1> QED  BY <1>1, <1>2

(* A checkpoint stays good while the steps and restarts go on.             *)
LEMMA DiskKept ==
    ASSUME OneStepType, OnDisk, config' = config, tracker' = tracker,
           tracker > 0 => saved'[tracker] = saved[tracker],
           Costs \in Nat, Costs' \in Nat, Costs <= Costs'
    PROVE  (tracker > 0 => SavedWell(tracker, saved[tracker].actor, saved[tracker].data))'
<1> SUFFICES ASSUME tracker > 0
             PROVE  SavedWell(tracker, saved[tracker].actor, saved[tracker].data)'
  BY tracker' = tracker
<1>1. SavedWell(tracker, saved[tracker].actor, saved[tracker].data)
  BY DEF OnDisk
<1>2. saved[tracker].data \in Nat /\ tracker \in Nat /\ TotalSteps \in Nat
  BY SyncTrainerAssumption DEF OneStepType
<1>3. Cardinality(Lost(saved[tracker].data, saved[tracker].actor)) \in Nat
  BY <1>2, LostFinite
<1>4. saved'[tracker'] = saved[tracker] /\ tracker' = tracker
  OBVIOUS
<1> QED  BY <1>1, <1>2, <1>3, <1>4 DEF SavedWell, Least

LEMMA NothingInOrder == \A n : Increasing(<<>>) /\ UpTo(<<>>, n)
<1>1. DOMAIN <<>> = {}
  BY EmptySeq
<1> QED  BY <1>1 DEF Increasing, UpTo

LEMMA UpToMore ==
    ASSUME NEW s \in Seq(1..Batches), NEW m \in Int, NEW n \in Int, m <= n, UpTo(s, m)
    PROVE  UpTo(s, n)
<1>1. DOMAIN s = 1..Len(s) /\ \A i \in 1..Len(s) : s[i] \in 1..Batches
  BY LenProperties, ElementOfSeq
<1>2. \A i \in DOMAIN s : s[i] \in Int
  BY <1>1, SyncTrainerAssumption
<1> QED  BY <1>2 DEF UpTo

(* An actor trained on one more batch, later than the others.              *)
LEMMA OneMore ==
    ASSUME NEW s \in Seq(1..Batches), NEW n \in 1..Batches, Increasing(s), UpTo(s, n - 1)
    PROVE  /\ Append(s, n) \in Seq(1..Batches)
           /\ Len(Append(s, n)) = Len(s) + 1 /\ Len(s) \in Nat
           /\ DOMAIN s = 1..Len(s) /\ DOMAIN Append(s, n) = 1..(Len(s) + 1)
           /\ \A i \in 1..Len(s) : Append(s, n)[i] = s[i] /\ s[i] \in 1..Batches
           /\ Append(s, n)[Len(s) + 1] = n
           /\ Increasing(Append(s, n)) /\ UpTo(Append(s, n), n)
<1> USE SyncTrainerAssumption
<1> DEFINE t == Append(s, n)
<1>1. Len(s) \in Nat /\ DOMAIN s = 1..Len(s) /\ \A i \in 1..Len(s) : s[i] \in 1..Batches
  BY LenProperties, ElementOfSeq
<1>2. /\ Append(s, n) \in Seq(1..Batches) /\ Len(Append(s, n)) = Len(s) + 1
      /\ \A i \in 1..Len(s) : Append(s, n)[i] = s[i]
      /\ Append(s, n)[Len(s) + 1] = n
  BY AppendProperties
<1>3. DOMAIN Append(s, n) = 1..Len(Append(s, n))
  BY <1>2, LenProperties
<1>a. t = Append(s, n)
  OBVIOUS
<1> HIDE DEF t
<1> USE <1>a
<1>4. \A i \in 1..Len(s) : t[i] = s[i] /\ s[i] \in 1..Batches /\ s[i] <= n - 1
  BY <1>1, <1>2 DEF UpTo
<1>5. UpTo(t, n)
  <2>1. ASSUME NEW i \in 1..(Len(s) + 1) PROVE t[i] <= n
    <3>1. CASE i \in 1..Len(s)
      BY <1>4, <3>1
    <3>2. CASE i = Len(s) + 1
      BY <1>2, <3>2
    <3> QED  BY <1>1, <3>1, <3>2
  <2> QED  BY <1>2, <1>3, <2>1 DEF UpTo
<1>6. Increasing(t)
  <2>1. ASSUME NEW i \in 1..(Len(s) + 1), NEW j \in 1..(Len(s) + 1), i < j
        PROVE  t[i] < t[j]
    <3>1. i \in 1..Len(s)
      BY <1>1, <2>1
    <3>2. CASE j \in 1..Len(s)
      BY <1>1, <1>4, <2>1, <3>1, <3>2 DEF Increasing
    <3>3. CASE j = Len(s) + 1
      BY <1>2, <1>4, <3>1, <3>3
    <3> QED  BY <1>1, <3>2, <3>3
  <2> QED  BY <1>2, <1>3, <2>1 DEF Increasing
<1> QED  BY <1>1, <1>2, <1>3, <1>5, <1>6

LEMMA InitOneStep ==
    ASSUME Init, Separate, ahead = Nothing, batch = Nothing
    PROVE  OneStepInv
<1> USE SyncTrainerAssumption DEF Init, Separate, Nothing
<1>1. OneStepType
  <2>1. <<>> \in Seq(1..Batches)
    BY NothingTrained
  <2>2. saved \in [1..Batches -> [actor : Seq(1..Batches), data : 0..Batches]]
    BY <2>1 DEF NoFolder
  <2>3. config.freeCache \in BOOLEAN
    BY ConfigType
  <2>4. awake = TRUE
    BY <2>3
  <2>5. Nothing \in Generation
    BY DEF Generation
  <2>6. Separate /\ ahead \in Generation /\ batch \in Generation
    BY <2>5
  <2>7. /\ phase \in OneStepPhases /\ stepped = FALSE
        /\ phase \notin {"loading", "first", "validating"} => stepped
    BY DEF OneStepPhases
  <2>8. /\ step \in Nat /\ data \in 0..Batches /\ tracker \in 0..Batches /\ restarts \in Nat
        /\ actor \in Seq(1..Batches) /\ loaded \in Seq(1..Batches) /\ config \in Configurations
    BY <2>1
  <2> HIDE DEF Init, Separate, Nothing
  <2> QED  BY <2>2, <2>4, <2>6, <2>7, <2>8 DEF OneStepType
<1>2. InOrder /\ Counted
  BY NothingInOrder DEF InOrder, Counted, Starting
<1>3. Fresh /\ OnDisk
  BY DEF Fresh, OnDisk
<1>4. FewLost
  <2>1. Skipped = {}
    BY DEF Skipped, Untrained
  <2>2. Cardinality(Skipped) = 0
    BY <2>1, FS_EmptySet
  <2> QED  BY <2>2 DEF FewLost, Starting
<1> QED  BY <1>1, <1>2, <1>3, <1>4 DEF OneStepInv

(* What every step of the one-step-off trainer may rely on.                *)
Known ==
    /\ OneStepType /\ InOrder /\ Counted /\ Fresh /\ OnDisk /\ FewLost
    /\ config.criticWarmup \in Nat /\ config.saveFreq \in Nat /\ config.testFreq \in Nat
    /\ config.freeCache = FALSE /\ config.twoStage = FALSE /\ config.remax = FALSE
    /\ config.rewardModel = FALSE
    /\ Batches \in Nat \ {0} /\ TotalSteps \in Nat \ {0} /\ MaxRestarts \in Nat
    /\ step \in Nat /\ data \in 0..Batches /\ restarts \in Nat /\ tracker \in 0..Batches
    /\ Len(actor) \in Nat /\ DOMAIN actor = 1..Len(actor)
    /\ \A i \in 1..Len(actor) : actor[i] \in 1..Batches
    /\ ahead.number \in 0..Batches /\ ahead.weights \in Nat
    /\ batch.number \in 0..Batches /\ batch.weights \in Nat
    /\ Costs \in Nat
    /\ Len(loaded) \in Nat
    /\ Nothing \in Generation
    /\ Nothing.number = 0 /\ Nothing.state = "none" /\ Nothing.cut = FALSE
    /\ tracker > 0 => SavedWell(tracker, saved[tracker].actor, saved[tracker].data)

LEMMA OneStepFacts == OneStepInv => Known
<1> SUFFICES ASSUME OneStepInv PROVE Known
  OBVIOUS
<1>1. /\ OneStepType /\ InOrder /\ Counted /\ Fresh /\ OnDisk /\ FewLost
      /\ actor \in Seq(1..Batches) /\ config \in Configurations
      /\ step \in Nat /\ data \in 0..Batches /\ restarts \in Nat /\ tracker \in 0..Batches
  BY DEF OneStepInv, OneStepType
<1>2. /\ config.freeCache \in BOOLEAN /\ config.twoStage \in BOOLEAN /\ config.remax \in BOOLEAN
      /\ config.rewardModel \in BOOLEAN
      /\ config.criticWarmup \in Nat /\ config.saveFreq \in Nat /\ config.testFreq \in Nat
  BY <1>1, ConfigType
<1>3. /\ config.freeCache = FALSE /\ config.twoStage = FALSE /\ config.remax = FALSE
      /\ config.rewardModel = FALSE
  BY <1>1, <1>2 DEF OneStepType, Separate
<1>4. Len(actor) \in Nat /\ DOMAIN actor = 1..Len(actor)
  BY <1>1, LenProperties
<1>5. /\ ahead.number \in 0..Batches /\ ahead.weights \in Nat
      /\ batch.number \in 0..Batches /\ batch.weights \in Nat
  BY <1>1 DEF OneStepType, Generation
<1>6. Costs \in Nat
  BY <1>1 DEF Costs
<1>7. Len(loaded) \in Nat
  BY LenProperties, <1>1 DEF OneStepType
<1>8. /\ Nothing \in Generation
      /\ Nothing.number = 0 /\ Nothing.state = "none" /\ Nothing.cut = FALSE
  BY SyncTrainerAssumption DEF Nothing, Generation
<1>9. tracker > 0 => SavedWell(tracker, saved[tracker].actor, saved[tracker].data)
  BY <1>1 DEF OnDisk
<1>10. Batches \in Nat \ {0} /\ TotalSteps \in Nat \ {0} /\ MaxRestarts \in Nat
  BY SyncTrainerAssumption
<1> QED  BY <1>1, <1>2, <1>3, <1>4, <1>5, <1>6, <1>7, <1>8, <1>9, <1>10 DEF Known

(* Once a step has begun the next state has its types if the variables     *)
(* that change have theirs.                                                *)
LEMMA TypeKept ==
    ASSUME OneStepType, config' = config, awake' = TRUE, restarts' = restarts,
           phase' \in OneStepPhases \ {"loading", "first"}, stepped' = TRUE,
           step' \in Nat, data' \in 0..Batches, tracker' \in 0..Batches,
           actor' \in Seq(1..Batches), loaded' \in Seq(1..Batches),
           saved' \in [1..Batches -> [actor : Seq(1..Batches), data : 0..Batches]],
           ahead' \in Generation, batch' \in Generation
    PROVE  OneStepType'
<1>1. config' \in Configurations /\ Separate' /\ restarts' \in Nat
  BY DEF OneStepType, Separate
<1>2. phase' \in OneStepPhases /\ phase' \notin {"loading", "first"}
  OBVIOUS
<1> QED  BY <1>1, <1>2 DEF OneStepType

LEMMA LoadCheckpointKeeps ==
    ASSUME OneStepInv, LoadCheckpoint
    PROVE  OneStepInv'
<1>0. Known
  BY OneStepFacts
<1> USE <1>0 DEF Known, LoadCheckpoint, UpdateWeights, replicas, disk, pipeline
<1>a. /\ actor' \in Seq(1..Batches) /\ data' \in 0..Batches /\ loaded' \in Seq(1..Batches)
      /\ tracker = 0 => actor' = <<>> /\ data' = 0
      /\ tracker > 0 => actor' = saved[tracker].actor /\ data' = saved[tracker].data
  <2>1. tracker > 0 => saved[tracker].actor \in Seq(1..Batches) /\ saved[tracker].data \in 0..Batches
    BY DEF OneStepType
  <2>2. <<>> \in Seq(1..Batches)
    BY EmptySeq
  <2>3. tracker = 0 \/ tracker > 0
    OBVIOUS
  <2>4. actor' \in Seq(1..Batches) /\ data' \in 0..Batches
    BY <2>1, <2>2, <2>3
  <2>5. loaded' = actor' \/ loaded' = loaded
    OBVIOUS
  <2>6. loaded \in Seq(1..Batches)
    BY DEF OneStepType
  <2> QED  BY <2>3, <2>4, <2>5, <2>6
<1>b. /\ step' = tracker /\ tracker <= data' /\ ~stepped /\ ahead = Nothing
      /\ Increasing(actor') /\ UpTo(actor', data')
      /\ actor' # <<>> => config.criticWarmup <= tracker
      /\ data' < Least(tracker + 1, TotalSteps) + restarts
      /\ config.criticWarmup <= 1 => Cardinality(Lost(data', actor')) <= restarts
  <2>1. ~stepped /\ ahead = Nothing /\ step' = tracker
    BY DEF OneStepType, InOrder, Starting
  <2>2. CASE tracker = 0
    <3>1. actor' = <<>> /\ data' = 0 /\ restarts >= 0 /\ Lost(0, <<>>) = {}
      BY <1>a, <2>2, NoneLost
    <3>2. Cardinality(Lost(0, <<>>)) = 0
      BY <3>1, FS_EmptySet
    <3>3. Least(0 + 1, TotalSteps) = 1
      BY DEF Least
    <3> HIDE <1>0 DEF LoadCheckpoint, Known
    <3>4. restarts \in Nat
      BY <1>0 DEF Known
    <3> QED  BY <2>1, <2>2, <3>1, <3>2, <3>3, <3>4, NothingInOrder
  <2>3. CASE tracker > 0
    <3>1. actor' = saved[tracker].actor /\ data' = saved[tracker].data /\ Costs = restarts
      BY <1>a, <2>3 DEF Costs
    <3>2. SavedWell(tracker, actor', data')
      BY <2>3, <3>1
    <3> HIDE <1>0 DEF LoadCheckpoint, Known
    <3> QED  BY <2>1, <2>3, <3>1, <3>2 DEF SavedWell
  <2>4. tracker = 0 \/ tracker > 0
    OBVIOUS
  <2> QED  BY <2>2, <2>3, <2>4
<1>1. OneStepType'
  <2>1. /\ awake' = TRUE /\ phase' \in OneStepPhases /\ phase' \in {"validating", "first"}
    BY DEF OneStepType, OneStepPhases
  <2>2. /\ config' \in Configurations /\ Separate' /\ stepped' = FALSE
        /\ saved' \in [1..Batches -> [actor : Seq(1..Batches), data : 0..Batches]]
        /\ ahead' \in Generation /\ batch' \in Generation
    BY <1>b DEF OneStepType, Separate
  <2>3. step' \in Nat /\ tracker' \in 0..Batches /\ restarts' \in Nat
    BY <1>b
  <2> HIDE <1>0 DEF Known, LoadCheckpoint
  <2> QED  BY <1>a, <2>1, <2>2, <2>3 DEF OneStepType
<1>2. InOrder'
  BY <1>a, <1>b DEF InOrder
<1>3. Counted'
  BY <1>b DEF Counted, Starting
<1>4. Fresh'
  BY <1>b DEF Fresh, UpdateDue, Counted
<1>5. OnDisk'
  <2>1. (tracker > 0 => SavedWell(tracker, saved[tracker].actor, saved[tracker].data))'
    BY DiskKept DEF Costs
  <2> QED  BY <2>1 DEF OnDisk
<1>6. FewLost'
  <2>1. config.criticWarmup <= 1 => Cardinality(Skipped') <= restarts
    <3>1. Skipped' \subseteq Lost(data', actor')
      BY DEF Skipped, Untrained, Lost
    <3>2. IsFiniteSet(Lost(data', actor'))
      <4>1. data' \in Nat
        BY <1>a
      <4> QED  BY <4>1, LostFinite
    <3>3. Cardinality(Skipped') <= Cardinality(Lost(data', actor')) /\ Cardinality(Skipped') \in Nat
          /\ Cardinality(Lost(data', actor')) \in Nat
      BY <3>1, <3>2, FewerAreFewer
    <3> QED  BY <1>b, <3>3
  <2>2. Starting'
    BY <1>b DEF Starting
  <2> QED  BY <1>b, <2>1, <2>2 DEF FewLost, Starting
<1> QED  BY <1>1, <1>2, <1>3, <1>4, <1>5, <1>6 DEF OneStepInv

LEMMA ValidateBatchKeeps ==
    ASSUME OneStepInv, ValidateBatch /\ UNCHANGED pipeline
    PROVE  OneStepInv'
<1>0. Known
  BY OneStepFacts
<1> USE <1>0 DEF Known, ValidateBatch, replicas, disk, pipeline
<1>1. OneStepType'
  BY DEF OneStepType, OneStepPhases, Generation, Separate
<1>2. InOrder'
  BY DEF InOrder, Starting
<1>3. Counted'
  BY DEF Counted, Starting
<1>4. Fresh'
  BY DEF Fresh, UpdateDue
<1>5. OnDisk'
  <2>1. (tracker > 0 => SavedWell(tracker, saved[tracker].actor, saved[tracker].data))'
    BY DiskKept DEF Costs
  <2> QED  BY <2>1 DEF OnDisk
<1>6. FewLost'
  <2>1. Skipped' \subseteq Skipped
    BY DEF Skipped, Untrained
  <2>2. config'.criticWarmup <= 1 => Cardinality(Skipped') <= restarts'
    BY <2>1, NoMoreSkipped DEF FewLost
  <2> QED  BY <2>2 DEF FewLost, Starting, IsLastStep, Least
<1> QED  BY <1>1, <1>2, <1>3, <1>4, <1>5, <1>6 DEF OneStepInv

LEMMA ValidatedKeeps ==
    ASSUME OneStepInv, Validated
    PROVE  OneStepInv'
<1>0. Known
  BY OneStepFacts
<1> USE <1>0 DEF Known, Validated, replicas, disk, pipeline
<1>1. OneStepType'
  BY DEF OneStepType, OneStepPhases, Generation, Separate
<1>2. InOrder'
  BY DEF InOrder, Starting
<1>3. Counted'
  BY DEF Counted, Starting
<1>4. Fresh'
  BY DEF Fresh, UpdateDue
<1>5. OnDisk'
  <2>1. (tracker > 0 => SavedWell(tracker, saved[tracker].actor, saved[tracker].data))'
    BY DiskKept DEF Costs
  <2> QED  BY <2>1 DEF OnDisk
<1>6. FewLost'
  <2>1. Skipped' \subseteq Skipped
    BY DEF Skipped, Untrained
  <2>2. config'.criticWarmup <= 1 => Cardinality(Skipped') <= restarts'
    BY <2>1, NoMoreSkipped DEF FewLost
  <2> QED  BY <2>2 DEF FewLost, Starting, IsLastStep, Least
<1> QED  BY <1>1, <1>2, <1>3, <1>4, <1>5, <1>6 DEF OneStepInv

LEMMA FirstGenerationKeeps ==
    ASSUME OneStepInv, FirstGeneration
    PROVE  OneStepInv'
<1>0. Known
  BY OneStepFacts
<1> USE <1>0 DEF Known, FirstGeneration, Launch, replicas, disk
<1>a. /\ ahead = Nothing /\ Starting /\ phase # "loading" /\ step = tracker
      /\ phase' = "awaiting" /\ step' = tracker + 1 /\ stepped' = TRUE /\ loaded' = loaded
      /\ tracker <= data /\ loaded = actor
      /\ data < Least(step + 1, TotalSteps) + restarts
  BY DEF InOrder, Starting, Counted, Fresh, FewLost
<1>b. /\ data' \in 0..Batches /\ ahead' \in Generation
      /\ \/ /\ data' = data + 1
            /\ ahead' # Nothing /\ ahead'.number = data + 1
            /\ ahead'.weights = Len(loaded) /\ ahead'.state = "generating"
         \/ /\ data' = data /\ data = Batches /\ ahead' = Nothing
  <2>1. CASE data < Batches
    <3>1. data' = data + 1 /\ ahead' = [number |-> data + 1, weights |-> Len(loaded), state |-> "generating", cut |-> FALSE]
      BY <1>a, <2>1
    <3> QED  BY <2>1, <3>1 DEF Generation
  <2>2. CASE ~(data < Batches)
    BY <2>2
  <2> QED  BY <2>1, <2>2
<1>1. OneStepType'
  <2>1. /\ config' = config /\ awake' = TRUE /\ restarts' = restarts /\ stepped' = TRUE
        /\ phase' \in OneStepPhases \ {"loading", "first"}
    <3>1. config' = config /\ awake' = TRUE /\ restarts' = restarts
      BY DEF OneStepType
    <3> HIDE <1>0 DEF Known, FirstGeneration, Launch
    <3> QED  BY <1>a, <3>1 DEF OneStepPhases
  <2>2. /\ step' \in Nat
        /\ tracker' \in 0..Batches
        /\ actor' \in Seq(1..Batches)
        /\ loaded' \in Seq(1..Batches)
        /\ saved' \in [1..Batches -> [actor : Seq(1..Batches), data : 0..Batches]]
        /\ batch' \in Generation
    BY <1>a, <1>b DEF OneStepType
  <2> HIDE <1>0 DEF Known
  <2> QED  BY <2>1, <2>2, <1>0, <1>a, <1>b, TypeKept DEF Known
<1>2. InOrder'
  <2>1. Increasing(actor) /\ UpTo(actor, data) /\ actor \in Seq(1..Batches)
    BY DEF InOrder, OneStepType
  <2>2. UpTo(actor, data')
    BY <1>b, <2>1, UpToMore
  <2> QED  BY <1>a, <1>b, <2>1, <2>2 DEF InOrder, Starting
<1>3. Counted'
  BY <1>a, <1>b DEF Counted, Starting
<1>4. Fresh'
  BY <1>a, <1>b DEF Fresh, UpdateDue
<1>5. OnDisk'
  <2>1. (tracker > 0 => SavedWell(tracker, saved[tracker].actor, saved[tracker].data))'
    BY DiskKept DEF Costs
  <2> QED  BY <2>1 DEF OnDisk
<1>6. FewLost'
  <2>1. Skipped' \subseteq Skipped
    <3>1. Untrained' \subseteq Untrained \cup {ahead'.number}
      BY <1>b DEF Untrained
    <3>2. Skipped = Untrained \ {0} /\ Skipped' = Untrained' \ {ahead'.number}
      BY <1>a DEF Skipped
    <3>3. 0 \notin Untrained /\ 0 \notin Untrained'
      BY <1>b DEF Untrained
    <3> QED  BY <3>1, <3>2, <3>3
  <2>2. config'.criticWarmup <= 1 => Cardinality(Skipped') <= restarts'
    BY <2>1, NoMoreSkipped DEF FewLost
  <2> QED  BY <1>a, <1>b, <2>2 DEF FewLost, Starting, Least
<1> QED  BY <1>1, <1>2, <1>3, <1>4, <1>5, <1>6 DEF OneStepInv

LEMMA GenerationEndsKeeps ==
    ASSUME OneStepInv, GenerationEnds
    PROVE  OneStepInv'
<1>0. Known
  BY OneStepFacts
<1> USE <1>0 DEF Known, GenerationEnds, vars, replicas, disk
<1>a. /\ ahead # Nothing /\ ahead' # Nothing /\ ahead' \in Generation
      /\ ahead'.number = ahead.number /\ ahead'.weights = ahead.weights /\ ahead'.state = "done"
  BY DEF OneStepType, Generation
<1>1. OneStepType'
  BY <1>a DEF OneStepType, OneStepPhases, Separate
<1>2. InOrder'
  BY <1>a DEF InOrder, Starting
<1>3. Counted'
  BY <1>a DEF Counted, Starting
<1>4. Fresh'
  BY <1>a DEF Fresh, UpdateDue
<1>5. OnDisk'
  <2>1. (tracker > 0 => SavedWell(tracker, saved[tracker].actor, saved[tracker].data))'
    BY DiskKept DEF Costs
  <2> QED  BY <2>1 DEF OnDisk
<1>6. FewLost'
  <2>1. Skipped' \subseteq Skipped
    BY <1>a DEF Skipped, Untrained
  <2>2. config'.criticWarmup <= 1 => Cardinality(Skipped') <= restarts'
    BY <2>1, NoMoreSkipped DEF FewLost
  <2> QED  BY <1>a, <2>2 DEF FewLost, Starting, IsLastStep, Least
<1> QED  BY <1>1, <1>2, <1>3, <1>4, <1>5, <1>6 DEF OneStepInv

LEMMA TakeBatchKeeps ==
    ASSUME OneStepInv, TakeBatch
    PROVE  OneStepInv'
<1>0. Known
  BY OneStepFacts
<1> USE <1>0 DEF Known, TakeBatch, SendWeights, UpdateDue, UpdateWeights, Launch, IsLastStep, replicas, disk
<1>a. /\ ahead # Nothing /\ ahead.number = data /\ data > 0 /\ batch' = ahead /\ phase = "awaiting"
      /\ phase' = "training" /\ stepped /\ step' = step /\ step <= data /\ tracker < step
      /\ loaded' = actor /\ awake' = TRUE
      /\ Increasing(actor) /\ UpTo(actor, data - 1) /\ actor \in Seq(1..Batches)
      /\ Len(actor) - ahead.weights <= 1
      /\ data <= Least(step, TotalSteps) + restarts
  <2>1. ahead # Nothing
    OBVIOUS
  <2>2. loaded' = actor /\ awake' = TRUE
    BY DEF Fresh, OneStepType
  <2> QED  BY <2>1, <2>2 DEF InOrder, Counted, Fresh, FewLost, OneStepType
<1>b. /\ data' \in 0..Batches /\ ahead' \in Generation
      /\ \/ /\ data' = data + 1 /\ step < TotalSteps
            /\ ahead' # Nothing /\ ahead'.number = data + 1
            /\ ahead'.weights = Len(actor) /\ ahead'.state = "generating"
         \/ /\ data' = data /\ ahead' = Nothing
            /\ step >= TotalSteps \/ data = Batches
  <2>1. CASE step < TotalSteps /\ data < Batches
    <3>1. data' = data + 1 /\ ahead' = [number |-> data + 1, weights |-> Len(actor), state |-> "generating", cut |-> FALSE]
      BY <1>a, <2>1
    <3> QED  BY <2>1, <3>1 DEF Generation
  <2>2. CASE step < TotalSteps /\ ~(data < Batches)
    BY <2>2
  <2>3. CASE step >= TotalSteps
    BY <2>3
  <2> QED  BY <2>1, <2>2, <2>3
<1>1. OneStepType'
  <2>1. /\ config' = config /\ awake' = TRUE /\ restarts' = restarts /\ stepped' = TRUE
        /\ phase' \in OneStepPhases \ {"loading", "first"}
    BY <1>a, <1>b DEF OneStepType, OneStepPhases
  <2>2. /\ step' \in Nat
        /\ tracker' \in 0..Batches
        /\ actor' \in Seq(1..Batches)
        /\ loaded' \in Seq(1..Batches)
        /\ saved' \in [1..Batches -> [actor : Seq(1..Batches), data : 0..Batches]]
        /\ batch' \in Generation
    BY <1>a, <1>b DEF OneStepType
  <2> HIDE <1>0 DEF Known
  <2> QED  BY <2>1, <2>2, <1>0, <1>a, <1>b, TypeKept DEF Known
<1>2. InOrder'
  <2>1. UpTo(actor, data') /\ (ahead' # Nothing => UpTo(actor, data' - 1))
    BY <1>a, <1>b, UpToMore
  <2> QED  BY <1>a, <1>b, <2>1 DEF InOrder, Starting
<1>3. Counted'
  BY <1>a, <1>b DEF Counted, Starting
<1>4. Fresh'
  BY <1>a, <1>b DEF Fresh, UpdateDue
<1>5. OnDisk'
  <2>1. (tracker > 0 => SavedWell(tracker, saved[tracker].actor, saved[tracker].data))'
    BY DiskKept DEF Costs
  <2> QED  BY <2>1 DEF OnDisk
<1>6. FewLost'
  <2>1. Skipped' \subseteq Skipped
    <3>1. Untrained' \subseteq Untrained \cup {ahead'.number}
      BY <1>b DEF Untrained
    <3>2. Skipped = Untrained \ {ahead.number} /\ Skipped' = Untrained' \ {ahead'.number, ahead.number}
      BY <1>a DEF Skipped
    <3>3. 0 \notin Untrained'
      BY DEF Untrained
    <3> QED  BY <3>1, <3>2, <3>3
  <2>2. config'.criticWarmup <= 1 => Cardinality(Skipped') <= restarts'
    BY <2>1, NoMoreSkipped DEF FewLost
  <2> QED  BY <1>a, <1>b, <2>2 DEF FewLost, Starting, IsLastStep, Least
<1> QED  BY <1>1, <1>2, <1>3, <1>4, <1>5, <1>6 DEF OneStepInv

LEMMA NoBatchKeeps ==
    ASSUME OneStepInv, NoBatch
    PROVE  OneStepInv'
<1>0. Known
  BY OneStepFacts
<1> USE <1>0 DEF Known, NoBatch, replicas, disk, pipeline
<1>1. OneStepType'
  <2>1. /\ config' = config /\ awake' = TRUE /\ restarts' = restarts /\ stepped' = TRUE
        /\ phase' \in OneStepPhases \ {"loading", "first"}
    BY DEF OneStepType, OneStepPhases
  <2>2. /\ step' \in Nat
        /\ data' \in 0..Batches
        /\ tracker' \in 0..Batches
        /\ actor' \in Seq(1..Batches)
        /\ loaded' \in Seq(1..Batches)
        /\ saved' \in [1..Batches -> [actor : Seq(1..Batches), data : 0..Batches]]
        /\ ahead' \in Generation
        /\ batch' \in Generation
    BY DEF OneStepType
  <2> HIDE <1>0 DEF Known
  <2> QED  BY <2>1, <2>2, <1>0, TypeKept DEF Known
<1>2. InOrder'
  BY DEF InOrder, Starting
<1>3. Counted'
  BY DEF Counted, Starting
<1>4. Fresh'
  BY DEF Fresh, UpdateDue
<1>5. OnDisk'
  <2>1. (tracker > 0 => SavedWell(tracker, saved[tracker].actor, saved[tracker].data))'
    BY DiskKept DEF Costs
  <2> QED  BY <2>1 DEF OnDisk
<1>6. FewLost'
  <2>1. Skipped' \subseteq Skipped
    BY DEF Skipped, Untrained
  <2>2. config'.criticWarmup <= 1 => Cardinality(Skipped') <= restarts'
    BY <2>1, NoMoreSkipped DEF FewLost
  <2> QED  BY <2>2 DEF FewLost, Starting, IsLastStep, Least
<1> QED  BY <1>1, <1>2, <1>3, <1>4, <1>5, <1>6 DEF OneStepInv

LEMMA UpdateActorKeeps ==
    ASSUME OneStepInv, UpdateActor
    PROVE  OneStepInv'
<1>0. Known
  BY OneStepFacts
<1> USE <1>0 DEF Known, UpdateActor, replicas, disk, pipeline
<1>a. /\ phase = "training" /\ phase' = "updating" /\ stepped /\ actor \in Seq(1..Batches)
      /\ step <= batch.number /\ batch.number \in 1..Batches /\ batch.number <= data /\ step' = step
      /\ ahead # Nothing => batch.number <= data - 1
      /\ Increasing(actor) /\ UpTo(actor, batch.number - 1) /\ UpTo(actor, data)
      /\ ahead # Nothing => UpTo(actor, data - 1)
      /\ tracker < step
  <2>1. phase = "training" /\ phase' = "updating" /\ stepped /\ actor \in Seq(1..Batches) /\ step' = step
    BY DEF OneStepType
  <2>2. /\ step <= batch.number /\ batch.number <= data /\ tracker < step
        /\ ahead # Nothing => batch.number < data
    BY DEF InOrder, Counted
  <2>3. /\ Increasing(actor) /\ UpTo(actor, batch.number - 1) /\ UpTo(actor, data)
        /\ ahead # Nothing => UpTo(actor, data - 1)
    BY DEF InOrder
  <2> QED  BY <2>1, <2>2, <2>3
<1>b. /\ actor' \in Seq(1..Batches) /\ Len(actor') \in Nat
      /\ Increasing(actor') /\ UpTo(actor', data)
      /\ ahead # Nothing => UpTo(actor', data - 1)
      /\ Len(actor') <= Len(actor) + 1
      /\ config.criticWarmup <= step => batch.number \in {actor'[i] : i \in DOMAIN actor'}
      /\ {actor[i] : i \in DOMAIN actor} \subseteq {actor'[i] : i \in DOMAIN actor'}
  <2>1. CASE config.criticWarmup <= step
    <3>1. /\ actor' = Append(actor, batch.number)
          /\ Append(actor, batch.number) \in Seq(1..Batches)
          /\ Len(Append(actor, batch.number)) = Len(actor) + 1
          /\ DOMAIN actor = 1..Len(actor) /\ DOMAIN Append(actor, batch.number) = 1..(Len(actor) + 1)
          /\ \A i \in 1..Len(actor) : Append(actor, batch.number)[i] = actor[i]
          /\ Append(actor, batch.number)[Len(actor) + 1] = batch.number
          /\ Increasing(Append(actor, batch.number)) /\ UpTo(Append(actor, batch.number), batch.number)
      BY <1>a, <2>1, OneMore
    <3>2. UpTo(actor', data) /\ (ahead # Nothing => UpTo(actor', data - 1))
      <4>1. actor' \in Seq(1..Batches) /\ UpTo(actor', batch.number)
        BY <3>1
      <4>2. batch.number \in Int /\ data \in Int /\ data - 1 \in Int
        BY <1>a
      <4> QED  BY <1>a, <4>1, <4>2, UpToMore
    <3>3. batch.number \in {actor'[i] : i \in DOMAIN actor'}
      <4>1. Len(actor) + 1 \in DOMAIN actor' /\ actor'[Len(actor) + 1] = batch.number
        BY <3>1
      <4> QED  BY <4>1
    <3>4. {actor[i] : i \in DOMAIN actor} \subseteq {actor'[i] : i \in DOMAIN actor'}
      BY <3>1
    <3>5. actor' \in Seq(1..Batches) /\ Len(actor') = Len(actor) + 1 /\ Increasing(actor')
      BY <3>1
    <3>6. Len(actor') \in Nat /\ Len(actor') <= Len(actor) + 1
      BY <3>5
    <3> HIDE <1>0 DEF Known, UpdateActor
    <3> QED  BY <3>2, <3>3, <3>4, <3>5, <3>6
  <2>2. CASE ~(config.criticWarmup <= step)
    BY <1>a, <2>2
  <2> QED  BY <2>1, <2>2
<1>1. OneStepType'
  <2>1. /\ config' = config /\ awake' = TRUE /\ restarts' = restarts /\ stepped' = TRUE
        /\ phase' \in OneStepPhases \ {"loading", "first"}
    BY <1>a, <1>b DEF OneStepType, OneStepPhases
  <2>2. /\ step' \in Nat
        /\ data' \in 0..Batches
        /\ tracker' \in 0..Batches
        /\ loaded' \in Seq(1..Batches)
        /\ saved' \in [1..Batches -> [actor : Seq(1..Batches), data : 0..Batches]]
        /\ ahead' \in Generation
        /\ batch' \in Generation
    BY <1>a, <1>b DEF OneStepType
  <2> HIDE <1>0 DEF Known
  <2> QED  BY <2>1, <2>2, <1>0, <1>a, <1>b, TypeKept DEF Known
<1>2. InOrder'
  BY <1>a, <1>b DEF InOrder, Starting
<1>3. Counted'
  BY <1>a DEF Counted, Starting
<1>4. Fresh'
  <2>1. /\ loaded = actor /\ phase' = "updating"
        /\ actor # <<>> => config.criticWarmup <= step
        /\ ahead # Nothing => Len(actor) - ahead.weights <= 0
    BY <1>a DEF Fresh
  <2>2. ahead' = ahead /\ loaded' = loaded /\ config' = config /\ step' = step
    OBVIOUS
  <2>3. ~(config.criticWarmup <= step) => actor' = actor
    OBVIOUS
  <2>4. ahead # Nothing => Len(actor') - ahead.weights <= 1
    BY <1>b, <2>1
  <2> HIDE <1>0 DEF Known, UpdateActor
  <2> QED  BY <2>1, <2>2, <2>3, <2>4 DEF Fresh, UpdateDue
<1>5. OnDisk'
  <2>1. (tracker > 0 => SavedWell(tracker, saved[tracker].actor, saved[tracker].data))'
    BY DiskKept DEF Costs
  <2> QED  BY <2>1 DEF OnDisk
<1>6. FewLost'
  <2>1. config.criticWarmup <= 1 => Skipped' \subseteq Skipped
    <3> SUFFICES ASSUME config.criticWarmup <= 1 PROVE Skipped' \subseteq Skipped
      OBVIOUS
    <3>1. config.criticWarmup <= step
      BY <1>a
    <3>2. /\ Untrained = {n \in 1..data : n \notin {actor[i] : i \in DOMAIN actor}}
          /\ Untrained' = {n \in 1..data : n \notin {actor'[i] : i \in DOMAIN actor'}}
      BY DEF Untrained
    <3>3. Untrained' \subseteq Untrained \ {batch.number}
      BY <1>b, <3>1, <3>2
    <3>4. Skipped = Untrained \ {ahead.number, batch.number} /\ Skipped' = Untrained' \ {ahead.number}
      BY <1>a DEF Skipped
    <3> QED  BY <3>3, <3>4
  <2>2. config'.criticWarmup <= 1 => Cardinality(Skipped') <= restarts'
    BY <2>1, NoMoreSkipped DEF FewLost
  <2> QED  BY <1>a, <2>2 DEF FewLost, Starting, IsLastStep, Least
<1> QED  BY <1>1, <1>2, <1>3, <1>4, <1>5, <1>6 DEF OneStepInv

LEMMA UpdateReplicasKeeps ==
    ASSUME OneStepInv, UpdateReplicas
    PROVE  OneStepInv'
<1>0. Known
  BY OneStepFacts
<1> USE <1>0 DEF Known, UpdateReplicas, SendWeights, UpdateDue, UpdateWeights, replicas, disk
<1>a. /\ phase = "updating" /\ phase' \in {"validating", "validated"} /\ stepped
      /\ loaded' = actor /\ awake' = TRUE /\ loaded' \in Seq(1..Batches)
      /\ ahead' \in Generation /\ (ahead' = Nothing <=> ahead = Nothing)
      /\ ahead'.number = ahead.number /\ ahead'.weights = ahead.weights /\ ahead'.state = ahead.state
  <2>1. /\ phase = "updating" /\ phase' \in {"validating", "validated"} /\ stepped
    BY DEF OneStepType
  <2>2. loaded' = actor /\ awake' = TRUE /\ actor \in Seq(1..Batches)
    BY DEF Fresh, OneStepType
  <2>3. ahead \in Generation
    BY DEF OneStepType
  <2>4. /\ ahead'.number = ahead.number /\ ahead'.weights = ahead.weights /\ ahead'.state = ahead.state
        /\ ahead' \in Generation
    BY <2>3 DEF Generation
  <2>5. ahead' = Nothing <=> ahead = Nothing
    <3>1. CASE ahead = Nothing
      BY <3>1 DEF Nothing
    <3>2. CASE ahead # Nothing
      BY <2>4, <3>2 DEF InOrder
    <3> QED  BY <3>1, <3>2
  <2> QED  BY <2>1, <2>2, <2>4, <2>5
<1>1. OneStepType'
  <2>1. /\ config' = config /\ awake' = TRUE /\ restarts' = restarts /\ stepped' = TRUE
        /\ phase' \in OneStepPhases \ {"loading", "first"}
    BY <1>a DEF OneStepType, OneStepPhases
  <2>2. /\ step' \in Nat
        /\ data' \in 0..Batches
        /\ tracker' \in 0..Batches
        /\ actor' \in Seq(1..Batches)
        /\ saved' \in [1..Batches -> [actor : Seq(1..Batches), data : 0..Batches]]
        /\ batch' \in Generation
    BY <1>a DEF OneStepType
  <2> HIDE <1>0 DEF Known
  <2> QED  BY <2>1, <2>2, <1>0, <1>a, TypeKept DEF Known
<1>2. InOrder'
  BY <1>a DEF InOrder, Starting
<1>3. Counted'
  BY <1>a DEF Counted, Starting
<1>4. Fresh'
  BY <1>a DEF Fresh, UpdateDue
<1>5. OnDisk'
  <2>1. (tracker > 0 => SavedWell(tracker, saved[tracker].actor, saved[tracker].data))'
    BY DiskKept DEF Costs
  <2> QED  BY <2>1 DEF OnDisk
<1>6. FewLost'
  <2>1. Skipped' \subseteq Skipped
    BY <1>a DEF Skipped, Untrained
  <2>2. config'.criticWarmup <= 1 => Cardinality(Skipped') <= restarts'
    BY <2>1, NoMoreSkipped DEF FewLost
  <2> QED  BY <1>a, <2>2 DEF FewLost, Starting, IsLastStep, Least
<1> QED  BY <1>1, <1>2, <1>3, <1>4, <1>5, <1>6 DEF OneStepInv

LEMMA DecideToSaveKeeps ==
    ASSUME OneStepInv, DecideToSave
    PROVE  OneStepInv'
<1>0. Known
  BY OneStepFacts
<1> USE <1>0 DEF Known, DecideToSave, replicas, disk, pipeline
<1>1. OneStepType'
  <2>1. /\ config' = config /\ awake' = TRUE /\ restarts' = restarts /\ stepped' = TRUE
        /\ phase' \in OneStepPhases \ {"loading", "first"}
    BY DEF OneStepType, OneStepPhases
  <2>2. /\ step' \in Nat
        /\ data' \in 0..Batches
        /\ tracker' \in 0..Batches
        /\ actor' \in Seq(1..Batches)
        /\ loaded' \in Seq(1..Batches)
        /\ saved' \in [1..Batches -> [actor : Seq(1..Batches), data : 0..Batches]]
        /\ ahead' \in Generation
        /\ batch' \in Generation
    BY DEF OneStepType
  <2> HIDE <1>0 DEF Known
  <2> QED  BY <2>1, <2>2, <1>0, TypeKept DEF Known
<1>2. InOrder'
  BY DEF InOrder, Starting
<1>3. Counted'
  <2>1. stepped /\ phase' \in {"savingActor", "over"}
    BY DEF OneStepType
  <2> QED  BY <2>1 DEF Counted, Starting
<1>4. Fresh'
  BY DEF Fresh, UpdateDue
<1>5. OnDisk'
  <2>1. (tracker > 0 => SavedWell(tracker, saved[tracker].actor, saved[tracker].data))'
    BY DiskKept DEF Costs
  <2> QED  BY <2>1 DEF OnDisk
<1>6. FewLost'
  <2>1. Skipped' \subseteq Skipped
    BY DEF Skipped, Untrained
  <2>2. config'.criticWarmup <= 1 => Cardinality(Skipped') <= restarts'
    BY <2>1, NoMoreSkipped DEF FewLost
  <2> QED  BY <2>2 DEF FewLost, Starting, IsLastStep, Least
<1> QED  BY <1>1, <1>2, <1>3, <1>4, <1>5, <1>6 DEF OneStepInv

LEMMA SaveActorKeeps ==
    ASSUME OneStepInv, SaveActor /\ UNCHANGED pipeline
    PROVE  OneStepInv'
<1>0. Known
  BY OneStepFacts
<1> USE <1>0 DEF Known, SaveActor, replicas, pipeline
<1>a. tracker < step /\ step \in 1..Batches /\ stepped /\ actor \in Seq(1..Batches)
      /\ saved[step] \in [actor : Seq(1..Batches), data : 0..Batches]
  <2>1. tracker < step /\ step <= data /\ stepped /\ actor \in Seq(1..Batches)
    BY DEF Counted, Starting, OneStepType
  <2>2. step \in 1..Batches
    BY <2>1
  <2>3. saved \in [1..Batches -> [actor : Seq(1..Batches), data : 0..Batches]]
    BY DEF OneStepType
  <2> HIDE <1>0 DEF Known, SaveActor, SaveData
  <2>4. saved[step] \in [actor : Seq(1..Batches), data : 0..Batches]
    BY <2>2, <2>3
  <2> QED  BY <2>1, <2>2, <2>4
<1>1. OneStepType'
  <2>1. saved' \in [1..Batches -> [actor : Seq(1..Batches), data : 0..Batches]]
    <3>1. /\ saved \in [1..Batches -> [actor : Seq(1..Batches), data : 0..Batches]]
          /\ saved' = [saved EXCEPT ![step].actor = actor] /\ actor \in Seq(1..Batches)
      BY <1>a DEF OneStepType
    <3> HIDE <1>0 DEF Known, SaveActor, Position
    <3> QED  BY <1>a, <3>1
  <2>2. /\ config' = config /\ awake' = TRUE /\ restarts' = restarts /\ stepped' = TRUE
        /\ phase' \in OneStepPhases \ {"loading", "first"}
    BY <1>a DEF OneStepType, OneStepPhases
  <2>3. /\ step' \in Nat
        /\ data' \in 0..Batches
        /\ tracker' \in 0..Batches
        /\ actor' \in Seq(1..Batches)
        /\ loaded' \in Seq(1..Batches)
        /\ ahead' \in Generation
        /\ batch' \in Generation
    BY <1>a DEF OneStepType
  <2> HIDE <1>0 DEF Known
  <2> QED  BY <2>1, <2>2, <2>3, <1>0, <1>a, TypeKept DEF Known
<1>2. InOrder'
  BY DEF InOrder, Starting
<1>3. Counted'
  BY DEF Counted, Starting
<1>4. Fresh'
  BY DEF Fresh, UpdateDue
<1>5. OnDisk'
  <2>1. saved'[tracker] = saved[tracker] /\ saved'[step].actor = actor
    BY <1>a DEF OneStepType
  <2>2. (tracker > 0 => SavedWell(tracker, saved[tracker].actor, saved[tracker].data))'
    BY <2>1, DiskKept DEF Costs
  <2> QED  BY <2>1, <2>2 DEF OnDisk
<1>6. FewLost'
  <2>1. Skipped' \subseteq Skipped
    BY DEF Skipped, Untrained
  <2>2. config'.criticWarmup <= 1 => Cardinality(Skipped') <= restarts'
    BY <2>1, NoMoreSkipped DEF FewLost
  <2> QED  BY <2>2 DEF FewLost, Starting, IsLastStep, Least
<1> QED  BY <1>1, <1>2, <1>3, <1>4, <1>5, <1>6 DEF OneStepInv

LEMMA SaveDataKeeps ==
    ASSUME OneStepInv, SaveData /\ UNCHANGED pipeline
    PROVE  OneStepInv'
<1>0. Known
  BY OneStepFacts
<1> USE <1>0 DEF Known, SaveData, Position, replicas, pipeline
<1>a. tracker < step /\ step \in 1..Batches /\ stepped /\ actor \in Seq(1..Batches)
      /\ saved[step] \in [actor : Seq(1..Batches), data : 0..Batches]
  <2>1. tracker < step /\ step <= data /\ stepped /\ actor \in Seq(1..Batches)
    BY DEF Counted, Starting, OneStepType
  <2>2. step \in 1..Batches
    BY <2>1
  <2>3. saved \in [1..Batches -> [actor : Seq(1..Batches), data : 0..Batches]]
    BY DEF OneStepType
  <2> HIDE <1>0 DEF Known, SaveActor, SaveData
  <2>4. saved[step] \in [actor : Seq(1..Batches), data : 0..Batches]
    BY <2>2, <2>3
  <2> QED  BY <2>1, <2>2, <2>4
<1>1. OneStepType'
  <2>1. saved' \in [1..Batches -> [actor : Seq(1..Batches), data : 0..Batches]]
    <3>1. /\ saved \in [1..Batches -> [actor : Seq(1..Batches), data : 0..Batches]]
          /\ saved' = [saved EXCEPT ![step].data = data] /\ data \in 0..Batches
      BY <1>a DEF OneStepType
    <3> HIDE <1>0 DEF Known, SaveData, Position
    <3> QED  BY <1>a, <3>1
  <2>2. /\ config' = config /\ awake' = TRUE /\ restarts' = restarts /\ stepped' = TRUE
        /\ phase' \in OneStepPhases \ {"loading", "first"}
    BY <1>a DEF OneStepType, OneStepPhases
  <2>3. /\ step' \in Nat
        /\ data' \in 0..Batches
        /\ tracker' \in 0..Batches
        /\ actor' \in Seq(1..Batches)
        /\ loaded' \in Seq(1..Batches)
        /\ ahead' \in Generation
        /\ batch' \in Generation
    BY <1>a DEF OneStepType
  <2> HIDE <1>0 DEF Known
  <2> QED  BY <2>1, <2>2, <2>3, <1>0, <1>a, TypeKept DEF Known
<1>2. InOrder'
  BY DEF InOrder, Starting
<1>3. Counted'
  BY DEF Counted, Starting
<1>4. Fresh'
  BY DEF Fresh, UpdateDue
<1>5. OnDisk'
  <2>1. saved'[tracker] = saved[tracker] /\ saved'[step].actor = actor /\ saved'[step].data = data
    BY <1>a DEF OneStepType, OnDisk
  <2>2. (tracker > 0 => SavedWell(tracker, saved[tracker].actor, saved[tracker].data))'
    BY <2>1, DiskKept DEF Costs
  <2> QED  BY <2>1, <2>2 DEF OnDisk
<1>6. FewLost'
  <2>1. Skipped' \subseteq Skipped
    BY DEF Skipped, Untrained
  <2>2. config'.criticWarmup <= 1 => Cardinality(Skipped') <= restarts'
    BY <2>1, NoMoreSkipped DEF FewLost
  <2> QED  BY <2>2 DEF FewLost, Starting, IsLastStep, Least
<1> QED  BY <1>1, <1>2, <1>3, <1>4, <1>5, <1>6 DEF OneStepInv

LEMMA NameStepKeeps ==
    ASSUME OneStepInv, NameStep
    PROVE  OneStepInv'
<1>0. Known
  BY OneStepFacts
<1> USE <1>0 DEF Known, NameStep, replicas, pipeline
<1>1. OneStepType'
  <2>1. tracker' \in 0..Batches /\ stepped
    BY DEF Counted, Starting, OneStepType
  <2>2. /\ config' = config /\ awake' = TRUE /\ restarts' = restarts /\ stepped' = TRUE
        /\ phase' \in OneStepPhases \ {"loading", "first"}
    BY DEF OneStepType, OneStepPhases
  <2>3. /\ step' \in Nat
        /\ data' \in 0..Batches
        /\ actor' \in Seq(1..Batches)
        /\ loaded' \in Seq(1..Batches)
        /\ saved' \in [1..Batches -> [actor : Seq(1..Batches), data : 0..Batches]]
        /\ ahead' \in Generation
        /\ batch' \in Generation
    BY DEF OneStepType
  <2> HIDE <1>0 DEF Known
  <2> QED  BY <2>1, <2>2, <2>3, <1>0, TypeKept DEF Known
<1>2. InOrder'
  BY DEF InOrder, Starting
<1>3. Counted'
  BY DEF Counted, Starting
<1>4. Fresh'
  BY DEF Fresh, UpdateDue
<1>5. OnDisk'
  <2>1. /\ step <= data /\ stepped /\ actor \in Seq(1..Batches) /\ step > 0
        /\ saved[step].actor = actor /\ saved[step].data = data
        /\ Increasing(actor) /\ UpTo(actor, data)
        /\ actor # <<>> => config.criticWarmup <= step
        /\ data <= Least(step + 1, TotalSteps) + restarts
        /\ Costs' = restarts + 1
    BY DEF Counted, Starting, OneStepType, OnDisk, InOrder, Fresh, FewLost, Costs
  <2>2. config.criticWarmup <= 1 => Cardinality(Lost(data, actor)) <= restarts + 1
    <3> SUFFICES ASSUME config.criticWarmup <= 1
                 PROVE  Cardinality(Lost(data, actor)) <= restarts + 1
      OBVIOUS
    <3>1. /\ Lost(data, actor) \subseteq Skipped \cup {ahead.number}
          /\ IsFiniteSet(Skipped) /\ Cardinality(Skipped) \in Nat
      BY SkippedLost DEF Skipped
    <3>2. /\ IsFiniteSet(Skipped \cup {ahead.number})
          /\ Cardinality(Skipped \cup {ahead.number}) <= Cardinality(Skipped) + 1
      <4>1. /\ IsFiniteSet(Skipped \cup {ahead.number})
            /\ Cardinality(Skipped \cup {ahead.number}) =
                 IF ahead.number \in Skipped THEN Cardinality(Skipped) ELSE Cardinality(Skipped) + 1
        BY <3>1, FS_AddElement
      <4> QED  BY <3>1, <4>1
    <3>3. /\ Cardinality(Lost(data, actor)) <= Cardinality(Skipped \cup {ahead.number})
          /\ Cardinality(Lost(data, actor)) \in Nat /\ Cardinality(Skipped \cup {ahead.number}) \in Nat
      BY <3>1, <3>2, FewerAreFewer
    <3>4. Cardinality(Skipped) <= restarts
      BY DEF FewLost
    <3> QED  BY <3>1, <3>2, <3>3, <3>4
  <2>3. Least(step + 1, TotalSteps) \in Nat
    BY DEF Least
  <2>4. SavedWell(step, actor, data)'
    BY <2>1, <2>2, <2>3 DEF SavedWell, Least, Lost
  <2>5. saved'[tracker'].actor = actor' /\ saved'[tracker'].data = data' /\ tracker' = step'
    BY <2>1
  <2> QED  BY <2>4, <2>5 DEF OnDisk
<1>6. FewLost'
  <2>1. Skipped' \subseteq Skipped
    BY DEF Skipped, Untrained
  <2>2. config'.criticWarmup <= 1 => Cardinality(Skipped') <= restarts'
    BY <2>1, NoMoreSkipped DEF FewLost
  <2> QED  BY <2>2 DEF FewLost, Starting, IsLastStep, Least
<1> QED  BY <1>1, <1>2, <1>3, <1>4, <1>5, <1>6 DEF OneStepInv

LEMMA CountStepKeeps ==
    ASSUME OneStepInv, CountStep
    PROVE  OneStepInv'
<1>0. Known
  BY OneStepFacts
<1> USE <1>0 DEF Known, CountStep, IsLastStep, replicas, disk, pipeline
<1>1. OneStepType'
  <2>1. /\ config' = config /\ awake' = TRUE /\ restarts' = restarts /\ stepped' = TRUE
        /\ phase' \in OneStepPhases \ {"loading", "first"}
    BY DEF OneStepType, OneStepPhases
  <2>2. /\ step' \in Nat
        /\ data' \in 0..Batches
        /\ tracker' \in 0..Batches
        /\ actor' \in Seq(1..Batches)
        /\ loaded' \in Seq(1..Batches)
        /\ saved' \in [1..Batches -> [actor : Seq(1..Batches), data : 0..Batches]]
        /\ ahead' \in Generation
        /\ batch' \in Generation
    BY DEF OneStepType
  <2> HIDE <1>0 DEF Known
  <2> QED  BY <2>1, <2>2, <1>0, TypeKept DEF Known
<1>2. InOrder'
  BY DEF InOrder, Starting
<1>3. Counted'
  <2>1. stepped /\ step <= data /\ (ahead # Nothing => step + 1 <= data)
    BY DEF OneStepType, Counted, Starting
  <2>2. tracker <= step
    BY DEF Counted, Starting
  <2> QED  BY <2>1, <2>2 DEF Counted, Starting
<1>4. Fresh'
  BY DEF Fresh, UpdateDue
<1>5. OnDisk'
  <2>1. (tracker > 0 => SavedWell(tracker, saved[tracker].actor, saved[tracker].data))'
    BY DiskKept DEF Costs
  <2> QED  BY <2>1 DEF OnDisk
<1>6. FewLost'
  <2>1. Skipped' \subseteq Skipped
    BY DEF Skipped, Untrained
  <2>2. config'.criticWarmup <= 1 => Cardinality(Skipped') <= restarts'
    BY <2>1, NoMoreSkipped DEF FewLost
  <2> QED  BY <2>2 DEF FewLost, Starting, IsLastStep, Least
<1> QED  BY <1>1, <1>2, <1>3, <1>4, <1>5, <1>6 DEF OneStepInv

LEMMA RestartsKeeps ==
    ASSUME OneStepInv, Restarts
    PROVE  OneStepInv'
<1>0. Known
  BY OneStepFacts
<1> USE <1>0 DEF Known, Restarts, Crash, replicas, disk
<1>1. OneStepType'
  <2>1. awake' = TRUE
    OBVIOUS
  <2>2. <<>> \in Seq(1..Batches)
    BY EmptySeq
  <2>3. restarts' \in Nat
    OBVIOUS
  <2>4. /\ config' \in Configurations /\ Separate'
        /\ saved' \in [1..Batches -> [actor : Seq(1..Batches), data : 0..Batches]]
        /\ tracker' \in 0..Batches
    BY DEF OneStepType, Separate
  <2>5. /\ phase' = "loading" /\ stepped' = FALSE /\ step' = 0 /\ data' = 0
        /\ actor' = <<>> /\ loaded' = <<>> /\ ahead' \in Generation /\ batch' \in Generation
        /\ data' \in 0..Batches
    OBVIOUS
  <2> HIDE <1>0 DEF Known, Restarts, Crash
  <2> QED  BY <2>1, <2>2, <2>3, <2>4, <2>5 DEF OneStepType, OneStepPhases
<1>2. InOrder'
  BY NothingInOrder DEF InOrder, Starting
<1>3. Counted'
  BY DEF Counted, Starting
<1>4. Fresh'
  BY DEF Fresh, UpdateDue
<1>5. OnDisk'
  <2>1. (tracker > 0 => SavedWell(tracker, saved[tracker].actor, saved[tracker].data))'
    BY DiskKept DEF Costs
  <2> QED  BY <2>1 DEF OnDisk
<1>6. FewLost'
  <2>1. Skipped' = {}
    BY DEF Skipped, Untrained
  <2>2. Cardinality(Skipped') = 0
    BY <2>1, FS_EmptySet
  <2> QED  BY <2>2 DEF FewLost, Starting
<1> QED  BY <1>1, <1>2, <1>3, <1>4, <1>5, <1>6 DEF OneStepInv

LEMMA OneStepKeeps == OneStepInv /\ OneStepOffNext => OneStepInv'
BY LoadCheckpointKeeps, ValidateBatchKeeps, ValidatedKeeps, FirstGenerationKeeps, GenerationEndsKeeps, TakeBatchKeeps, NoBatchKeeps, UpdateActorKeeps, UpdateReplicasKeeps, DecideToSaveKeeps, SaveActorKeeps, SaveDataKeeps, NameStepKeeps, CountStepKeeps, RestartsKeeps DEF OneStepOffNext

(* Nothing in the invariants changes when nothing changes.                 *)
LEMMA StutterKeeps ==
    ASSUME OneStepInv, UNCHANGED <<vars, pipeline>>
    PROVE  OneStepInv'
<1> USE DEF vars, replicas, disk, pipeline
<1>1. OneStepType' /\ InOrder' /\ Counted' /\ Fresh'
  BY DEF OneStepInv, OneStepType, InOrder, Counted, Fresh, Starting, UpdateDue, Separate
<1>2. OnDisk' /\ FewLost'
  BY DEF OneStepInv, OnDisk, FewLost, SavedWell, Costs, Starting, Skipped, Untrained, IsLastStep
<1> QED  BY <1>1, <1>2 DEF OneStepInv

LEMMA InitTrainers == TrainersInit => TrainersInv
<1> SUFFICES ASSUME TrainersInit PROVE TrainersInv
  OBVIOUS
<1>1. oneStepOff \in BOOLEAN /\ IInv /\ Punctual
  BY InitInv, InitPunctual DEF TrainersInit
<1>2. oneStepOff => OneStepInv
  BY InitOneStep DEF TrainersInit
<1> QED  BY <1>1, <1>2 DEF TrainersInv

LEMMA NextTrainers == TrainersInv /\ [TrainersNext]_trainerVars => TrainersInv'
<1> SUFFICES ASSUME TrainersInv, [TrainersNext]_trainerVars PROVE TrainersInv'
  OBVIOUS
<1>1. oneStepOff' = oneStepOff
  BY DEF TrainersNext, trainerVars
<1>2. CASE ~oneStepOff
  <2>1. [Next]_vars
    BY <1>2 DEF TrainersNext, trainerVars
  <2> QED  BY <1>1, <1>2, <2>1, NextInv, NextPunctual DEF TrainersInv
<1>3. CASE oneStepOff
  <2>1. OneStepOffNext \/ UNCHANGED <<vars, pipeline>>
    BY <1>3 DEF TrainersNext, trainerVars
  <2> QED  BY <1>1, <1>3, <2>1, OneStepKeeps, StutterKeeps DEF TrainersInv
<1> QED  BY <1>2, <1>3

(* Whichever trainer runs, and however often it crashes and resumes, its   *)
(* invariant holds.                                                        *)
THEOREM TrainersInvariance == TrainersSpec => []TrainersInv
BY InitTrainers, NextTrainers, PTL DEF TrainersSpec

(* Both trainers generate, for training and validation, from the weights   *)
(* of the actor as it was trained last (fit, _validate, _fit_update_weights).*)
THEOREM TrainersOnPolicy == TrainersSpec => []OnPolicy
<1>1. TrainersInv => OnPolicy
  <2> SUFFICES ASSUME TrainersInv PROVE OnPolicy
    OBVIOUS
  <2>1. CASE ~oneStepOff
    BY <2>1 DEF TrainersInv, IInv, OnPolicy, Sent, Unsent, Waking
  <2>2. CASE oneStepOff
    BY <2>2 DEF TrainersInv, OneStepInv, OneStepType, Fresh, OnPolicy
  <2> QED  BY <2>1, <2>2
<1> QED  BY TrainersInvariance, <1>1, PTL

(* Both train on every batch at most once and in the loader's order, over  *)
(* any number of crashes and resumes (_save_checkpoint, _load_checkpoint). *)
THEOREM TrainersEachBatchOnce == TrainersSpec => []EachBatchOnce
<1>1. TrainersInv => EachBatchOnce
  <2> SUFFICES ASSUME TrainersInv PROVE EachBatchOnce
    OBVIOUS
  <2>1. CASE ~oneStepOff
    BY <2>1 DEF TrainersInv, IInv, EachBatchOnce, ActorGood, Good, Ordered, Whole, NotTrained
  <2>2. CASE oneStepOff
    BY <2>2 DEF TrainersInv, OneStepInv, OneStepType, OneStepPhases, InOrder, Increasing, EachBatchOnce
  <2> QED  BY <2>1, <2>2
<1> QED  BY TrainersInvariance, <1>1, PTL

(* The tracker of RayPPOTrainer names the last checkpoint that was due, so *)
(* a resume costs fewer steps than the save frequency (fit, SaveDue in     *)
(* Train, _save_checkpoint); the one-step-off trainer has none of the      *)
(* phases the property speaks of.                                          *)
THEOREM SavedInTimeHolds == TrainersSpec => []SavedInTime
<1>1. TrainersInv => SavedInTime
  <2> SUFFICES ASSUME TrainersInv, phase \in {"nextStep", "finished"}, SavesOften, stepped
               PROVE  /\ step - tracker < config.saveFreq
                      /\ IsLastStep => tracker = step /\ saved[tracker].actor = actor
    BY DEF SavedInTime, SavesOften
  <2>1. ~oneStepOff
    BY DEF TrainersInv, OneStepInv, OneStepType, OneStepPhases
  <2>2. /\ step - tracker <= step % config.saveFreq
        /\ IsLastStep => tracker = step /\ saved[tracker].actor = actor
    BY <2>1 DEF TrainersInv, Punctual, Unsaved
  <2>3. step \in Nat /\ tracker \in Nat /\ config.saveFreq \in Nat /\ config.saveFreq > 0
    BY <2>1, ConfigType, SyncTrainerAssumption DEF TrainersInv, IInv, TypeOK, SavesOften
  <2>4. step % config.saveFreq \in 0..config.saveFreq - 1
    BY <2>3
  <2> QED  BY <2>2, <2>3, <2>4
<1> QED  BY TrainersInvariance, <1>1, PTL

(* The one-step-off trainer trains on what at most one training step older *)
(* weights generated, loses at most one batch per crash, and runs out of   *)
(* batches early only for that reason (fit, _async_gen_next_batch).        *)
THEOREM OneStepAheadHolds == TrainersSpec => []OneStepAhead
<1>1. TrainersInv => OneStepAhead
  <2> SUFFICES ASSUME TrainersInv, oneStepOff PROVE OneStepAhead
    BY DEF OneStepAhead
  <2>1. Fresh /\ FewLost /\ OneStepType
    BY DEF TrainersInv, OneStepInv
  <2>2. phase = "raised" => Batches - restarts < TotalSteps
    BY <2>1, SyncTrainerAssumption DEF FewLost, OneStepType
  <2> QED  BY <2>1, <2>2 DEF Fresh, FewLost, OneStepAhead
<1> QED  BY TrainersInvariance, <1>1, PTL
=============================================================================
