------------------------------- MODULE Rollouter -------------------------------
(***************************************************************************)
(* FullyAsyncRollouter: one asyncio event loop that runs the feeder, the   *)
(* processor, one task per rollout sample, the monitor and the trainer's   *)
(* reset_staleness calls.  A step runs a coroutine from one suspension     *)
(* point to the next.  The statistics call in _should_pause_generation is  *)
(* synchronous (ray.get), so the decision and, when the lock is free, the  *)
(* pause that follows are one step.                                        *)
(*                                                                         *)
(* staleness_samples is not a variable: every decision the code takes on   *)
(* it first recomputes it from the unfinished tasks and the queue          *)
(* (_refresh_staleness_samples_from_runtime_state), and so does Outstanding*)
(***************************************************************************)
EXTENDS AsyncChannels, Sequences

CONSTANTS EstimatedPoints,  \* _estimated_train_points_per_rollout_sample()
          Servers,          \* number of rollout servers
          PendingCap,       \* maxsize of pending_queue
          Outcomes,         \* sequences of chunk sizes a finished rollout may yield
          MayCrash          \* a rollout or a training step may raise an error

ASSUME RollouterAssumption ==
    /\ EstimatedPoints \in Nat \ {0}
    /\ Servers \in Nat \ {0}
    /\ PendingCap \in Nat \ {0}
    /\ Outcomes \subseteq Seq(Nat \ {0})
    /\ MayCrash \in BOOLEAN

VARIABLES fed,           \* samples put into pending_queue so far
          feeder,        \* "feeding", "ending" or "done"
          pending,       \* pending_queue: samples, then End
          proc,          \* where the processor is
          current,       \* the sample the processor holds, or 0
          active,        \* active_tasks: submitted and not yet collected
          task,          \* per sample: its task
          lock,          \* "free", or the coroutine that holds the lock
          paused,
          monitor,       \* "asleep", or "locking" once it decided to resume
          rollout        \* the rollouter's fit: "running", "finished" or "failed"

rolloutVars == <<fed, feeder, pending, proc, current, active, task,
                 lock, paused, monitor, rollout>>

End == 0

NoTask == [state |-> "none", version |-> 0, toPut |-> <<>>, part |-> 0]

RollouterInit ==
    /\ fed = 0
    /\ feeder = "feeding"
    /\ pending = <<>>
    /\ proc = "check"
    /\ current = 0
    /\ active = {}
    /\ task = [s \in RolloutSamples |-> NoTask]
    /\ lock = "free"
    /\ paused = FALSE
    /\ monitor = "asleep"
    /\ rollout = "running"

Finished(s) == task[s].state \in {"done", "crashed"}

(* max_concurrent_samples: 16 per server, and never more than the samples  *)
(* estimated to make up max_required_samples (at least one).               *)
MaxConcurrent ==
    LET enough == (MaxQueueSize + EstimatedPoints - 1) \div EstimatedPoints
        wanted == IF enough < 1 THEN 1 ELSE enough
    IN IF 16 * Servers < wanted THEN 16 * Servers ELSE wanted

(* The refreshed staleness_samples.                                        *)
Outstanding ==
    EstimatedPoints * Cardinality({s \in active : ~Finished(s)}) + queue_train_points

(* Mutant of ShouldPause: rollouts under way are not counted.               *)
PausesOnFullQueue == queue_train_points >= MaxQueueSize

ShouldPause ==
    \/ queue_train_points >= MaxQueueSize
    \/ Outstanding >= MaxQueueSize

(* notify_all on the rollouter's condition.                                *)
NotifyProcessor == proc' = IF proc = "parked" THEN "woken" ELSE proc
-------------------------------------------------------------------------------
(* _feed_samples                                                           *)

Feed ==
    /\ feeder = "feeding"
    /\ Len(pending) < PendingCap
    /\ pending' = Append(pending, fed + 1)
    /\ fed' = fed + 1
    /\ feeder' = IF fed + 1 >= TotalRolloutSteps THEN "ending" ELSE "feeding"
    /\ UNCHANGED <<proc, current, active, task, lock, paused, monitor, rollout>>

FeedEnd ==
    /\ feeder = "ending"
    /\ Len(pending) < PendingCap
    /\ pending' = Append(pending, End)
    /\ feeder' = "done"
    /\ UNCHANGED <<fed, proc, current, active, task, lock, paused, monitor, rollout>>
-------------------------------------------------------------------------------
(* _processor_worker                                                       *)

ProcessorGoesOn ==
    /\ proc = "check"
    /\ ~paused /\ ~ShouldPause
    /\ proc' = "get"
    /\ UNCHANGED <<fed, feeder, pending, current, active, task, lock, paused, monitor, rollout>>

(* With the lock held elsewhere the decision is kept until it is released. *)
ProcessorDecidesToPause ==
    /\ proc = "check"
    /\ paused \/ ShouldPause
    /\ IF lock = "free"
         THEN paused' = TRUE /\ proc' = "drain"
         ELSE paused' = paused /\ proc' = "pausing"
    /\ UNCHANGED <<fed, feeder, pending, current, active, task, lock, monitor, rollout>>

ProcessorPauses ==
    /\ proc = "pausing"
    /\ lock = "free"
    /\ paused' = TRUE
    /\ proc' = "drain"
    /\ UNCHANGED <<fed, feeder, pending, current, active, task, lock, monitor, rollout>>

NoSlot == Cardinality(active) >= MaxConcurrent

(* The three loops that wait for a task to complete: while pausing, for a  *)
(* free slot, and after the end signal.                                    *)
MustWait ==
    \/ proc \in {"drain", "finish"} /\ active # {}
    \/ proc = "slot" /\ NoSlot

(* asyncio.wait is awaited with the lock held ...                          *)
ProcessorWaits ==
    /\ MustWait
    /\ lock = "free"
    /\ lock' = "processor"
    /\ UNCHANGED <<fed, feeder, pending, proc, current, active, task, paused, monitor, rollout>>

(* Mutant of Raises: the result of a done task is not awaited.              *)
NeverRaises(done) == FALSE

Raises(done) == \E s \in done : task[s].state = "crashed"

(* ... and collects every task done by then; one that raised is raised here*)
ProcessorCollects ==
    /\ lock = "processor"
    /\ LET done == {s \in active : Finished(s)}
       IN /\ done # {}
          /\ active' = active \ done
          /\ proc' = IF Raises(done) THEN "failed" ELSE proc
    /\ lock' = "free"
    /\ UNCHANGED <<fed, feeder, pending, current, task, paused, monitor, rollout>>

(* The wait on the condition for as long as paused is set.                 *)
ProcessorParks ==
    /\ \/ proc = "drain" /\ active = {}
       \/ proc = "woken"
    /\ lock = "free"
    /\ proc' = IF paused THEN "parked" ELSE "check"
    /\ UNCHANGED <<fed, feeder, pending, current, active, task, lock, paused, monitor, rollout>>

ProcessorGets ==
    /\ proc = "get"
    /\ pending # <<>>
    /\ pending' = Tail(pending)
    /\ current' = Head(pending)
    /\ proc' = IF Head(pending) = End THEN "finish" ELSE "slot"
    /\ UNCHANGED <<fed, feeder, active, task, lock, paused, monitor, rollout>>

ProcessorSubmits ==
    /\ proc = "slot" /\ ~MustWait
    /\ lock = "free"
    /\ ~paused
    /\ active' = active \cup {current}
    /\ task' = [task EXCEPT ![current].state = "generating"]
    /\ current' = 0
    /\ proc' = "check"
    /\ UNCHANGED <<fed, feeder, pending, lock, paused, monitor, rollout>>

(* Mutant of ProcessorEnds: the tasks that are left are not waited for.     *)
EndsAtOnce ==
    /\ proc = "finish"
    /\ proc' = "done"
    /\ UNCHANGED <<fed, feeder, pending, current, active, task, lock, paused, monitor, rollout>>

ProcessorEnds ==
    /\ proc = "finish" /\ active = {}
    /\ proc' = "done"
    /\ UNCHANGED <<fed, feeder, pending, current, active, task, lock, paused, monitor, rollout>>

Processor ==
    \/ ProcessorGoesOn \/ ProcessorDecidesToPause \/ ProcessorPauses
    \/ ProcessorWaits \/ ProcessorCollects \/ ProcessorParks
    \/ ProcessorGets \/ ProcessorSubmits \/ ProcessorEnds
-------------------------------------------------------------------------------
(* _process_single_sample_streaming, one task per submitted sample         *)

taskOnly == <<fed, feeder, pending, proc, current, active, lock, paused, monitor, rollout>>

(* The last response of the rollout: the server stamps it with its version.*)
Generate(s) ==
    /\ task[s].state = "generating"
    /\ ~syncing
    /\ task' = [task EXCEPT ![s].state = "generated", ![s].version = serverVersion]
    /\ UNCHANGED taskOnly

(* The rollout is handed back and split into chunks, one per group.        *)
Split(s, chunks) ==
    /\ task[s].state = "generated"
    /\ task' = [task EXCEPT ![s].state = IF chunks = <<>> THEN "done" ELSE "putting",
                            ![s].toPut = chunks]
    /\ UNCHANGED taskOnly

(* A recoverable API error drops the sample; any other error is raised.    *)
Fail(s) ==
    /\ task[s].state = "generating"
    /\ \/ task' = [task EXCEPT ![s].state = "done"]
       \/ MayCrash /\ task' = [task EXCEPT ![s].state = "crashed"]
    /\ UNCHANGED taskOnly

(* put_sample of the next chunk, awaited before the one after it.          *)
NextChunk(s) == [sample |-> s, part |-> task[s].part + 1,
                 points |-> Head(task[s].toPut), version |-> task[s].version]

AfterPut(t) ==
    IF Len(t.toPut) = 1
      THEN [NoTask EXCEPT !.state = "done"]
      ELSE [t EXCEPT !.toPut = Tail(@), !.part = @ + 1]

PutChunk(s) ==
    /\ task[s].state = "putting"
    /\ PutSample(NextChunk(s), NextChunk(s).points)
    /\ task' = [task EXCEPT ![s] = AfterPut(@)]
    /\ UNCHANGED taskOnly
-------------------------------------------------------------------------------
(* _async_monitor_loop: every ten seconds, resume a pause that is over.    *)

MonitorDecides ==
    /\ rollout = "running"
    /\ monitor = "asleep"
    /\ paused /\ ~ShouldPause
    /\ IF lock = "free"
         THEN paused' = FALSE /\ NotifyProcessor /\ monitor' = "asleep"
         ELSE monitor' = "locking" /\ UNCHANGED <<paused, proc>>
    /\ UNCHANGED <<fed, feeder, pending, current, active, task, lock, rollout>>

MonitorResumes ==
    /\ rollout = "running"
    /\ monitor = "locking"
    /\ lock = "free"
    /\ paused' = FALSE
    /\ NotifyProcessor
    /\ monitor' = "asleep"
    /\ UNCHANGED <<fed, feeder, pending, current, active, task, lock, rollout>>
-------------------------------------------------------------------------------
(* reset_staleness: the lock is held across the call of get_queue_size.    *)

ResetBegins ==
    /\ resetCall = "called"
    /\ lock = "free"
    /\ lock' = "reset"
    /\ resetCall' = "counting"
    /\ paused' = FALSE
    /\ NotifyProcessor
    /\ UNCHANGED <<fed, feeder, pending, current, active, task, monitor, rollout>>

ResetReturns ==
    /\ resetCall = "counting"
    /\ lock' = "free"
    /\ resetCall' = "returned"
    /\ UNCHANGED <<fed, feeder, pending, proc, current, active, task, paused, monitor, rollout>>
-------------------------------------------------------------------------------
(* _streaming_generation_main and fit: in either case a termination signal *)
(* is put; after an error the feeder is cancelled and fit raises.  Tasks   *)
(* that are still running are not cancelled.                               *)

RolloutFinishes ==
    /\ rollout = "running"
    /\ proc = "done"
    /\ feeder = "done"
    /\ PutSample(NoItem, 0)
    /\ rollout' = "finished"
    /\ UNCHANGED <<fed, feeder, pending, proc, current, active, task, lock, paused, monitor>>

RolloutFails ==
    /\ rollout = "running"
    /\ proc = "failed"
    /\ feeder' = "done"
    /\ PutSample(NoItem, 0)
    /\ rollout' = "failed"
    /\ UNCHANGED <<fed, pending, proc, current, active, task, lock, paused, monitor>>
===============================================================================
