---------------------------- MODULE CheckpointResume ----------------------------
(***************************************************************************)
(* Saving and resuming a fully asynchronous run: the folders of the        *)
(* checkpoints, the tracker file that names the newest one, the rotation   *)
(* of old ones by the workers' checkpoint managers, and a crash between    *)
(* any two writes.                                                         *)
(***************************************************************************)
EXTENDS Integers, Sequences, FiniteSets

CONSTANTS Parts,        \* the models saved, in order: <<"actor">> or <<"actor", "critic">>
          Keep,         \* per part: max_actor_ckpt_to_keep, max_critic_ckpt_to_keep; 0 is None
          SaveFreq,     \* save_freq
          Trigger,      \* trigger_parameter_sync_step
          MaxSteps,     \* bound: training steps
          MaxAhead,     \* bound: batches fed and not yet trained on
          MaxRestarts   \* bound: restarts

Models == {Parts[i] : i \in 1..Len(Parts)}

ASSUME CheckpointAssumption ==
    /\ Parts \in Seq(STRING) \ {<<>>}
    /\ "data" \notin Models
    /\ \A i, j \in 1..Len(Parts) : Parts[i] = Parts[j] => i = j
    /\ Keep \in [Models -> Nat]
    /\ {SaveFreq, Trigger} \subseteq Nat \ {0}
    /\ {MaxSteps, MaxAhead, MaxRestarts} \subseteq Nat

(* What a save writes, in order: the models, then the data loader.         *)
Order == Append(Parts, "data")

Files == Models \cup {"data"}

Versions == 0..MaxSteps

(* The content of a file: nothing, half of it, or the number of batches    *)
(* its model was trained on or its data loader has handed out.             *)
Absent == -2

Torn == -1

VARIABLES version,    \* current_param_version
          localStep,  \* local_trigger_step
          trained,    \* batches the model was trained on
          lastCkpt,   \* last_ckpt_version
          prev,       \* previous_saved_paths of rank 0, per model
          fed,        \* batches the data loader has handed out
          phase,      \* where the trainer is
          item,       \* the file being saved, as an index of Order
          ending,     \* the queue has ended: the save under way is the final one
          disk,       \* per file and version, its content
          tracker,    \* latest_checkpointed_iteration.txt
          restarts,   \* how often the run was started again
          resaved     \* history: a save of the version the tracker names has begun

memory == <<version, localStep, trained, lastCkpt, prev, fed>>
vars == <<memory, phase, item, ending, disk, tracker, restarts, resaved>>

NoPaths == [m \in Models |-> <<>>]

Init ==
    /\ version = 0
    /\ localStep = 1
    /\ trained = 0
    /\ lastCkpt = 0
    /\ prev = NoPaths
    /\ fed = 0
    /\ phase = "train"
    /\ item = 1
    /\ ending = FALSE
    /\ disk = [f \in Files |-> [v \in Versions |-> Absent]]
    /\ tracker = Absent
    /\ restarts = 0
    /\ resaved = FALSE

Alive == phase \notin {"done", "down", "failed"}

(* The rollouter goes on while the trainer trains or saves.                *)
Feed ==
    /\ Alive
    /\ fed < trained + MaxAhead
    /\ fed' = fed + 1
    /\ UNCHANGED <<version, localStep, trained, lastCkpt, prev, phase, item, ending,
                   disk, tracker, restarts, resaved>>

(* Mutant of SaveDue: only every other multiple is taken.                  *)
SaveDueTwiceAsLate(v, esi) == v # lastCkpt /\ (esi \/ v % (2 * SaveFreq) = 0)

(* An expiring machine may ask for a save in any step.                     *)
SaveDue(v, esi) == v # lastCkpt /\ (esi \/ (v > 0 /\ v % SaveFreq = 0))

TrainStep ==
    /\ phase = "train"
    /\ trained < MaxSteps
    /\ trained < fed
    /\ trained' = trained + 1
    /\ IF localStep < Trigger
       THEN localStep' = localStep + 1 /\ UNCHANGED version
       ELSE localStep' = 1 /\ version' = version + 1
    /\ \E esi \in BOOLEAN : phase' = IF SaveDue(version', esi) THEN "begin" ELSE "train"
    /\ item' = 1
    /\ UNCHANGED <<lastCkpt, prev, fed, ending, disk, tracker, restarts, resaved>>

(* The termination signal: the final save is made whatever was saved.      *)
Finish ==
    /\ phase = "train"
    /\ phase' = "begin"
    /\ item' = 1
    /\ ending' = TRUE
    /\ resaved' = (resaved \/ version = tracker)
    /\ UNCHANGED <<memory, disk, tracker, restarts>>

Saving == Order[item]

(* shutil.rmtree of the first n registered folders of a model.             *)
Without(files, paths, n) ==
    [v \in Versions |-> IF \E i \in 1..n : paths[i] = v THEN Absent ELSE files[v]]

From(paths, n) == SubSeq(paths, n + 1, Len(paths))

(* ensure_checkpoint_capacity                                              *)
Excess(m) == IF Keep[m] > 1 /\ Len(prev[m]) >= Keep[m] THEN Len(prev[m]) - Keep[m] + 1 ELSE 0

BeginModel ==
    /\ phase = "begin"
    /\ Saving # "data"
    /\ LET m == Saving  n == Excess(m)
       IN /\ disk' = [disk EXCEPT ![m] = [Without(@, prev[m], n) EXCEPT ![version] = Torn]]
          /\ prev' = [prev EXCEPT ![m] = From(@, n)]
    /\ phase' = "write"
    /\ UNCHANGED <<version, localStep, trained, lastCkpt, fed, item, ending, tracker,
                   restarts, resaved>>

BeginData ==
    /\ phase = "begin"
    /\ Saving = "data"
    /\ disk' = [disk EXCEPT !["data"][version] = Torn]
    /\ phase' = "write"
    /\ UNCHANGED <<memory, item, ending, tracker, restarts, resaved>>

(* The last rank has written its shards: the barriers are passed.          *)
WriteModel ==
    /\ phase = "write"
    /\ Saving # "data"
    /\ disk' = [disk EXCEPT ![Saving][version] = trained]
    /\ phase' = "register"
    /\ UNCHANGED <<memory, item, ending, tracker, restarts, resaved>>

WriteData ==
    /\ phase = "write"
    /\ Saving = "data"
    /\ disk' = [disk EXCEPT !["data"][version] = fed]
    /\ phase' = "tracker"
    /\ UNCHANGED <<memory, item, ending, tracker, restarts, resaved>>

(* Mutant of Surplus: the new folder is counted although one is removed.   *)
SurplusWithNew(m, paths) == IF Keep[m] > 0 /\ Len(paths) >= Keep[m] THEN Len(paths) - Keep[m] + 1 ELSE 0

Surplus(m, paths) == IF Keep[m] > 0 /\ Len(paths) > Keep[m] THEN Len(paths) - Keep[m] ELSE 0

(* register_checkpoint, then on to the next file.                          *)
Register ==
    /\ phase = "register"
    /\ LET m == Saving  paths == Append(prev[m], version)  n == Surplus(m, paths)
       IN /\ disk' = [disk EXCEPT ![m] = Without(@, paths, n)]
          /\ prev' = [prev EXCEPT ![m] = From(paths, n)]
    /\ item' = item + 1
    /\ phase' = "begin"
    /\ UNCHANGED <<version, localStep, trained, lastCkpt, fed, ending, tracker, restarts, resaved>>

(* Opened for writing, which empties the file.                             *)
TrackerOpened ==
    /\ phase = "tracker"
    /\ tracker' = Torn
    /\ phase' = "flush"
    /\ UNCHANGED <<memory, item, ending, disk, restarts, resaved>>

TrackerWritten ==
    /\ phase = "flush"
    /\ tracker' = version
    /\ lastCkpt' = version
    /\ phase' = IF ending THEN "done" ELSE "train"
    /\ UNCHANGED <<version, localStep, trained, prev, fed, item, ending, disk, restarts, resaved>>

-----------------------------------------------------------------------------
(* A crash, and what a new process finds.                                  *)

Crash ==
    /\ Alive
    /\ restarts < MaxRestarts
    /\ phase' = "down"
    /\ UNCHANGED <<memory, item, ending, disk, tracker, restarts, resaved>>

(* torch.load of every model the trainer has, then of the data loader's    *)
(* state if there is one.                                                  *)
Loads(v) == disk["data"][v] # Torn /\ \A m \in Models : disk[m][v] >= 0

StartsAs(v, steps, position) ==
    /\ version' = v
    /\ lastCkpt' = v
    /\ trained' = steps
    /\ fed' = position
    /\ localStep' = 1
    /\ prev' = NoPaths
    /\ phase' = "train"
    /\ item' = 1
    /\ ending' = FALSE
    /\ UNCHANGED <<disk, tracker, resaved>>

Restart ==
    /\ phase \in {"down", "done"}
    /\ restarts < MaxRestarts
    /\ restarts' = restarts + 1
    /\ \/ tracker = Absent /\ StartsAs(0, 0, 0)
       \/ /\ tracker \in Versions
          /\ Loads(tracker)
          /\ StartsAs(tracker, disk[Parts[1]][tracker],
                      IF disk["data"][tracker] = Absent THEN 0 ELSE disk["data"][tracker])
       \/ /\ tracker = Torn \/ (tracker \in Versions /\ ~Loads(tracker))
          /\ phase' = "failed"
          /\ UNCHANGED <<memory, item, ending, disk, tracker, resaved>>

Save == BeginModel \/ BeginData \/ WriteModel \/ WriteData \/ Register \/ TrackerOpened \/ TrackerWritten

Next == Feed \/ TrainStep \/ Finish \/ Save \/ Crash \/ Restart

Spec == Init /\ [][Next]_vars

-----------------------------------------------------------------------------
Contents == {Absent, Torn} \cup Nat

(* Every variable has its type (FullyAsyncTrainer, BaseCheckpointManager). *)
TypeOK ==
    /\ version \in Versions /\ lastCkpt \in Versions /\ trained \in Versions
    /\ localStep \in 1..Trigger
    /\ prev \in [Models -> Seq(Versions)]
    /\ fed \in Nat
    /\ phase \in {"train", "begin", "write", "register", "tracker", "flush", "done", "down", "failed"}
    /\ item \in 1..Len(Order)
    /\ ending \in BOOLEAN /\ resaved \in BOOLEAN
    /\ disk \in [Files -> [Versions -> Contents]]
    /\ tracker \in {Absent, Torn} \cup Versions
    /\ restarts \in 0..MaxRestarts

(* A checkpoint a run can resume from: its models are whole and of the     *)
(* same step, and its data loader is past every batch they were trained on. *)
Resumable(v) ==
    /\ \A m \in Models : disk[m][v] >= 0 /\ disk[m][v] = disk[Parts[1]][v]
    /\ disk["data"][v] >= disk[Parts[1]][v]

(* Whatever the rotation of old folders, a crash or a half-written save,   *)
(* the version the tracker names can be resumed from, unless a final save  *)
(* has begun to overwrite it; and when a crash left the tracker empty,     *)
(* some version can still be loaded (_save_checkpoint,                     *)
(* ensure_checkpoint_capacity, register_checkpoint).                       *)
NothingSavedIsLost ==
    /\ tracker \in Versions /\ ~resaved => Resumable(tracker)
    /\ tracker = Torn => \E v \in Versions : Loads(v)

(* A crash while training costs fewer than SaveFreq parameter versions     *)
(* (_fit_save_checkpoint: periodic saves, last_ckpt_version).              *)
LossBound ==
    phase = "train" => version - (IF tracker \in Versions THEN tracker ELSE 0) < SaveFreq

(* After the final save the run can be resumed.                            *)
EndsResumable == phase = "done" => Loads(tracker)
=============================================================================
