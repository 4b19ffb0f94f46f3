# role-factorized-search: models, checks and proofs

The repository trains a search agent whose work is divided between a frozen
*backbone*, which decides what to ask, and a trained *policy*, which searches and
answers. It is built on a fork of verl: a rollouter produces trajectories, a trainer
turns them into weight updates, and most of what is hard about it lies in how
these two, the queue between them and the inference servers behind them run
concurrently. This directory holds the TLA+ models of that machinery, the TLC runs
that check them on small instances, and the TLAPS proofs of what was worth proving
for every instance.

Paths below are relative to `src/`; `fully_async_policy/` stands for
`verl/experimental/fully_async_policy/`.

## 1. Inventory

### 1.1 The fully asynchronous trainer (modelled first, proved)

| part | state | operations | interacts with |
|---|---|---|---|
| message queue (`fully_async_policy/message_queue.py`), one Ray actor | the deque of (item, train points), the running total, the produced/consumed/dropped counters, `running`, a condition with its sleepers | `put_sample`, `get_sample`, `clear_queue`, `shutdown`, statistics | written by the rollouter, read by the trainer, cleared by main |
| rollouter (`fully_async_rollouter.py`), one event loop | `pending_queue`, `active_tasks`, `paused`, `lock`/`condition`, `staleness_samples`, `global_steps` | feeder, processor, one task per rollout sample, monitor, `reset_staleness`, `fit` | puts into the queue; called by the trainer |
| trainer (`fully_async_trainer.py`) | the batch being collected, `local_trigger_step`, `current_param_version`, drop counters | `fit_step`: collect, train, advance the local step, update the servers' weights, call `reset_staleness` | gets from the queue; stops and restarts the servers |
| main (`fully_async_main.py`) | the two `fit` futures | waits for both; on an error cancels the other; clears the queue | both |
| inference servers (`verl/workers/rollout/`, `verl/checkpoint_engine/base.py`) | loaded version, requests in flight, stopped or not | generate, abort, sleep, load, wake up, resume | rollout tasks; the trainer |

What is hard: five coroutines of the rollouter share one lock and one condition, and
the processor holds that lock across `asyncio.wait`; a decision to pause is taken
before the lock is taken; the queue drops its oldest entries silently; the trainer
drops what is stale or does not fit without telling the rollouter; the termination
signal travels through the same lossy queue as the samples; a rollout that raises is
noticed only when somebody awaits its task.

What makes it correct: the queue's books balance and it loses only what does not fit;
nobody sleeps while there is something for them; the rollouter never commits the
queue to more than it can hold (plus less than one rollout); what is trained on is fresh
enough, and has been neither trained on nor dropped before; the trainer stops only when
there is nothing left; a crash is never silent; every run ends.

### 1.2 The rest of the system

| part | state, hard behaviour | what makes it correct | status |
|---|---|---|---|
| request routing: `GlobalRequestLoadBalancer`, `AsyncLLMServerManager` (`verl/experimental/agent_loop/agent_loop.py` 40-200) | requests in flight per server, a bounded LRU of sticky conversations; the release is a call nobody waits for | the count of a server is what it has; a conversation stays on its server; a release never finds a count at zero | modelled, proved |
| weight update and partial rollout (`verl/checkpoint_engine/base.py`, `fully_async_policy/agent_loop/agent_loop.py`, `verl/workers/rollout/vllm_rollout/`) | four gathers over the servers while generations run; an aborted request is sent again with its tokens | interrupting is invisible to the agent loop; no token on half-loaded weights; the version span and the token limit survive interruptions | modelled, proved |
| reward model router: `NaiveRouter` (`verl/experimental/reward_loop/router/naive_router.py`) | counts per worker, a bounded number of connections, retries with delays, errors of three kinds, attempts that never end | the counts mean something; every request ends that no hanging attempt holds up | modelled, proved |
| rate limiting: `AsyncTokenBucket` (`verl/experimental/reward_loop/reward_manager/limited.py` 35-169) | a bucket with a clock, retries after a sleep, a debt for large requests | never more than capacity and rate allow, over any window; every call returns | modelled, proved |
| `RateLimitedRewardManager` (same file, 172-469) and `RewardLoopManager` (`reward_loop.py`) | executor threads that cannot be cancelled, a semaphore, a time-out, results of several shapes | permits are returned once; a late result changes nothing; every batch ends | modelled, proved |
| checkpoints and resume (`fully_async_trainer.py` 814-996, `fully_async_rollouter.py` 737-809, `verl/utils/checkpoint/checkpoint_manager.py`) | folders, a tracker file, old folders removed; a crash at any point | there is always a complete checkpoint to resume from; little is lost | modelled, proved |
| the tool agent (`verl/experimental/agent_loop/tool_agent_loop.py`) | a state machine of turns with token budgets, tool calls in parallel, instances of tools | budgets and turn limits hold on every path; masks stay aligned with tokens; instances are released | modelled, proved |
| the two-stage rollout (`verl/trainer/ppo/ray_trainer.py` 2498-3579) | rounds over a shrinking batch, a tree of branches and queries, dictionaries keyed by trace ids | every sample finishes once, groups whole, what is looked up by trace is true of the row | modelled |
| the synchronous trainer (`verl/trainer/ppo/ray_trainer.py`, `fit`, `_validate`, `_save_checkpoint`, `_load_checkpoint`) | replicas that sleep and wake and share devices with the trainer; saving, crash, resume | generation on the newest weights; devices free when needed; each batch trained on once; saves in time | modelled, proved |
| search tools (`verl/tools/search_tool.py`, `verl/tools/utils/`) | attempts with growing delays behind a semaphore of Ray's | - | not modelled: one step that answers or raises in `ToolAgent` |
| sequence balancing (`verl/utils/seqlen_balancing.py`), groups (`verl/utils/groupwise.py`) | pure sequential functions | a partition of the input; groups kept whole | not modelled: nothing concurrent, nothing kept between calls |
| separated and one-step-off trainers (`verl/experimental/separation/`, `one_step_off_policy/`) | one generation in flight ahead of training | weights at most one step old; no batch trained on twice | the one-step-off trainer is modelled, proved |
| agent loop workers, controller and protocol, datasets and samplers | chunking, gathering, padding | order and count kept | not modelled: sequential data reshaping |
| transfer backends, other inference servers | collective communication | - | not modelled: decided by external libraries, or the same interface as what is modelled |
| models, kernels, Megatron/FSDP glue, VLA, QAT, SFT, metrics, tracking, scripts | tensor numerics, logging, command lines | - | not modelled: no control that TLC or TLAPS reaches |

## 2. Plan

The most important first. Modules that hold theorems, and those they use, contain no
RECURSIVE operator.

1. Done: `MessageQueue` (with `LossyFifo` as its abstraction), `Rollouter`, `Trainer`,
   `FullyAsync`; `LoadBalancer`; `WeightUpdate`, `PartialRollout` (with `AtomicUpdate`);
   `NaiveRouter`; `TokenBucket`; `RewardLimiter`, `RewardBatch`.
2. Done: `CheckpointResume`, the writes of a checkpoint in their order, retention, a crash
   between any two, the resume; `ToolAgent`, turns, budgets and parallel calls;
   `TwoStageRollout`, rounds, branches and groups; `SyncTrainer`, the loop around it;
   `OneStepOff`, the same with a generation in flight.
3. Done: the proofs `MessageQueueProofs`, `GenerationProofs` (load balancer and partial
   rollout), `RewardServiceProofs` (token bucket and router), `BatchProofs` (rate-limited
   reward manager and two-stage rollout),
   `ToolAgentProofs`, `SyncTrainerProofs` (with the one-step-off trainer),
   `CheckpointResumeProofs` and, for the composition at the core, `FullyAsyncProofs`.
4. Left to model: the retries of the reward model's HTTP client; asynchronous saves; the
   validation of the fully asynchronous trainer.
5. Left to prove: what holds between the components, beyond the invariants and action
   properties that the runs check, all of which have their theorem.

## 3. Modules and how they correspond to the code

### The fully asynchronous trainer

* **`MessageQueue`** - the operations of the queue actor. Every method of the actor
  holds one `asyncio.Lock` and suspends only on the condition built on that lock, so a
  method is one step; `get_sample` is two, up to the wait and from the wake-up. Entries
  carry an auxiliary stamp `upto`, the value of `produced.points` once they were
  appended, so that the weight of a run of entries is a difference and needs no
  recursion. `received` and `cleared` are auxiliary too.
* **`MessageQueueClients`** - the queue under every use its interface allows, with its
  properties and the refinement of **`LossyFifo`**, the promise behind it: first in,
  first out, and only the oldest are ever lost.
* **`AsyncChannels`** - what rollouter and trainer share: the queue, the servers'
  version and whether they are stopped, the pending call of `reset_staleness`.
* **`Rollouter`** - a step takes one coroutine from a suspension point to the next.
  `proc` is where the processor is: `check` (916), `pausing` (920), `drain` (922),
  `parked`/`woken` (936), `get` (938), `slot` (957), `finish` (946). `lock` is a
  variable only where it is held across a suspension: the processor's `asyncio.wait` and
  `reset_staleness`'s queue call. `staleness_samples` is not a variable, since every
  decision recomputes it (1192): it is the operator `Outstanding`. A rollout whose
  recoverable failure is recorded (1003-1010) is an outcome of no chunks.
* **`Trainer`** - one step per value taken from the queue, one per training step, three
  for a weight update and the `reset_staleness` call after it. `fate` is auxiliary. A sample always
  has a version: main updates the weights once before the fits begin (fully_async_main.py 111), which
  gives every server one, so `TooStale` needs no case for a sample without (291). A step or a weight
  update that raises (`TrainerRaises`) ends the trainer's fit.
* **`FullyAsync`** - the composition, main, fairness and the properties.

### Inference servers

* **`LoadBalancer`** - the actor's `acquire_server` and `release_server`, each one step,
  and the caller's side of both: `using` is the server a conversation is at, `owed` the
  release that has been sent and not yet been handled. `last` and `others` are auxiliary
  and remember, for stickiness, where a conversation was and who was routed since.
  **`LoadBalancerClients`** adds conversations of any number of turns.
* **`WeightUpdate`** - `update_weights`: `phase` is the gather under way, `left` the
  servers not through it. Stand-alone servers' `sleep` and `wake_up` do nothing
  and are left out. `EnginePauses` is the branch for vLLM 0.12 and later, whose
  `pause_generation` also holds back requests that come afterwards.
* **`PartialRollout`** - `FullyAsyncLLMServerManager.generate` on top of `LoadBalancer` and
  `WeightUpdate`. A token is represented by the version of the weights that generated it,
  which makes "no token on half-loaded weights" and "the span covers the tokens"
  statements about the result. **`AtomicUpdate`** is the abstraction: streams that
  grow with tokens of one current version, which changes in one step.

### Rewards

* **`NaiveRouter`** - a request is `reading` (its body), `connecting`, `sent`, `delayed` between
  attempts, `answered` or `failed`; it is given its worker once and keeps it. `connecting`
  waits for one of the session's connections (115-118, the connector being aiohttp's). The session
  has no timeout (123), and the parameter `timeout` (87, 101) is used nowhere: a sent attempt may be
  `hanging` for ever, and then keeps its connection.
* **`TokenBucket`** - one pass of `acquire` under the lock is one step; time and tokens are
  integers, and a sleep of `need / rate` lasts until `Rate * elapsed >= need` or longer.
  `charged`, `stamp`, `at` and `freed` are auxiliary: they order the tokens taken.
* **`RewardLimiter`** - `run_single`: `jobs` and `busy` are the executor of a worker's event
  loop, `sleepers` the semaphore's queue. A thread once started ends by itself or never
  (`hung`), whatever has become of its request; decoding may raise, which nothing catches.
  Items arrive in any order, in a batch or one by one. **`RewardBatch`** adds the manager
  that assembles a batch.

### Checkpoints

* **`CheckpointResume`** - `disk` holds, per file and version, nothing, half a file or the
  number of batches the file covers; a save is `BeginModel` (with `ensure_checkpoint_capacity`),
  `WriteModel`, `Register` (`register_checkpoint`) for each model in turn, then the data
  loader, then the tracker, opened (which empties it) and written. `Feed` lets the rollouter
  run ahead while a save is under way, so that the data loader's position is that of the moment
  it is written. `Crash` may come between any two of these; `Restart` reads what is there.
  `prev` is the managers' list of folders, which a restart empties. `resaved` is auxiliary.

### Trajectories and the synchronous trainer

* **`ToolAgent`** - one trajectory; `state` is the code's `AgentState` with the places where
  a handler awaits its tool calls. Tokens are modelled by where they come from, so that the
  alignment of ids, mask and log-probabilities is a statement about the output. The
  output operators (`response_ids`, `outputMask`, ...) keep Python's slices, `s[-0:]`
  included. Arguments that cannot be parsed, tools that are not registered and exceptions are
  outcomes of a call; looking for an instance, creating and storing it is one step because no
  tool of the repository awaits anything in `create`.
* **`TwoStageRollout`** - one call of `_run_two_stage_orchestrator_rollout`. A trace id, a
  string joined from parts in the code, is the sequence of its parts. A row carries beside its
  trace the requests it truly rests on (`past`), which the code does not know; the
  dictionaries by trace are compared with it. Padding to the number of workers is left
  out: it is undone at once.
* **`SyncTrainer`** - `fit` from one change of the replicas, the disk or the actor to the
  next. The actor is the sequence of batches it was trained on, and so are the weights the
  replicas were given last. All epochs of the data loader are one sequence of batches.
  `Configurations` are records of the settings that decide the order of things.
* **`OneStepOff`** - `OneStepOffRayTrainer`, which inherits loading, validating and saving from
  the class `SyncTrainer` models and replaces the loop: the module extends `SyncTrainer`, and
  `oneStepOff` says which of the two trainers runs. `ahead` is `batch_data_future`; of the
  weights a generation uses only the age matters (`weights`), and `cut` remembers that a weight
  update aborted its requests. Its data is one epoch: after a resume, the code starts to
  count the epochs anew.

`Mutant of ...` operators are faulty variants of the definition that follows them, used
to confirm that each property does depend on the code; no specification uses them.

## 4. Runs

| run | instance | what it shows |
|---|---|---|
| `message_queue` | capacity 3, items of weight 1, 2 and 4 (one larger than the queue) and termination signals, two consumers, up to 4 puts, clear and shutdown anywhere | books, capacity, wake-ups, release by shutdown, refinement of `LossyFifo` |
| `fully_async` | 3 rollouts of two points, in one group or two or none, capacity 4, batches of 2, weights updated every 2 steps, staleness limit 0; any rollout, training step or weight update may raise | back-pressure bound, one fate per chunk, freshness, the end; a crash is noticed and fails the run; every run ends; evictions, stale and overflow drops occur |
| `load_balancer` | 4 conversations of any number of turns, 2 servers, a cache of 2 | counts, stickiness |
| `partial_rollout` | 2 generations, 2 servers, 2 updates, limit of 2 tokens | an interruption is invisible, the span covers the tokens, every generation ends, refinement of `AtomicUpdate` |
| `naive_router` | 3 requests, 2 workers, 3 attempts, every kind of error, attempts that hang; `max_connections` 4 (one connection to a worker) or 2 (two in all) | what the counts count; an end to every request whose attempt does not hang and to which hanging attempts leave a connection |
| `token_bucket` | 4 calls of 1, 2, 3 and 7 tokens, capacity 3, rate 2, sleeps up to one unit too long | the rate over every window, an end to every call |
| `reward_batch` | 4 items on one worker, 2 permits, 2 threads, two functions that may hang, decoding that may raise; coroutine or thread | permits, late results, an end to every batch unless every thread hangs |
| `checkpoint_resume` | actor and critic, of which 2 and 3 checkpoints are kept, 8 training steps, two to a version, saves every 2 versions or at any step by an expiring machine, 2 restarts | what the tracker names can be resumed from; a crash costs fewer versions than the save frequency |
| `tool_agent` | prompts of 1, 3 and 9 tokens and budgets of 2 + 6, of which 4 for the model; no limit of turns, 0 or 3; up to 3 calls of 2 tools in an output, 2 of them run; with and without the final instruction, interaction, log-probabilities | alignment of the output, budgets, the announced last turn, tool instances, every trajectory ends |
| `two_stage` | 1 or 2 inputs, 1 or 2 branches, 2 or 3 rounds, up to 3 queries; training and validation | every input answered once, groups whole, no history of another branch, records true of their rows |
| `sync_trainer` | ten configurations (colocated reward model, two stages, REMAX, critic's warm-up, replicas that do not sleep, no saves, replicas of their own), the last two of them for the one-step-off trainer too, 4 steps, 5 batches, 2 crashes anywhere | newest weights, free devices, each batch once, saves in time; one step ahead and never more |
| `checkpoint_keep_one` | actor only, one checkpoint kept, every version saved | a counterexample, see 6 |

Deadlock is checked in all but `checkpoint_*`, `tool_agent`, `two_stage` and `sync_trainer`,
which model one run, trajectory or call that ends (`tool_agent` checks that it does, and the
two-stage rollout ends by its bound on rounds). Why the bounds are enough: for the asynchronous
trainer the interesting cases are a full queue, a rollout that finishes between the
decision to pause and the pause, a weight update with rollouts under way, an item that no
longer fits and an item that is one version old. Each needs two rollouts under way and
one in the queue; three rollouts of up to two chunks each let them meet before and after a weight update.
For the load balancer two conversations more than the cache holds make every entry
evictable by others; for partial rollout two updates interrupt one generation twice, on two
servers. One call larger than the bucket and three that fit let a debt meet both calls
that sleep and calls that come new. Four items, two permits and two threads let a hanging
function, a late thread and two waiting requests coincide. Eight steps make four versions, so
that both limits of retention are reached with a save every two versions and extra
saves between; two restarts let one resume from what a resumed run has saved. A prompt of 9
tokens does not fit the context of 8 at all, one of 3 exceeds `prompt_length`, and three turns
are enough for an observation before and after the announced last one. Two inputs and two
branches of two queries are the least tree in which siblings could share a record; the third round
needs only one branch. Five batches for four steps let a resume go past the last step, and two
resumes of the one-step-off trainer exhaust the data.

**Fairness.** Weak fairness per coroutine: the event loop runs what is ready, a submitted
rollout ends (an answer or a time-out), trainer and main do not stop half-way, notified
consumers are resumed. Strong fairness only for
`reset_staleness`: it waits for an `asyncio.Lock` that others take again and again, and
the lock serves its waiters in order. New work is never assumed (a conversation need not
go on, no update need begin), except that `compute_score_batch` creates a task for
each item. `ToolAgent` is fair to its handlers as a whole: the
server and the tools answer or raise. `NaiveRouter` assumes of an attempt only that it is answered,
fails or hangs for ever, and that a connection which is free is given to somebody who waits: with three
hanging requests possible and one or two connections, each way of being held up occurs. `TokenBucket` assumes that a call which is due runs before `MaxLate` is
over: without a bound, calls that oversleep could take each other's tokens for ever.
`RewardBatch` assumes nothing of a thread: as many functions may hang as there are threads, and
`EveryBatchEnds` excepts just the request that then waits to be decoded.

## 5. Proofs

All are safety theorems about the specification under every value of the constants.

* **`MessageQueueProofs`**, of `MessageQueueClients!Spec`: the type invariant, `Accounting`,
  `OverCapacityOnlyAlone`, `NoLostWakeup`. The inductive invariant adds what ties the
  stamps together: consecutive entries' stamps differ by the points of the second,
  the last one is `produced.points`, and the running total is the difference of
  the ends. Without that the clamp `max(0, ...)` in `put_sample` and `get_sample` could
  hide a wrong total. The central lemma is `DropThenAppend`: dropping the k oldest
  entries and appending one keeps the chain. `FifoImplemented` maps every step to one of
  `LossyFifo`: what the abstract queue holds are the items of the entries (`ItemsIn`), a put
  appends to what is left once the oldest are lost, a get takes the head, and sleeping,
  notifying and shutting down are stutters (`NextMaps`). Assumed: the capacity is a natural number and
  the termination signal is not an item.
* **`GenerationProofs`**, of `LoadBalancerClients!ClientsSpec`: the type invariant,
  `CountsRequests`, `CacheConsistent` and the action property `Sticky`. `CountsRequests`
  needs that a conversation holding a server owes no release (`OneRequest`). `Sticky` needs
  two facts about the LRU order: whoever is more recent than an entry was routed since it
  was (`Recent`), and what the cache has lost was pushed out by `CacheSize` others
  (`Remembered`); `HitOrder` and `MissOrder` say how the order changes. Assumed: a finite
  set of conversations, at least one server and room for one entry.

  And of `PartialRollout!Spec`, for any number of servers, conversations and updates: a
  generation uses the balancer as the clients do (`GenerationsAreClients`), so what is proved
  of them holds of it. Its own invariant says which server a request is at and in which
  phase (`Answered`), what each phase of an update knows of the servers through it
  (`Synced`, `Paused`, `RunsFree`), and that a generation has tokens of no version beyond its
  span (`OfItsTime`) and no more than its limit (`Limited`). The theorems state the
  branches of the code on which they depend as hypotheses: `SpanCoversTokens`,
  `InterruptedUntilSynced` and the refinement of `AtomicUpdate` hold where the engine can be
  paused (`EnginePauses`), `AsUninterrupted` where partial rollout is on and `max_tokens` is given
  (`PartialRolloutOn`, `HasLimit`). None can be dropped: section 6 has the counterexamples.
  `AtomicUpdateImplemented` maps the moment the last server has loaded to the change of the
  version and every token to a token; aborting, pausing, loading and waking are stutters.
* **`RewardServiceProofs`**, of `TokenBucket!Spec`, in which a sleep may last for ever: the
  type invariant, `WindowBound`, `TotalBound`, `DebtOnlyWhileWaited`. The invariant says of
  the stamps that they are unique and ordered as their times (`Stamps`, `TakenWhen`), of
  the bucket that what has been taken since any call is at most a full bucket, the rate
  since then and the debt (`Books`), and of a sleeper that its sleep covers the debt it
  made (`Owing`). `Refilled` is the only non-linear step: `Distribute`, `Monotone` and
  `FillingUp` isolate the products with `Rate`.

  And of `NaiveRouter!RouterSpec`: the type invariant and
  `CountsRequestsAndFailures`. The invariant adds that a request has a worker once its handler has
  begun (`Assigned`); the clamp of `_release_worker` is never reached because an active
  request of a worker makes its count positive (`ActiveCounted`). It describes the loss of counts
  (section 6) exactly rather than excluding it. `ChosenIsWorker` is the
  existence of a least count.
* **`ToolAgentProofs`**, of `ToolAgent!Spec`: `OutputAligned`, `BudgetsKept`,
  `FinalTurnInstructed`, `InstancesReleased`. The output is cut from the end of the
  conversation, so the invariant says of the conversation itself that its last
  `Len(response_mask)` tokens are marked as they should be and the rest is prompt (`Aligned`),
  and that log-probabilities equal the mask if the model wrote first (`Logged`). Three
  lemmas, `AppendedAligned`, `AppendedBudget` and `AppendedLogged`, cover everything that is
  ever appended; `OnesProperties` counts the marks.
* **`SyncTrainerProofs`**, of `SyncTrainer!Spec`, for every set of configurations and any number
  of crashes: the type invariant, `OnPolicy`, `DeviceFree`, `EachBatchOnce`. The invariant
  relates each phase to the replicas (`Sent`, `Waking`, `Sleeping`), the step to the data loader
  and the tracker (`Ahead`), and says of the actor and of every checkpoint the tracker can
  name that they were trained on exactly the batches up to a number (`Good`), which a save
  writes and a resume reads (`DiskGood`).

  And of `OneStepOff!TrainersSpec`, in which either trainer runs: `OnPolicy` and `EachBatchOnce`
  again, `SavedInTime` and `OneStepAhead`. `SavedInTime` needs to know, in every phase of a
  step, what the tracker will name once the step's save is made or skipped
  (`Punctual`). For `OneStepAhead` the invariant says that the batches are fetched in order, the one
  ahead being the last (`InOrder`), that all fetched but those lost in a crash were
  trained on (`Counted`), that weights are of the step before at the latest (`Fresh`), and of every
  checkpoint that a resume from it loses at most the batch that was ahead (`OnDisk`,
  `FewLost`).
* **`CheckpointResumeProofs`**, of `CheckpointResume!Spec`, for any models, numbers of
  checkpoints to keep, steps, save frequency and crashes: the type invariant, `LossBound`,
  `NothingSavedIsLost` and `EndsResumable`. What the managers have on disk and in their lists
  is in the order of the versions (`PathsInOrder`) and fits the number to keep (`Room`), so that
  a manager which makes room never removes what the tracker names (`SavedSoFar` says
  which parts of a save under way are on disk, `TrackerWhole` and `TornLoads` what the
  tracker may name). The last two theorems assume `KeepsMore`, that no manager keeps exactly
  one checkpoint (0 keeps all): with one, `checkpoint_keep_one` is the counterexample.
  `LossBound` needs no such hypothesis: that the version is ahead of the last save by at
  most its remainder modulo the frequency (`Tracked`) survives saves at any step.
* **`BatchProofs`**, of `RewardBatch!Spec`, for any number of items, workers, permits and
  threads and with functions that never return: the type invariant, `PermitsAccounted` and the
  action property `AnsweredOnce`. A permit is handed to the head of the semaphore's queue, so
  the invariant says that each sleeper waits, at its own worker's semaphore, and sleeps once
  (`SleepersWait`); and that a request has at most one job that decodes it, and only while it is
  decoding (`DecodedOnce`), or a job that ends could move a request that has gone on. `Held`
  is the balance itself: free permits and holders add up, and none is free while one sleeps.

  And of `TwoStageRollout!TwoStageSpec`, for any configurations (inputs, branches, rounds,
  limits) and any number of queries in an output: the type invariant, `EveryInputAnswered`,
  `LookupsTrue`, `GroupsComplete` and `HistoryOfBranches`. The properties speak of traces, and
  all of them rest on one thing: a trace that is made now is new, and is made by one row only.
  So the first part of the invariant (`RowsInv`) knows the shape of a trace (`Chains`, and
  `Of` for a query of one), that the dictionaries hold no trace of a later round
  (`TracesKnown`), that the branches and queries of a parent run all together (`RunsWhole`,
  `OfOneParent`) and that what has ended is not, and is not a query of, what goes on
  (`EndedApart`). The other three parts say of the dictionaries what the properties say at
  the end, in every phase and of every row that is still under way (`LookupsInv`, `GroupsInv`,
  `HistoryInv`). The steps are first reduced to what they do to the rows (`BackboneMovesRows`,
  `PolicyMovesRows`, `FinalMovesRows`), so that the concatenations and selections of the
  model are taken apart once (`FlattenRows`, `ThoseFacts`). That a group is complete is a bijection
  from the branches to the places of its points (`PeersOfRow`); that a validation in one branch
  returns the inputs in order is that a sorted sequence of the numbers up to n is the identity
  (`SortedIsIdentity`). With one branch `HistoryInv` says nothing of the contents, because
  `HistoryOfAll` is false there (section 6).
* **`FullyAsyncProofs`**, of `FullyAsync!Spec`, the composition of rollouter, trainer, queue and
  main: the type invariant, `StopsOnlyAtTheEnd`, `BatchIsFresh`, `EveryChunkOnce` and
  `BackpressureBound`, for any
  number of rollouts, any sizes of queue, batch and chunks and any staleness limit, with
  rollouts that raise. The invariant follows a sample through the rollouter: it is fed, pending,
  held by the processor and submitted in this order (`FedInOrder`), none of those fed is lost
  and the end comes after all of them (`NoneLost`), and a processor that has ended has collected
  every task (`TasksCollected`). Hence the termination signal is the last thing in the queue
  unless the rollouter failed (`SignalIsLast`), which is what lets the trainer stop on it. A chunk
  in the queue or taken from it was put by its task once (`ChunksPutOnce`); what was taken is
  in one place (`OneFate`), and those places hold as many as the queue has handed out
  (`GotCounted`). `PutsShape` and `CollectShape` say once what the steps do to
  the queue. For the back-pressure the weight of tasks and queue is a sum (`Total`), which the
  fold of the model is shown to be (`SumOfIsTotal`, `CommittedIsLoad`) and which can be taken apart at any
  element (`TotalTakes`); what is usually proved by induction is proved there for the smallest set
  that would fail (`MinimalSubset`). The invariant says that the stamps of the queue grow, so that an
  eviction never adds weight (`Stamped`); that a task under way is one the processor has not
  collected (`UnderWay`); that what is left to put is within the estimate (`WithinEstimate`); and
  that the rollouter, from the decision to go on until the submission, sees no less than what is
  promised (`OutstandingCovers`, `CommitBound`). Assumed, beside the assumptions of the constants: the termination signal is not a chunk
  (`NoItemAssumption`).

The type invariants, `TotalBound`, `DebtOnlyWhileWaited`, `CacheConsistent` and
`InterruptedUntilSynced` are proved and checked by no run.

Only model-checked: the properties under fairness, `CrashFailsTheRun` included, because liveness
and ENABLED are outside the prover's reach. Every invariant and every action property of the passing
runs has its theorem.

## 6. Findings and observations

One counterexample is a run of its own:

* `checkpoint_keep_one`: `fit` ends with a forced save of the version that may have been saved
  already. `register_checkpoint` appends its folder to the list a second time and, with one
  checkpoint to keep, removes the first entry, which is the folder just written: the training ends
  with a tracker that names a version without an actor. checkpoint_manager.py (148) says that the
  existing checkpoint is kept until the new one is complete. With more to keep, the folder is
  only counted twice, and one checkpoint fewer is kept.

What else the models show when a constant or a property is changed; the definitions named are
in the modules and in no run:

* `AtMostRolloutNum` of `FullyAsync` (with `Outcomes <- SinglePoint`, a staleness limit of 0) is
  violated: README.md (130, 136) of the fully asynchronous trainer says that between two weight
  updates at most `(1 + staleness_threshold) * required_samples * trigger_parameter_sync_step`
  samples are generated, and that threshold 0 means synchronous training. The rollouter
  counts only what is unfinished or queued (710-728), so what the trainer has taken since the
  last update can be produced again with the old weights.
* `PartialRolloutOn = FALSE` violates `AsUninterrupted`: README.md (216) says that without partial
  rollout a weight update waits for running rollouts, but `update_weights` (base.py 417) aborts
  them in every mode, and the truncated response is returned as it is.
* `SelectsLeastLoaded` of `NaiveRouter` is violated: a request that fails never gives its count
  back (naive_router.py 156 is reached by answered requests only), so after failures the
  "least-loaded worker" (176) is not the one with the fewest requests.
* `NoRequestHangs` of `NaiveRouter` is violated: `ClientTimeout(total=None)` (123) ends no attempt that
  its worker never answers, and the parameter `timeout: int = 60` (87) is stored (101) and used nowhere.
  reward_loop.py (157-158) says of the same setting that it can hang indefinitely. A hanging attempt also
  keeps its connection, of which a worker has `max_connections // 4`: when all of those hang, every later
  attempt on that worker waits as well. `EveryRequestEnds` excepts these two cases and no other.
* `NoBatchHangs` of `RewardBatch` is violated: decoding waits for a thread without a time-out
  (limited.py 414), so with as many hanging reward functions as threads a batch never ends.
* `HistoryOfAll` of `TwoStageRollout` is violated with one branch, several queries and two rounds:
  the traces of the second round's queries are those of the first, and a record is inherited
  only by a trace that has none (2815-2822), so the query rows keep the history of round one.
  `HistoryOfBranches` excludes them.
* `LastTextJudged` of `ToolAgent` is violated: a turn that a budget or `max_user_turns` ends
  is not decoded (1505-1530), so the format that is judged is that of the turn before.
* `OutputAligned` excepts a trajectory whose first turn wrote nothing. Without the exception it
  fails twice: with no response at all `prompt_ids[-0:]` (1277) is the whole prompt, and
  after an observation log-probabilities, which were never padded, are shifted against
  the tokens.
* `GeneratesAwake` of `SyncTrainer` names the configurations in which every generation follows a weight
  update. In the others (with `free_cache_engine`: the critic's warm-up longer than a step,
  a step without train points, REMAX's baseline, several rounds of the two-stage rollout) the
  policy generates on replicas that were put to sleep. The repository's two-stage script
  sets `free_cache_engine=false` (run_two_stage_subagent_grpo.sh 324). `DeviceFree` excepts
  the two-stage rollout that trains on the backbone's own answers: without a call of the
  policy the replicas are awake while it trains.
* `SavedInTime` excepts the critic's warm-up and the two-stage rollout: a last step without
  train points or within the warm-up is not saved, although the comment at ray_trainer.py 4918
  lists "It's the last training step". A run that is started again after its last step trains one
  step more if the loader has a batch left.
* After a crash within the final save its folder may hold a model that is newer than the data
  loader's state, and a crash between opening and writing the tracker leaves it empty, so that
  the restart raises. A restart forgets the folders saved before, which are never removed.
  Samples in flight when the data loader is saved are skipped after a resume.
* A limit of turns configured as 0 is no limit to three tests of `ToolAgent` (614-619, 1512, 1662), but
  after an undecodable call (1553) it allows no further turn.
* `HasLimit = FALSE` in `MCPartialRollout.cfg` violates `AsUninterrupted`: without
  `max_tokens` the server's default limit is computed from the prompt it is sent
  (vllm_async_server.py 539), so that a continued generation may exceed the response length.
* `EnginePauses = FALSE` violates `InterruptedUntilSynced` and the refinement: with vLLM before
  0.12, which setup.py (52) allows, an aborted request is sent again at once and runs while the
  weights are loaded.
* `max_concurrent` bounds less than limited.py (182, 195-197) says: the semaphore belongs to
  one process and there are `reward.num_workers` of them, and a function that runs in a
  thread goes on after its time-out while its permit is given to the next request.
* A batch whose first item is scored by a function returning a dictionary and one of whose
  other items times out or fails makes `compute_rm_score` raise KeyError
  (reward_loop.py 335; agent_loop.py 892-894 does the same): `batch` becomes `raised`.
* `GenerationWhole` of `OneStepOff` is violated in every step: the weight update after the actor's
  (one_step_off_policy/ray_trainer.py 366) meets the generation launched at 402, and
  `update_weights` (base.py 417) aborts its requests. The one-step-off trainer's server
  manager does not send them again (agent_loop.py 124-148), so the batch that README.md
  of that trainer says is "asynchronously generated while the current batch is being trained"
  is trained on as far as it had come. Only a validation needs that update: before a
  further batch is generated the weights are sent again (397).
* After a resume the one-step-off trainer has skipped the batch that was in flight when the data
  loader was saved. If the data is one epoch long it then ends before `total_training_steps`:
  `_async_gen_next_batch` returns None, which README.md of that trainer ends its loop on, but
  `fit` holds a task that is never None, and unpacking its result (388) raises TypeError.
* The last `_fit_update_weights` of `fit` (fully_async_trainer.py 603) does nothing when it
  is called because `local_trigger_step > 1` (711).

## 7. Not modelled

Search tools, sequence balancing, the loop of the separated trainer (which both trainers that
derive from it replace), the agent loop's workers, controller, datasets, transfer backends, other inference servers and everything numeric,
for the reasons given in 1.2. Of what is modelled: images and videos, rewards and judges of
the tool agent; the expansion of tool rewards and the padding of the two-stage rollout;
HDFS copies, asynchronous saves, `resume_path` and the Megatron manager of checkpoints.

Contents of batches, rewards, log-probs and gradients; metrics and logging; validation
(`do_validate` blocks the rollouter's event loop while it runs); the validation queue of
`message_queue.py` (it has no caller); failures of Ray itself; failures inside the
inference engine, including the exceptions `abort_all_requests` swallows; the retries of `_post_request` to a reward
model. `max_model_len` as a further limit of a generation (vllm_async_server.py 519, 544): it only makes
the engine stop earlier, which `Token` allows after any token. What raises once `fit` stops
training, and `reset_staleness` raising. A server's `global_steps` is read together with its last token; in the code
the answer first travels back from the engine's process, and the model takes that to be
quicker than the loading of weights that precedes the next change of `global_steps`.
