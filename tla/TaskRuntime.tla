----------------------------- MODULE TaskRuntime -----------------------------
(***************************************************************************)
(* Background tasks of the VM (crates/ricochet_vm/src/vm.rs: Task,         *)
(* RunningTask, acquire_task_permit, call_spawn, call_await,               *)
(* call_release_task).                                                     *)
(*                                                                         *)
(* spawn runs a block on a thread of its own, in a new VM that starts with *)
(* a copy of the spawner's variables and an empty task table; a value task *)
(* (process_spawn_task and the like) runs a host operation and has no VM.  *)
(* A task value is the id of an entry in the task table of the VM that     *)
(* spawned it.  A permit of a process-wide counter bounds how many tasks   *)
(* run; the worker gives it back after it published its completion.        *)
(*                                                                         *)
(* VM 0 is the root VM and VM t the one of task t; tasks are numbered in   *)
(* the order in which they were spawned, a number no program sees.  Words  *)
(* that fail with an error leave tasks, permits and stack as they were, so *)
(* their error answers are no steps.  await_all is a sequence of awaits.   *)
(***************************************************************************)
EXTENDS Integers, FiniteSets

CONSTANTS
    MaxTasks,      \* bound: tasks ever spawned
    RootLimit,     \* max_running_tasks of the root VM
    DefaultLimit,  \* DEFAULT_MAX_RUNNING_TASKS, the limit of a task's VM
    NoEntry        \* no task table entry, no await in progress

ASSUME TaskAssumption ==
    /\ MaxTasks \in Nat
    /\ RootLimit \in Nat
    /\ DefaultLimit \in Nat

Tasks == 1 .. MaxTasks
VMs == 0 .. MaxTasks
LocalIds == 0 .. MaxTasks - 1

(* A task value: the id it carries, and (history) the task it was made for. *)
Handles == [id : LocalIds, of : Tasks]
Plain == [id |-> -1, of |-> 0]
Entries == [task : Tasks, state : {"running", "finished"}, consumed : BOOLEAN]

VARIABLES
    permits,     \* GLOBAL_RUNNING_TASKS
    spawned,     \* how many tasks were spawned
    nextTaskId,  \* each VM's next_task_id
    table,       \* each VM's tasks
    handles,     \* the task values each VM's program can reach
    awaiting,    \* each VM: the entry that resolve_task took out of the table
    awaitedAs,   \* each VM: the handle it awaits
    kind,        \* what each thread runs: a block, or a host operation
    worker,      \* the thread of each task, and of the root VM
    result,      \* each task's completion: Ok with a value, or Err
    output,      \* each VM's captured output: how often each task's text is in it
    resolved     \* history: which task answered an await of which handle

taskVars == <<permits, spawned, nextTaskId, table, handles, awaiting, awaitedAs,
          kind, worker, result, output, resolved>>

Silent == [t \in Tasks |-> 0]

TaskInit ==
    /\ permits = 0
    /\ spawned = 0
    /\ nextTaskId = [v \in VMs |-> 0]
    /\ table = [v \in VMs |-> [i \in LocalIds |-> NoEntry]]
    /\ handles = [v \in VMs |-> {}]
    /\ awaiting = [v \in VMs |-> NoEntry]
    /\ awaitedAs = [v \in VMs |-> Plain]
    /\ kind = [v \in VMs |-> "block"]
    /\ worker = [v \in VMs |-> IF v = 0 THEN "running" ELSE "none"]
    /\ result = [t \in Tasks |-> Plain]
    /\ output = [v \in VMs |-> Silent]
    /\ resolved = {}

(* A VM executes words while its program runs and no await blocks it.      *)
Executing(v) ==
    /\ awaiting[v] = NoEntry
    /\ worker[v] = "running"
    /\ kind[v] = "block"

-----------------------------------------------------------------------------
(* spawn *)

Limit(v) == IF v = 0 THEN RootLimit ELSE DefaultLimit

(* Mutant: the counter is read and incremented past the limit.             *)
PermitOverrun(v) == permits <= Limit(v)

(* acquire_task_permit; without a permit spawn fails.                      *)
PermitAvailable(v) == permits < Limit(v)

(* Mutant: an id whose entry was released is handed out again.             *)
SmallestFreeId(v) ==
    CHOOSE i \in LocalIds :
        /\ table[v][i] = NoEntry
        /\ \A j \in LocalIds : table[v][j] = NoEntry => i <= j

(* reserve_task_slot: the id of the next task of this VM                   *)
NextId(v) == nextTaskId[v]

(* call_spawn and spawn_value_task: a block's VM captures the environment  *)
(* as it is before the new task value is pushed, and no task table.        *)
SpawnTask(v, k) ==
    LET t == spawned + 1
        i == NextId(v)
    IN  /\ Executing(v)
        /\ spawned < MaxTasks
        /\ PermitAvailable(v)
        /\ permits' = permits + 1
        /\ spawned' = t
        /\ nextTaskId' = [nextTaskId EXCEPT ![v] = @ + 1]
        /\ table' = [table EXCEPT ![v][i] =
                        [task |-> t, state |-> "running", consumed |-> FALSE]]
        /\ handles' = [handles EXCEPT ![t] = IF k = "block" THEN handles[v] ELSE {},
                                      ![v] = @ \cup {[id |-> i, of |-> t]}]
        /\ kind' = [kind EXCEPT ![t] = k]
        /\ worker' = [worker EXCEPT ![t] = "running"]
        /\ UNCHANGED <<awaiting, awaitedAs, result, output, resolved>>

-----------------------------------------------------------------------------
(* the worker thread: run_task_to_completion under catch_unwind            *)

(* Mutant: a panic unwinds past the worker, which publishes nothing.       *)
PanicUncaught(t) == "none"

(* The worker publishes a completion whether it returned or panicked.      *)
AfterPanic(t) == "ready"

(* The operation returns: the completion, a value or an error, is          *)
(* published and waiters wake up.  Only a value that is a task matters.    *)
Complete(t, value) ==
    /\ worker[t] = "running"
    /\ awaiting[t] = NoEntry
    /\ value \in handles[t] \cup {Plain}
    /\ result' = [result EXCEPT ![t] = value]
    /\ output' = [output EXCEPT ![t] = IF kind[t] = "block" THEN [output[t] EXCEPT ![t] = @ + 1] ELSE @]
    /\ worker' = [worker EXCEPT ![t] = "ready"]
    /\ UNCHANGED <<permits, spawned, nextTaskId, table, handles, awaiting, awaitedAs, kind, resolved>>

(* It panics: the completion is an error without output.                   *)
Panic(t) ==
    /\ worker[t] = "running"
    /\ awaiting[t] = NoEntry
    /\ output' = [output EXCEPT ![t] = Silent]
    /\ worker' = [worker EXCEPT ![t] = AfterPanic(t)]
    /\ UNCHANGED <<permits, spawned, nextTaskId, table, handles, awaiting, awaitedAs, kind, result, resolved>>

(* Mutant: the permit is given back twice.                                 *)
DroppedTwice == permits - 2

PermitDropped == permits - 1

(* The thread ends and drops its TaskPermit.                               *)
DropPermit(t) ==
    /\ worker[t] = "ready"
    /\ worker' = [worker EXCEPT ![t] = "ended"]
    /\ permits' = PermitDropped
    /\ UNCHANGED <<spawned, nextTaskId, table, handles, awaiting, awaitedAs, kind, result, output, resolved>>

-----------------------------------------------------------------------------
(* await: resolve_task takes the entry out of the table, waits for the     *)
(* completion, merges its output once and puts a finished entry back       *)

BeginAwait(v, h) ==
    /\ Executing(v)
    /\ h \in handles[v]
    /\ table[v][h.id] # NoEntry
    /\ awaiting' = [awaiting EXCEPT ![v] = table[v][h.id]]
    /\ awaitedAs' = [awaitedAs EXCEPT ![v] = h]
    /\ table' = [table EXCEPT ![v][h.id] = NoEntry]
    /\ UNCHANGED <<permits, spawned, nextTaskId, handles, kind, worker, result, output, resolved>>

(* Mutant: output_consumed is not looked at.                               *)
AlwaysMerge(v) == TRUE

MergesOutput(v) == ~awaiting[v].consumed

Published(t) == worker[t] = "ready" \/ worker[t] = "ended"

FinishAwait(v) ==
    LET t == awaiting[v].task IN
    /\ awaiting[v] # NoEntry
    /\ Published(t)
    /\ output' = [output EXCEPT ![v] = IF MergesOutput(v)
                                       THEN [u \in Tasks |-> @[u] + output[t][u]] ELSE @]
    /\ table' = [table EXCEPT ![v][awaitedAs[v].id] =
                    [task |-> t, state |-> "finished", consumed |-> TRUE]]
    /\ handles' = [handles EXCEPT ![v] = @ \cup ({result[t]} \ {Plain})]
    /\ resolved' = resolved \cup {[vm |-> v, handle |-> awaitedAs[v], by |-> t]}
    /\ awaiting' = [awaiting EXCEPT ![v] = NoEntry]
    /\ UNCHANGED <<permits, spawned, nextTaskId, awaitedAs, kind, worker, result>>

(* release_task: only an entry that was awaited                            *)
ReleaseTask(v, h) ==
    /\ Executing(v)
    /\ h \in handles[v]
    /\ table[v][h.id] # NoEntry
    /\ table[v][h.id].state = "finished"
    /\ table' = [table EXCEPT ![v][h.id] = NoEntry]
    /\ UNCHANGED <<permits, spawned, nextTaskId, handles, awaiting, awaitedAs, kind, worker, result, output, resolved>>

-----------------------------------------------------------------------------
TaskNext ==
    \/ \E v \in VMs :
          \/ \E k \in {"block", "value"} : SpawnTask(v, k)
          \/ \E h \in Handles : BeginAwait(v, h) \/ ReleaseTask(v, h)
          \/ FinishAwait(v)
    \/ \E t \in Tasks :
          \/ \E value \in Handles \cup {Plain} : Complete(t, value)
          \/ Panic(t)
          \/ DropPermit(t)

TaskSpec == TaskInit /\ [][TaskNext]_taskVars

(* Fairness: a worker whose program is not blocked in await ends (programs *)
(* are finite), threads are scheduled, and a notified waiter wakes up.     *)
TaskFairness ==
    /\ \A t \in Tasks : SF_taskVars(Complete(t, Plain) \/ Panic(t))
    /\ \A v \in VMs : WF_taskVars(FinishAwait(v))

FairTaskSpec == TaskSpec /\ TaskFairness

-----------------------------------------------------------------------------
(* Every variable has its type.                                            *)
TaskTypeOK ==
    /\ permits \in Nat
    /\ spawned \in 0 .. MaxTasks
    /\ nextTaskId \in [VMs -> Nat]
    /\ table \in [VMs -> [LocalIds -> Entries \cup {NoEntry}]]
    /\ handles \in [VMs -> SUBSET Handles]
    /\ awaiting \in [VMs -> Entries \cup {NoEntry}]
    /\ awaitedAs \in [VMs -> Handles \cup {Plain}]
    /\ kind \in [VMs -> {"block", "value"}]
    /\ worker \in [VMs -> {"none", "running", "ready", "ended"}]
    /\ result \in [Tasks -> Handles \cup {Plain}]
    /\ output \in [VMs -> [Tasks -> Nat]]
    /\ resolved \subseteq [vm : VMs, handle : Handles, by : Tasks]

MaxLimit == IF RootLimit > DefaultLimit THEN RootLimit ELSE DefaultLimit

(* Permits are neither leaked nor returned twice, by success, error or     *)
(* panic: the counter is the number of worker threads that have not ended, *)
(* and it never passes the largest limit in use.                           *)
PermitsAccounted ==
    /\ permits = Cardinality({t \in Tasks : worker[t] \in {"running", "ready"}})
    /\ permits <= MaxLimit

(* The text a task printed appears at most once in the output of any VM,   *)
(* however often its handle is awaited, and through however many levels of *)
(* tasks it is merged.                                                     *)
OutputMergedOnce == \A v \in VMs, t \in Tasks : output[v][t] <= 1

(* In one VM a task id means one task for ever: awaiting an id twice, with *)
(* releases and new spawns in between, never answers for two tasks.        *)
IdsKeepTheirMeaning ==
    \A r, s \in resolved : r.vm = s.vm /\ r.handle.id = s.handle.id => r.by = s.by

(* However a VM awaits, releases and spawns, an id answers for one task,   *)
(* and the task's text is merged once.                                     *)
AwaitsRepeatable == OutputMergedOnce /\ IdsKeepTheirMeaning

(* Every await returns, provided the task's own program ends: no VM is in  *)
(* an await for ever.                                                      *)
AwaitsReturn == \A v \in VMs : []<>(awaiting[v] = NoEntry)

(* await "waits for a spawned task if needed and returns its result", also *)
(* for a handle a task captured from the environment of its spawner or got *)
(* as the result of another task: it answers for the task that the handle  *)
(* was made for.                                                           *)
AwaitAnswersForItsTask == \A r \in resolved : r.by = r.handle.of

=============================================================================
