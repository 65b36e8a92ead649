--------------------------- MODULE ProcessRuntime ---------------------------
(***************************************************************************)
(* Retained process jobs (crates/ricochet_vm/src/process_runtime.rs).      *)
(*                                                                         *)
(* A ProcessRegistry is shared by every VM thread of a host.  Its mutex    *)
(* guards the job table; each job has a mutex of its own, contended by the *)
(* clients, by the two output readers and by the waiter thread that reaps  *)
(* the child and enforces the timeout.  A critical section that cannot     *)
(* block is one atomic step whose guard says that the mutex is free; the   *)
(* three that can block while holding a mutex (process_write, the kill and *)
(* wait of an expired job, and process_jobs) hold it across steps.         *)
(*                                                                         *)
(* The child process and the pipes are external: a child reads, writes and *)
(* exits as it likes, and a killed child only exits.                       *)
(***************************************************************************)
EXTENDS Integers, FiniteSets, FiniteSetsExt

CONSTANTS
    Clients,      \* VM threads that call the process words
    MaxStarts,    \* bound: ids that are ever handed out
    MaxRetained,  \* max_retained of the registry
    Streams,      \* the captured streams: stdout, stderr
    PipeCapacity, \* bytes an operating system pipe holds
    OutputMax,    \* stdout_max_bytes and stderr_max_bytes
    ChildOutput,  \* bound: bytes a child writes to one stream
    StdinOpen,    \* values of stdin_open the requests may have
    Inputs,       \* sizes of the stdin texts the clients may send
    KillFails     \* whether a kill may fail, may succeed, or both

(* who may hold a mutex besides a client                                   *)
Free == "free"
WaiterHolds == "waiter"

ASSUME ProcessAssumption ==
    /\ IsFiniteSet(Clients)
    /\ MaxStarts \in Nat
    /\ MaxRetained \in Nat
    /\ PipeCapacity \in Nat \ {0}
    /\ OutputMax \in Nat
    /\ ChildOutput \in Nat
    /\ StdinOpen \subseteq BOOLEAN
    /\ Inputs \subseteq Nat
    /\ KillFails \subseteq BOOLEAN /\ KillFails # {}
    /\ {Free, WaiterHolds} \cap Clients = {}

VARIABLES
    nextId, pending, jobs,    \* ProcessRegistryState
    regLock,                  \* the client that holds the registry mutex
    pc, arg, left, todo,      \* each client: step, job, bytes to write, jobs to list
    status, cancelRequested, stdin,  \* ProcessJobState
    lock,                     \* holder of each job's mutex
    waiter,                   \* step of each job's waiter thread
    buf, out, truncated,      \* per stream: a reader's chunk, retained bytes, flag
    os, stdinPipe, outPipe,   \* external: the child and its pipes
    produced                  \* history: bytes the child wrote to each stream

registryVars == <<nextId, pending, jobs, regLock>>
clientVars == <<pc, arg, left, todo>>
jobVars == <<status, cancelRequested, stdin>>
outputVars == <<buf, out, truncated, outPipe, produced>>
vars == <<registryVars, clientVars, jobVars, lock, waiter, outputVars, os, stdinPipe>>

Ids == 0 .. MaxStarts - 1
Statuses == {"none", "running", "exited", "failed", "cancelled", "timed_out"}
Terminal == {"exited", "failed", "cancelled", "timed_out"}

(* Clients between reserve_job_slot and the release of the pending start.  *)
StartSteps == {"spawn", "stdin", "started", "finish", "abort"}
Steps == StartSteps \cup {"idle", "snapshot", "write", "writing", "cancel",
                          "release", "remove", "jobs"}

Reading == 0
ReaderDone == -1
ReaderFailed == -2

Starting(id) == \E c \in Clients : pc[c] \in StartSteps /\ arg[c] = id

(* Mutant: a client or a worker goes on without the job's mutex.           *)
MutexIgnored(id) == TRUE

Unlocked(id) == lock[id] = Free

RegistryUnlocked == regLock = Free

Init ==
    /\ nextId = 0 /\ pending = 0 /\ jobs = {} /\ regLock = Free
    /\ pc = [c \in Clients |-> "idle"]
    /\ arg = [c \in Clients |-> 0]
    /\ left = [c \in Clients |-> 0]
    /\ todo = [c \in Clients |-> {}]
    /\ status = [id \in Ids |-> "none"]
    /\ cancelRequested = [id \in Ids |-> FALSE]
    /\ stdin = [id \in Ids |-> FALSE]
    /\ lock = [id \in Ids |-> Free]
    /\ waiter = [id \in Ids |-> "none"]
    /\ buf = [id \in Ids |-> [s \in Streams |-> Reading]]
    /\ out = [id \in Ids |-> [s \in Streams |-> 0]]
    /\ truncated = [id \in Ids |-> [s \in Streams |-> FALSE]]
    /\ os = [id \in Ids |-> "none"]
    /\ stdinPipe = [id \in Ids |-> 0]
    /\ outPipe = [id \in Ids |-> [s \in Streams |-> 0]]
    /\ produced = [id \in Ids |-> [s \in Streams |-> 0]]

-----------------------------------------------------------------------------
(* start *)

GoTo(c, step) == pc' = [pc EXCEPT ![c] = step]

(* Mutant: off by one at the limit.                                        *)
OneTooMany == Cardinality(jobs) + pending <= MaxRetained

SlotAvailable == Cardinality(jobs) + pending < MaxRetained

(* reserve_job_slot; a full registry answers RegistryFull, changing nothing. *)
ReserveJobSlot(c) ==
    /\ pc[c] = "idle"
    /\ RegistryUnlocked
    /\ nextId < MaxStarts
    /\ SlotAvailable
    /\ arg' = [arg EXCEPT ![c] = nextId]
    /\ nextId' = nextId + 1
    /\ pending' = pending + 1
    /\ GoTo(c, "spawn")
    /\ UNCHANGED <<jobs, regLock, left, todo, jobVars, lock, waiter, outputVars, os, stdinPipe>>

SpawnFails(c) ==
    /\ pc[c] = "spawn"
    /\ GoTo(c, "abort")
    /\ UNCHANGED <<registryVars, arg, left, todo, jobVars, lock, waiter, outputVars, os, stdinPipe>>

(* The child runs; its initial stdin, if any, is written by this thread    *)
(* before the readers and the waiter exist.                                *)
Spawn(c) ==
    /\ pc[c] = "spawn"
    /\ os' = [os EXCEPT ![arg[c]] = "alive"]
    /\ \E open \in StdinOpen : stdin' = [stdin EXCEPT ![arg[c]] = open]
    /\ \E n \in Inputs \cup {0} : left' = [left EXCEPT ![c] = n]
    /\ GoTo(c, "stdin")
    /\ UNCHANGED <<registryVars, arg, todo, status, cancelRequested, lock, waiter, outputVars, stdinPipe>>

(* Mutant: the pipe is treated as one byte larger than it is.              *)
PipeOverfull(id) == stdinPipe[id] <= PipeCapacity

PipeHasRoom(id) == stdinPipe[id] < PipeCapacity

(* One byte of a write_all, which blocks while the pipe is full.           *)
PipeByte(c) ==
    /\ left[c] > 0
    /\ os[arg[c]] # "exited"
    /\ PipeHasRoom(arg[c])
    /\ stdinPipe' = [stdinPipe EXCEPT ![arg[c]] = @ + 1]
    /\ left' = [left EXCEPT ![c] = @ - 1]
    /\ UNCHANGED <<registryVars, pc, arg, todo, jobVars, lock, waiter, outputVars, os>>

StdinByte(c) == pc[c] = "stdin" /\ PipeByte(c)

(* The child closed its end or exited: kill, wait, give the slot back.     *)
StdinFails(c) ==
    /\ pc[c] = "stdin"
    /\ left[c] > 0
    /\ os' = [os EXCEPT ![arg[c]] = "exited"]
    /\ stdin' = [stdin EXCEPT ![arg[c]] = FALSE]
    /\ left' = [left EXCEPT ![c] = 0]
    /\ GoTo(c, "abort")
    /\ UNCHANGED <<registryVars, arg, todo, status, cancelRequested, lock, waiter, outputVars, stdinPipe>>

(* Mutant: a start that ends keeps its slot.                               *)
SlotKept == pending

(* the saturating decrement that ends a start                              *)
StartEnded == IF pending = 0 THEN 0 ELSE pending - 1

(* release_pending_start, after an error                                   *)
ReleasePendingStart(c) ==
    /\ pc[c] = "abort"
    /\ RegistryUnlocked
    /\ pending' = StartEnded
    /\ GoTo(c, "idle")
    /\ UNCHANGED <<nextId, jobs, regLock, arg, left, todo, jobVars, lock, waiter, outputVars, os, stdinPipe>>

(* The job state is built, and the readers and the waiter are spawned.     *)
Launch(c) ==
    /\ pc[c] = "stdin"
    /\ left[c] = 0
    /\ status' = [status EXCEPT ![arg[c]] = "running"]
    /\ waiter' = [waiter EXCEPT ![arg[c]] = "poll"]
    /\ GoTo(c, "started")
    /\ UNCHANGED <<registryVars, arg, left, todo, cancelRequested, stdin, lock, outputVars, os, stdinPipe>>

(* The snapshot that start returns waits for the job's mutex ...           *)
StartSnapshot(c) ==
    /\ pc[c] = "started"
    /\ Unlocked(arg[c])
    /\ GoTo(c, "finish")
    /\ UNCHANGED <<registryVars, arg, left, todo, jobVars, lock, waiter, outputVars, os, stdinPipe>>

(* ... and finish_job_start for the registry's.                            *)
FinishJobStart(c) ==
    /\ pc[c] = "finish"
    /\ RegistryUnlocked
    /\ pending' = StartEnded
    /\ jobs' = jobs \cup {arg[c]}
    /\ GoTo(c, "idle")
    /\ UNCHANGED <<nextId, regLock, arg, left, todo, jobVars, lock, waiter, outputVars, os, stdinPipe>>

-----------------------------------------------------------------------------
(* job, read, write, cancel, release: job_arc first, then the job's mutex  *)

(* job_arc; an unknown id answers None, changing nothing.                  *)
JobArc(c, op, id) ==
    /\ pc[c] = "idle"
    /\ RegistryUnlocked
    /\ id \in jobs
    /\ arg' = [arg EXCEPT ![c] = id]
    /\ GoTo(c, op)
    /\ UNCHANGED <<registryVars, left, todo, jobVars, lock, waiter, outputVars, os, stdinPipe>>

(* job, read, and the snapshot that ends cancel.                           *)
Snapshot(c) ==
    /\ pc[c] = "snapshot"
    /\ Unlocked(arg[c])
    /\ GoTo(c, "idle")
    /\ UNCHANGED <<registryVars, arg, left, todo, jobVars, lock, waiter, outputVars, os, stdinPipe>>

Writable(id) == status[id] = "running" /\ ~cancelRequested[id] /\ stdin[id]

(* write takes the job's mutex and keeps it until the text is in the pipe. *)
BeginWrite(c) ==
    /\ pc[c] = "write"
    /\ Unlocked(arg[c])
    /\ \/ /\ ~Writable(arg[c])
          /\ GoTo(c, "idle")
          /\ UNCHANGED <<left, lock>>
       \/ /\ Writable(arg[c])
          /\ \E n \in Inputs : left' = [left EXCEPT ![c] = n]
          /\ lock' = [lock EXCEPT ![arg[c]] = c]
          /\ GoTo(c, "writing")
    /\ UNCHANGED <<registryVars, arg, todo, jobVars, waiter, outputVars, os, stdinPipe>>

WriteByte(c) == pc[c] = "writing" /\ PipeByte(c)

WriteReturns(c) ==
    /\ lock' = [lock EXCEPT ![arg[c]] = Free]
    /\ left' = [left EXCEPT ![c] = 0]
    /\ GoTo(c, "idle")
    /\ UNCHANGED <<registryVars, arg, todo, jobVars, waiter, outputVars, os, stdinPipe>>

WriteDone(c) == pc[c] = "writing" /\ left[c] = 0 /\ WriteReturns(c)

(* The child closed its end or exited.                                     *)
WriteFails(c) == pc[c] = "writing" /\ left[c] > 0 /\ WriteReturns(c)

(* Mutant: the kill is forgotten.                                          *)
NotKilled(id) == os[id]

(* The child after a kill.                                                 *)
Killed(id) == IF os[id] = "alive" THEN "dying" ELSE os[id]

(* kill may fail: the error is recorded and nothing else happens.          *)
KillOutcomes(id) == {IF fails THEN os[id] ELSE Killed(id) : fails \in KillFails}

(* Mutant: cancel itself ends the job, as the waiter still polls it.       *)
CancelEndsJob(c) ==
    /\ pc[c] = "cancel"
    /\ Unlocked(arg[c])
    /\ status' = [status EXCEPT ![arg[c]] = "cancelled"]
    /\ cancelRequested' = [cancelRequested EXCEPT ![arg[c]] = TRUE]
    /\ \E after \in KillOutcomes(arg[c]) : os' = [os EXCEPT ![arg[c]] = after]
    /\ GoTo(c, "snapshot")
    /\ UNCHANGED <<registryVars, arg, left, todo, stdin, lock, waiter, outputVars, stdinPipe>>

(* cancel: no effect unless the job runs; the waiter will report the end.  *)
Cancel(c) ==
    /\ pc[c] = "cancel"
    /\ Unlocked(arg[c])
    /\ \/ /\ status[arg[c]] = "running"
          /\ cancelRequested' = [cancelRequested EXCEPT ![arg[c]] = TRUE]
          /\ \E after \in KillOutcomes(arg[c]) : os' = [os EXCEPT ![arg[c]] = after]
       \/ /\ status[arg[c]] # "running"
          /\ UNCHANGED <<cancelRequested, os>>
    /\ GoTo(c, "snapshot")
    /\ UNCHANGED <<registryVars, arg, left, todo, status, stdin, lock, waiter, outputVars, stdinPipe>>

(* Mutant: a job whose cancellation was requested counts as ended.         *)
CancelledIsReleasable(id) == status[id] # "running" \/ cancelRequested[id]

Releasable(id) == status[id] # "running"

(* release looks at the status under the job's mutex ...                   *)
CheckReleasable(c) ==
    /\ pc[c] = "release"
    /\ Unlocked(arg[c])
    /\ GoTo(c, IF Releasable(arg[c]) THEN "remove" ELSE "idle")
    /\ UNCHANGED <<registryVars, arg, left, todo, jobVars, lock, waiter, outputVars, os, stdinPipe>>

(* ... and removes the job under the registry's.                           *)
RemoveJob(c) ==
    /\ pc[c] = "remove"
    /\ RegistryUnlocked
    /\ jobs' = jobs \ {arg[c]}
    /\ GoTo(c, "idle")
    /\ UNCHANGED <<nextId, pending, regLock, arg, left, todo, jobVars, lock, waiter, outputVars, os, stdinPipe>>

-----------------------------------------------------------------------------
(* jobs: every snapshot is taken while the registry mutex is held          *)

BeginJobs(c) ==
    /\ pc[c] = "idle"
    /\ RegistryUnlocked
    /\ regLock' = c
    /\ todo' = [todo EXCEPT ![c] = jobs]
    /\ GoTo(c, "jobs")
    /\ UNCHANGED <<nextId, pending, jobs, arg, left, jobVars, lock, waiter, outputVars, os, stdinPipe>>

SnapshotNext(c) ==
    /\ pc[c] = "jobs"
    /\ todo[c] # {}
    /\ LET id == Min(todo[c])
       IN  /\ Unlocked(id)
           /\ todo' = [todo EXCEPT ![c] = @ \ {id}]
    /\ UNCHANGED <<registryVars, pc, arg, left, jobVars, lock, waiter, outputVars, os, stdinPipe>>

EndJobs(c) ==
    /\ pc[c] = "jobs"
    /\ todo[c] = {}
    /\ regLock' = Free
    /\ GoTo(c, "idle")
    /\ UNCHANGED <<nextId, pending, jobs, arg, left, todo, jobVars, lock, waiter, outputVars, os, stdinPipe>>

-----------------------------------------------------------------------------
(* spawn_waiter: try_wait under the mutex, act on its answer under a later *)
(* acquisition.  A poll that finds the child alive before the timeout      *)
(* sleeps and polls again, changing nothing.                               *)

WaiterTo(id, step) == waiter' = [waiter EXCEPT ![id] = step]

PollExited(id) ==
    /\ waiter[id] = "poll"
    /\ Unlocked(id)
    /\ os[id] = "exited"
    /\ WaiterTo(id, "exited")
    /\ UNCHANGED <<registryVars, clientVars, jobVars, lock, outputVars, os, stdinPipe>>

(* Mutant: the deadline is never looked at.                                *)
DeadlineIgnored(id) == FALSE /\ UNCHANGED vars

PollExpired(id) ==
    /\ waiter[id] = "poll"
    /\ Unlocked(id)
    /\ os[id] # "exited"
    /\ WaiterTo(id, "expired")
    /\ UNCHANGED <<registryVars, clientVars, jobVars, lock, outputVars, os, stdinPipe>>

PollFails(id) ==
    /\ waiter[id] = "poll"
    /\ Unlocked(id)
    /\ WaiterTo(id, "failed")
    /\ UNCHANGED <<registryVars, clientVars, jobVars, lock, outputVars, os, stdinPipe>>

(* Mutant: the request to cancel is not looked at.                         *)
CancelForgotten(id) == "exited"

(* status of a child whose exit was observed                               *)
ExitStatus(id) == IF cancelRequested[id] THEN "cancelled" ELSE "exited"

RecordExit(id) ==
    /\ waiter[id] = "exited"
    /\ Unlocked(id)
    /\ status' = [status EXCEPT ![id] = ExitStatus(id)]
    /\ stdin' = [stdin EXCEPT ![id] = FALSE]
    /\ WaiterTo(id, "done")
    /\ UNCHANGED <<registryVars, clientVars, cancelRequested, lock, outputVars, os, stdinPipe>>

(* The job expires: the mutex is kept during kill and wait.                *)
Expire(id) ==
    /\ waiter[id] = "expired"
    /\ Unlocked(id)
    /\ status' = [status EXCEPT ![id] = "timed_out"]
    /\ \E after \in KillOutcomes(id) : os' = [os EXCEPT ![id] = after]
    /\ lock' = [lock EXCEPT ![id] = WaiterHolds]
    /\ WaiterTo(id, "reap")
    /\ UNCHANGED <<registryVars, clientVars, cancelRequested, stdin, outputVars, stdinPipe>>

Reap(id) ==
    /\ waiter[id] = "reap"
    /\ os[id] = "exited"
    /\ stdin' = [stdin EXCEPT ![id] = FALSE]
    /\ lock' = [lock EXCEPT ![id] = Free]
    /\ WaiterTo(id, "done")
    /\ UNCHANGED <<registryVars, clientVars, status, cancelRequested, outputVars, os, stdinPipe>>

(* try_wait failed: the child handle is dropped without a kill.            *)
RecordFailure(id) ==
    /\ waiter[id] = "failed"
    /\ Unlocked(id)
    /\ status' = [status EXCEPT ![id] = "failed"]
    /\ stdin' = [stdin EXCEPT ![id] = FALSE]
    /\ WaiterTo(id, "done")
    /\ UNCHANGED <<registryVars, clientVars, cancelRequested, lock, outputVars, os, stdinPipe>>

-----------------------------------------------------------------------------
(* spawn_output_reader and append_output                                   *)

(* Mutant: the reader stops with the waiter, when the job ends.            *)
StopWithWaiter(id, s) == waiter[id] \notin {"none", "done"} /\ buf[id][s] = Reading

ReaderAlive(id, s) == waiter[id] # "none" /\ buf[id][s] = Reading

ReadChunk(id, s) ==
    /\ ReaderAlive(id, s)
    /\ \E n \in 1 .. outPipe[id][s] :
          /\ buf' = [buf EXCEPT ![id][s] = n]
          /\ outPipe' = [outPipe EXCEPT ![id][s] = @ - n]
    /\ UNCHANGED <<registryVars, clientVars, jobVars, lock, waiter, out, truncated, produced, os, stdinPipe>>

Room(id, s) == OutputMax - out[id][s]

(* Mutant: a chunk that does not fit as a whole is dropped as a whole.     *)
WholeChunk(id, s) == IF buf[id][s] <= Room(id, s) THEN buf[id][s] ELSE 0

(* bytes of a chunk that still fit                                         *)
Take(id, s) == IF buf[id][s] <= Room(id, s) THEN buf[id][s] ELSE Room(id, s)

AppendOutput(id, s) ==
    /\ buf[id][s] > 0
    /\ Unlocked(id)
    /\ out' = [out EXCEPT ![id][s] = @ + Take(id, s)]
    /\ truncated' = [truncated EXCEPT ![id][s] = @ \/ Take(id, s) < buf[id][s]]
    /\ buf' = [buf EXCEPT ![id][s] = Reading]
    /\ UNCHANGED <<registryVars, clientVars, jobVars, lock, waiter, outPipe, produced, os, stdinPipe>>

(* read answers 0 once no writer is left and the pipe is empty.            *)
EndOfFile(id, s) == os[id] = "exited" /\ outPipe[id][s] = 0

ReaderEof(id, s) ==
    /\ ReaderAlive(id, s)
    /\ EndOfFile(id, s)
    /\ buf' = [buf EXCEPT ![id][s] = ReaderDone]
    /\ UNCHANGED <<registryVars, clientVars, jobVars, lock, waiter, out, truncated, outPipe, produced, os, stdinPipe>>

(* A read error is recorded under the job's mutex and ends the reader.     *)
ReaderError(id, s) ==
    /\ ReaderAlive(id, s)
    /\ Unlocked(id)
    /\ buf' = [buf EXCEPT ![id][s] = ReaderFailed]
    /\ UNCHANGED <<registryVars, clientVars, jobVars, lock, waiter, out, truncated, outPipe, produced, os, stdinPipe>>

-----------------------------------------------------------------------------
(* external: the child process                                             *)

ChildReads(id) ==
    /\ os[id] = "alive"
    /\ stdinPipe[id] > 0
    /\ stdinPipe' = [stdinPipe EXCEPT ![id] = @ - 1]
    /\ UNCHANGED <<registryVars, clientVars, jobVars, lock, waiter, outputVars, os>>

ChildWrites(id, s) ==
    /\ os[id] = "alive"
    /\ outPipe[id][s] < PipeCapacity
    /\ produced[id][s] < ChildOutput
    /\ outPipe' = [outPipe EXCEPT ![id][s] = @ + 1]
    /\ produced' = [produced EXCEPT ![id][s] = @ + 1]
    /\ UNCHANGED <<registryVars, clientVars, jobVars, lock, waiter, buf, out, truncated, os, stdinPipe>>

ChildExits(id) ==
    /\ os[id] \in {"alive", "dying"}
    /\ os' = [os EXCEPT ![id] = "exited"]
    /\ UNCHANGED <<registryVars, clientVars, jobVars, lock, waiter, outputVars, stdinPipe>>

-----------------------------------------------------------------------------
ClientStep(c) ==
    \/ SpawnFails(c) \/ Spawn(c) \/ StdinByte(c) \/ StdinFails(c)
    \/ ReleasePendingStart(c) \/ Launch(c) \/ StartSnapshot(c) \/ FinishJobStart(c)
    \/ Snapshot(c) \/ BeginWrite(c) \/ WriteByte(c) \/ WriteDone(c) \/ WriteFails(c)
    \/ Cancel(c) \/ CheckReleasable(c) \/ RemoveJob(c)
    \/ SnapshotNext(c) \/ EndJobs(c)

ClientCall(c) ==
    \/ ReserveJobSlot(c)
    \/ BeginJobs(c)
    \/ \E id \in Ids, op \in {"snapshot", "write", "cancel", "release"} : JobArc(c, op, id)

WaiterStep(id) ==
    \/ PollExited(id) \/ PollExpired(id) \/ PollFails(id)
    \/ RecordExit(id) \/ Expire(id) \/ Reap(id) \/ RecordFailure(id)

ReaderStep(id, s) ==
    ReadChunk(id, s) \/ AppendOutput(id, s) \/ ReaderEof(id, s) \/ ReaderError(id, s)

ChildStep(id) ==
    ChildReads(id) \/ ChildExits(id) \/ \E s \in Streams : ChildWrites(id, s)

Next ==
    \/ \E c \in Clients : ClientCall(c) \/ ClientStep(c)
    \/ \E id \in Ids : WaiterStep(id) \/ ChildStep(id) \/ \E s \in Streams : ReaderStep(id, s)

Spec == Init /\ [][Next]_vars

(***************************************************************************)
(* Fairness: threads are scheduled and no mutex starves a thread for ever, *)
(* a killed child exits, and the clock reaches the timeout.  A live child  *)
(* owes nothing: it may never read its stdin, write or exit.               *)
(***************************************************************************)
ClientProgress(c) ==
    \/ Spawn(c) \/ StdinByte(c) \/ ReleasePendingStart(c) \/ Launch(c) \/ StartSnapshot(c) \/ FinishJobStart(c)
    \/ os[arg[c]] = "exited" /\ (StdinFails(c) \/ WriteFails(c))
    \/ Snapshot(c) \/ BeginWrite(c) \/ WriteByte(c) \/ WriteDone(c)
    \/ Cancel(c) \/ CheckReleasable(c) \/ RemoveJob(c) \/ SnapshotNext(c) \/ EndJobs(c)

WaiterProgress(id) ==
    PollExited(id) \/ PollExpired(id) \/ RecordExit(id) \/ Expire(id) \/ Reap(id) \/ RecordFailure(id)

Fairness ==
    /\ \A c \in Clients : SF_vars(ClientProgress(c))
    /\ \A id \in Ids :
          /\ SF_vars(WaiterProgress(id))
          /\ WF_vars(os[id] = "dying" /\ ChildExits(id))
          /\ \A s \in Streams :
                /\ SF_vars(AppendOutput(id, s))
                /\ WF_vars(ReadChunk(id, s) \/ ReaderEof(id, s))

FairSpec == Spec /\ Fairness

-----------------------------------------------------------------------------
(* Every variable has its type; a lock is free or held by one thread.      *)
TypeOK ==
    /\ nextId \in 0 .. MaxStarts
    /\ pending \in Nat
    /\ jobs \subseteq Ids
    /\ regLock \in Clients \cup {Free}
    /\ pc \in [Clients -> Steps]
    /\ arg \in [Clients -> Nat]
    /\ left \in [Clients -> Nat]
    /\ todo \in [Clients -> SUBSET Ids]
    /\ status \in [Ids -> Statuses]
    /\ cancelRequested \in [Ids -> BOOLEAN]
    /\ stdin \in [Ids -> BOOLEAN]
    /\ lock \in [Ids -> Clients \cup {Free, WaiterHolds}]
    /\ waiter \in [Ids -> {"none", "poll", "exited", "expired", "failed", "reap", "done"}]
    /\ buf \in [Ids -> [Streams -> ReaderFailed .. PipeCapacity]]
    /\ out \in [Ids -> [Streams -> 0 .. OutputMax]]
    /\ truncated \in [Ids -> [Streams -> BOOLEAN]]
    /\ os \in [Ids -> {"none", "alive", "dying", "exited"}]
    /\ stdinPipe \in [Ids -> 0 .. PipeCapacity]
    /\ outPipe \in [Ids -> [Streams -> 0 .. PipeCapacity]]
    /\ produced \in [Ids -> [Streams -> 0 .. ChildOutput]]

StartingClients == {c \in Clients : pc[c] \in StartSteps}

(* The registry never holds more than max_retained jobs, starts in flight  *)
(* included, and no path through start (spawn error, stdin error, success) *)
(* leaks or double-frees its pending slot.                                 *)
SlotsAccounted ==
    /\ pending = Cardinality(StartingClients)
    /\ Cardinality(jobs) + pending <= MaxRetained

(* Every child that still runs can be reached: its job is retained or its  *)
(* start is still in progress.  release may therefore never drop a job     *)
(* whose child is alive, whatever cancel, exit and timeout do between its  *)
(* check and its removal.  The exception is a job whose try_wait failed,   *)
(* the one path of the waiter that drops the child without killing it.     *)
NoOrphanedChild ==
    \A id \in Ids :
        os[id] \in {"alive", "dying"} => id \in jobs \/ Starting(id) \/ status[id] = "failed"

(* A job that was cancelled while it ran is never reported as exited: the  *)
(* waiter reads cancel_requested when it records the exit, not when it     *)
(* observed it.                                                            *)
CancelNotLost == \A id \in Ids : status[id] = "exited" => ~cancelRequested[id]

(* While process_write feeds a child no other thread retires the job: the  *)
(* job is running, not cancelled, and its stdin is open until write ends.  *)
WriteSeesLiveJob == \A c \in Clients : pc[c] = "writing" => Writable(arg[c])

(* A terminal status is final, and a job's waiter never outlives it: what  *)
(* process_job reported once about a finished job it reports for ever.     *)
TerminalIsFinal ==
    [][\A id \in Ids : status[id] \in Terminal => status'[id] = status[id]]_vars

(* Bytes that reached append_output.                                       *)
Received(id, s) == produced[id][s] - outPipe[id][s] - Max({buf[id][s], 0})

(* The retained output is exactly the first OutputMax bytes that the child *)
(* wrote and a reader took, and the truncation flag is up exactly when a   *)
(* byte was dropped.                                                       *)
OutputAccounted ==
    \A id \in Ids, s \in Streams :
        /\ out[id][s] = Min({Received(id, s), OutputMax})
        /\ truncated[id][s] <=> Received(id, s) > OutputMax

(* The registry keeps the contract of RetainedRegistry: an id is handed    *)
(* out once, a reservation ends once, and the limit covers both.           *)
Retained == INSTANCE RetainedRegistry
    WITH reserved <- {arg[c] : c \in StartingClients}, retained <- jobs

RetainedSpec == Retained!Spec

(* No child leaves its stdin full for ever.                                *)
StdinTaken == \A id \in Ids : []<>(os[id] # "alive" \/ stdinPipe[id] < PipeCapacity)

(* Every job ends: its child exits, or the waiter enforces the timeout     *)
(* (request.timeout) even if the child never stops.  The one exception: a  *)
(* writer that waits for the child holds the mutex the waiter needs.       *)
(* (A job leaves "running" once, for a terminal status.)                   *)
JobsEnd == StdinTaken => \A id \in Ids : []<>(status[id] # "running")

(* Every call returns, with the same exception.                            *)
CallsReturn == StdinTaken => \A c \in Clients : []<>(pc[c] = "idle")

(* Once a job ended, everything its child wrote reaches the job's buffers, *)
(* unless reading the pipe failed: no job stays over for ever with output  *)
(* that is neither lost nor there.                                         *)
OutputDrained ==
    \A id \in Ids, s \in Streams :
        []<>(status[id] \in Terminal \ {"failed"} =>
                buf[id][s] = ReaderFailed \/ Received(id, s) = produced[id][s])

(* process_cancel "requests cancellation for a running process job and     *)
(* returns the latest snapshot": the call returns.                         *)
CancelReturns == \A c \in Clients : pc[c] = "cancel" ~> pc[c] = "idle"

=============================================================================
