------------------------ MODULE ProcessRuntimeProofs ------------------------
(***************************************************************************)
(* Theorems about ProcessRuntime for any number of clients, jobs, streams  *)
(* and bytes.                                                              *)
(***************************************************************************)
EXTENDS ProcessRuntime, FiniteSetTheorems, TLAPS

Watching == {"poll", "exited", "expired", "failed"}
UsingSteps == {"started", "finish", "snapshot", "write", "writing", "cancel", "release", "remove"}

(* A job's status says how far its waiter is, the waiter only reports the  *)
(* exit of a child that exited, and ids from nextId on are unused.         *)
JobInv ==
    \A id \in Ids :
        /\ waiter[id] = "none" <=> status[id] = "none"
        /\ waiter[id] \in Watching <=> status[id] = "running"
        /\ waiter[id] = "reap" <=> lock[id] = WaiterHolds
        /\ waiter[id] = "exited" => os[id] = "exited"
        /\ waiter[id] = "done" /\ status[id] # "failed" => os[id] = "exited"
        /\ status[id] = "none" => lock[id] = Free
        /\ status[id] = "exited" => ~cancelRequested[id]
        /\ id \in jobs => status[id] # "none"
        /\ nextId <= id => status[id] = "none" /\ os[id] = "none"

(* What a client knows of the job it works on.                             *)
ClientInv ==
    \A c \in Clients :
        /\ pc[c] \notin {"idle", "jobs"} => arg[c] \in Ids /\ arg[c] < nextId
        /\ pc[c] = "spawn" => os[arg[c]] = "none"
        /\ pc[c] = "abort" => os[arg[c]] \in {"none", "exited"}
        /\ pc[c] \in {"spawn", "stdin", "abort"} => status[arg[c]] = "none"
        /\ pc[c] \in UsingSteps => status[arg[c]] # "none"
        /\ pc[c] = "writing" => lock[arg[c]] = c /\ Writable(arg[c])
        /\ pc[c] = "remove" => waiter[arg[c]] = "done"
        /\ pc[c] \in StartSteps => arg[c] \notin jobs

(* Starts in flight have different ids.                                    *)
StartInv ==
    \A c, d \in Clients :
        pc[c] \in StartSteps /\ pc[d] \in StartSteps /\ arg[c] = arg[d] => c = d

Inv == TypeOK /\ JobInv /\ ClientInv /\ StartInv /\ NoOrphanedChild

-----------------------------------------------------------------------------
(* The initial state satisfies the invariant.                              *)
LEMMA InitInv == Init => Inv
  <1> SUFFICES ASSUME Init PROVE Inv
    OBVIOUS
  <1>1. TypeOK
    BY ProcessAssumption DEF Init, TypeOK, Ids, Steps, StartSteps, Statuses, Reading,
       ReaderFailed
  <1>2. JobInv /\ ClientInv /\ StartInv /\ NoOrphanedChild
    BY DEF Init, JobInv, ClientInv, StartInv, NoOrphanedChild, Watching, UsingSteps,
       StartSteps, Free, WaiterHolds
  <1> QED BY <1>1, <1>2 DEF Inv

(* Every step keeps the types.  Steps of clients ...                       *)
LEMMA ClientTypes ==
    ASSUME TypeOK, NEW c \in Clients, ClientCall(c) \/ ClientStep(c),
           pc[c] \notin {"idle", "jobs"} => arg[c] \in Ids
    PROVE  TypeOK'
  <1> USE DEF registryVars, clientVars, jobVars, outputVars, GoTo, Steps, StartSteps
  <1>1. CASE ReserveJobSlot(c)
    BY <1>1, ProcessAssumption DEF ReserveJobSlot, TypeOK
  <1>2. CASE BeginJobs(c)
    BY <1>2 DEF BeginJobs, TypeOK
  <1>3. ASSUME NEW id \in Ids, NEW op \in {"snapshot", "write", "cancel", "release"},
               JobArc(c, op, id)
        PROVE  TypeOK'
    <2>1. id \in Nat
      BY ProcessAssumption DEF Ids
    <2>2. pc' \in [Clients -> Steps] /\ arg' \in [Clients -> Nat]
      BY <1>3, <2>1 DEF JobArc, TypeOK
    <2> QED BY <1>3, <2>2 DEF JobArc, TypeOK
  <1>4. CASE SpawnFails(c) \/ StartSnapshot(c) \/ Snapshot(c) \/ CheckReleasable(c) \/ SnapshotNext(c) \/ EndJobs(c)
    BY <1>4 DEF SpawnFails, StartSnapshot, Snapshot, CheckReleasable, SnapshotNext, EndJobs, TypeOK
  <1>5. CASE Spawn(c)
    <2>0. PICK open \in StdinOpen, n \in Inputs \cup {0} :
             stdin' = [stdin EXCEPT ![arg[c]] = open] /\ left' = [left EXCEPT ![c] = n]
      BY <1>5 DEF Spawn
    <2>1. left' \in [Clients -> Nat] /\ stdin' \in [Ids -> BOOLEAN]
      <3>1. open \in BOOLEAN /\ n \in Nat
        BY ProcessAssumption
      <3> QED BY <2>0, <3>1 DEF TypeOK
    <2>2. pc' \in [Clients -> Steps] /\ os' \in [Ids -> {"none", "alive", "dying", "exited"}]
      BY <1>5 DEF Spawn, TypeOK
    <2> QED BY <1>5, <2>1, <2>2 DEF Spawn, TypeOK
  <1>6. CASE StdinByte(c) \/ WriteByte(c)
    <2>1. PipeByte(c)
      BY <1>6 DEF StdinByte, WriteByte
    <2>2. left' \in [Clients -> Nat]
      BY <2>1 DEF PipeByte, TypeOK
    <2>3. stdinPipe[arg[c]] + 1 \in 0 .. PipeCapacity
      BY <1>6, <2>1, ProcessAssumption
         DEF StdinByte, WriteByte, PipeByte, PipeHasRoom, TypeOK
    <2>4. stdinPipe' \in [Ids -> 0 .. PipeCapacity]
      BY <2>1, <2>3 DEF PipeByte, TypeOK
    <2> QED BY <2>1, <2>2, <2>4 DEF PipeByte, TypeOK
  <1>7. CASE StdinFails(c)
    BY <1>7 DEF StdinFails, TypeOK
  <1>8. CASE ReleasePendingStart(c)
    BY <1>8 DEF ReleasePendingStart, StartEnded, TypeOK
  <1>9. CASE Launch(c)
    BY <1>9 DEF Launch, Statuses, TypeOK
  <1>10. CASE FinishJobStart(c)
    BY <1>10 DEF FinishJobStart, StartEnded, TypeOK
  <1>11. CASE BeginWrite(c)
    <2>1. CASE ~Writable(arg[c])
      BY <1>11, <2>1 DEF BeginWrite, TypeOK
    <2>2. CASE Writable(arg[c])
      <3>1. PICK n \in Inputs : left' = [left EXCEPT ![c] = n]
        BY <1>11, <2>2 DEF BeginWrite
      <3>2. left' \in [Clients -> Nat]
        BY <3>1, ProcessAssumption DEF TypeOK
      <3>3. pc' \in [Clients -> Steps] /\ lock' \in [Ids -> Clients \cup {Free, WaiterHolds}]
        <4>1. lock' = [lock EXCEPT ![arg[c]] = c] /\ pc' = [pc EXCEPT ![c] = "writing"]
          BY <1>11, <2>2 DEF BeginWrite
        <4> QED BY <4>1 DEF TypeOK
      <3> QED BY <1>11, <3>2, <3>3 DEF BeginWrite, TypeOK
    <2> QED BY <2>1, <2>2
  <1>12. CASE WriteDone(c) \/ WriteFails(c)
    <2>1. WriteReturns(c)
      BY <1>12 DEF WriteDone, WriteFails
    <2>2. /\ left' \in [Clients -> Nat]
          /\ pc' \in [Clients -> Steps]
          /\ lock' \in [Ids -> Clients \cup {Free, WaiterHolds}]
      BY <2>1 DEF WriteReturns, TypeOK
    <2> QED BY <2>1, <2>2 DEF WriteReturns, TypeOK
  <1>13. CASE Cancel(c)
    <2>1. pc' \in [Clients -> Steps] /\ cancelRequested' \in [Ids -> BOOLEAN]
      BY <1>13 DEF Cancel, TypeOK
    <2>2. os' \in [Ids -> {"none", "alive", "dying", "exited"}]
      <3>1. KillOutcomes(arg[c]) \subseteq {"none", "alive", "dying", "exited"}
        BY <1>13 DEF Cancel, KillOutcomes, Killed, TypeOK
      <3>2. CASE os' = os
        BY <3>2 DEF TypeOK
      <3>3. CASE \E after \in KillOutcomes(arg[c]) : os' = [os EXCEPT ![arg[c]] = after]
        BY <3>1, <3>3 DEF TypeOK
      <3> QED BY <1>13, <3>2, <3>3 DEF Cancel
    <2> QED BY <1>13, <2>1, <2>2 DEF Cancel, TypeOK
  <1>14. CASE RemoveJob(c)
    BY <1>14 DEF RemoveJob, TypeOK
  <1> QED BY <1>1, <1>2, <1>3, <1>4, <1>5, <1>6, <1>7, <1>8, <1>9, <1>10, <1>11, <1>12,
             <1>13, <1>14 DEF ClientCall, ClientStep

(* ... of waiters and children ...                                         *)
LEMMA WaiterTypes ==
    ASSUME TypeOK, NEW id \in Ids, WaiterStep(id) \/ ChildStep(id)
    PROVE  TypeOK'
  <1> USE DEF registryVars, clientVars, jobVars, outputVars, WaiterTo
  <1>1. CASE PollExited(id) \/ PollExpired(id) \/ PollFails(id)
    BY <1>1 DEF PollExited, PollExpired, PollFails, TypeOK
  <1>2. CASE RecordExit(id)
    <2>1. ExitStatus(id) \in Statuses
      BY DEF ExitStatus, Statuses
    <2> QED BY <1>2, <2>1 DEF RecordExit, TypeOK
  <1>3. CASE RecordFailure(id)
    BY <1>3 DEF RecordFailure, Statuses, TypeOK
  <1>4. CASE Expire(id)
    <2>1. KillOutcomes(id) \subseteq {"none", "alive", "dying", "exited"}
      BY DEF KillOutcomes, Killed, TypeOK
    <2>2. "timed_out" \in Statuses
      BY DEF Statuses
    <2>3. os' \in [Ids -> {"none", "alive", "dying", "exited"}]
      BY <1>4, <2>1 DEF Expire, TypeOK
    <2> QED BY <1>4, <2>2, <2>3 DEF Expire, TypeOK
  <1>5. CASE Reap(id)
    BY <1>5 DEF Reap, TypeOK
  <1>6. CASE ChildReads(id)
    <2>1. stdinPipe' \in [Ids -> 0 .. PipeCapacity]
      BY <1>6, ProcessAssumption DEF ChildReads, TypeOK
    <2> QED BY <1>6, <2>1 DEF ChildReads, TypeOK
  <1>7. CASE ChildExits(id)
    BY <1>7 DEF ChildExits, TypeOK
  <1>8. ASSUME NEW s \in Streams, ChildWrites(id, s) PROVE TypeOK'
    <2>1. outPipe[id][s] + 1 \in 0 .. PipeCapacity /\ produced[id][s] + 1 \in 0 .. ChildOutput
      BY <1>8, ProcessAssumption DEF ChildWrites, TypeOK
    <2> QED BY <1>8, <2>1 DEF ChildWrites, TypeOK
  <1> QED BY <1>1, <1>2, <1>3, <1>4, <1>5, <1>6, <1>7, <1>8 DEF WaiterStep, ChildStep

(* ... and of readers.                                                     *)
LEMMA ReaderTypes ==
    ASSUME TypeOK, NEW id \in Ids, NEW s \in Streams, ReaderStep(id, s)
    PROVE  TypeOK'
  <1> USE DEF registryVars, clientVars, jobVars, outputVars
  <1>1. /\ buf[id][s] \in ReaderFailed .. PipeCapacity
        /\ outPipe[id][s] \in 0 .. PipeCapacity
        /\ out[id][s] \in 0 .. OutputMax
    BY DEF TypeOK
  <1>2. CASE ReadChunk(id, s)
    <2>1. PICK n \in 1 .. outPipe[id][s] :
             /\ buf' = [buf EXCEPT ![id][s] = n]
             /\ outPipe' = [outPipe EXCEPT ![id][s] = @ - n]
      BY <1>2 DEF ReadChunk
    <2>2. n \in ReaderFailed .. PipeCapacity /\ outPipe[id][s] - n \in 0 .. PipeCapacity
      BY <1>1, ProcessAssumption DEF ReaderFailed
    <2> QED BY <1>2, <2>1, <2>2 DEF ReadChunk, TypeOK
  <1>3. CASE AppendOutput(id, s)
    <2>1. out[id][s] + Take(id, s) \in 0 .. OutputMax /\ Reading \in ReaderFailed .. PipeCapacity
      BY <1>1, <1>3, ProcessAssumption
         DEF AppendOutput, Take, Room, Reading, ReaderFailed
    <2>2. truncated' \in [Ids -> [Streams -> BOOLEAN]]
      BY <1>3 DEF AppendOutput, TypeOK
    <2> QED BY <1>3, <2>1, <2>2 DEF AppendOutput, TypeOK
  <1>4. CASE ReaderEof(id, s) \/ ReaderError(id, s)
    <2>1. {ReaderDone, ReaderFailed} \subseteq ReaderFailed .. PipeCapacity
      BY ProcessAssumption DEF ReaderDone, ReaderFailed
    <2>2. CASE ReaderEof(id, s)
      BY <2>1, <2>2 DEF ReaderEof, TypeOK
    <2>3. CASE ReaderError(id, s)
      BY <2>1, <2>3 DEF ReaderError, TypeOK
    <2> QED BY <1>4, <2>2, <2>3
  <1> QED BY <1>2, <1>3, <1>4 DEF ReaderStep

(* The job of a client at work has an id that was handed out.              *)
LEMMA ArgFacts ==
    ASSUME Inv, NEW c \in Clients, pc[c] \notin {"idle", "jobs"}
    PROVE  arg[c] \in Ids /\ ~(nextId <= arg[c])
  <1>1. arg[c] \in Ids /\ arg[c] < nextId /\ nextId \in Nat
    BY ProcessAssumption DEF Inv, TypeOK, ClientInv
  <1>2. arg[c] \in Int
    BY <1>1 DEF Ids
  <1> QED BY <1>1, <1>2

(* A new id: nothing is known of it yet.                                   *)
LEMMA ReserveControl ==
    ASSUME Inv, NEW c \in Clients, ReserveJobSlot(c)
    PROVE  JobInv' /\ ClientInv' /\ StartInv' /\ NoOrphanedChild'
  <1>1. /\ pc[c] = "idle"
        /\ nextId < MaxStarts
        /\ arg' = [arg EXCEPT ![c] = nextId]
        /\ nextId' = nextId + 1
        /\ pc' = [pc EXCEPT ![c] = "spawn"]
        /\ UNCHANGED <<jobs, status, cancelRequested, stdin, lock, waiter, os>>
    BY DEF ReserveJobSlot, GoTo, registryVars, clientVars, jobVars
  <1>2. JobInv'
    BY <1>1 DEF Inv, TypeOK, JobInv, Ids
  <1>3. /\ nextId \in Ids /\ nextId < nextId + 1
        /\ status[nextId] = "none" /\ os[nextId] = "none" /\ nextId \notin jobs
    BY <1>1, ProcessAssumption DEF Inv, TypeOK, JobInv, Ids
  <1>4. \A d \in Clients : d # c /\ pc[d] \notin {"idle", "jobs"} =>
           arg[d] \in Ids /\ arg[d] # nextId /\ arg[d] < nextId + 1
    BY ProcessAssumption DEF Inv, TypeOK, ClientInv, Ids
  <1>6. ClientInv'
    <2> SUFFICES ASSUME NEW d \in Clients
                 PROVE  ClientInv!(d)'
      BY DEF ClientInv
    <2>1. CASE d = c
      BY <1>1, <1>3, <2>1 DEF Inv, TypeOK, UsingSteps, StartSteps
    <2>2. CASE d # c
      BY <1>1, <1>4, <2>2 DEF Inv, TypeOK, ClientInv, Writable, UsingSteps, StartSteps
    <2> QED BY <2>1, <2>2
  <1>7. StartInv'
    BY <1>1, <1>4 DEF Inv, TypeOK, StartInv, StartSteps
  <1>5. NoOrphanedChild'
    BY <1>1 DEF Inv, TypeOK, NoOrphanedChild, Starting, StartSteps, JobInv, Ids
  <1> QED BY <1>2, <1>5, <1>6, <1>7

(* No child, no job.                                                       *)
LEMMA SpawnFailsControl ==
    ASSUME Inv, NEW c \in Clients, SpawnFails(c)
    PROVE  JobInv' /\ ClientInv' /\ StartInv' /\ NoOrphanedChild'
  <1>1. /\ pc[c] = "spawn"
        /\ pc' = [pc EXCEPT ![c] = "abort"]
        /\ UNCHANGED <<nextId, jobs, arg, status, cancelRequested, stdin, lock, waiter, os>>
    BY DEF SpawnFails, GoTo, registryVars, clientVars, jobVars
  <1>2. JobInv'
    BY <1>1 DEF Inv, TypeOK, JobInv
  <1>3. ClientInv'
    BY <1>1 DEF Inv, TypeOK, ClientInv, Writable, UsingSteps, StartSteps
  <1>4. StartInv'
    BY <1>1 DEF Inv, TypeOK, StartInv, StartSteps
  <1>5. NoOrphanedChild'
    BY <1>1 DEF Inv, TypeOK, NoOrphanedChild, Starting, StartSteps
  <1> QED BY <1>2, <1>3, <1>4, <1>5

(* The child runs while its start is in progress.                          *)
LEMMA SpawnControl ==
    ASSUME Inv, NEW c \in Clients, Spawn(c)
    PROVE  JobInv' /\ ClientInv' /\ StartInv' /\ NoOrphanedChild'
  <1>1. /\ pc[c] = "spawn"
        /\ os' = [os EXCEPT ![arg[c]] = "alive"]
        /\ \E open \in StdinOpen : stdin' = [stdin EXCEPT ![arg[c]] = open]
        /\ pc' = [pc EXCEPT ![c] = "stdin"]
        /\ UNCHANGED <<nextId, jobs, arg, status, cancelRequested, lock, waiter>>
    BY DEF Spawn, GoTo, registryVars, clientVars, jobVars
  <1>2. JobInv'
    <2>1. arg[c] \in Ids /\ ~(nextId <= arg[c])
      BY <1>1, ArgFacts
    <2>2. status[arg[c]] = "none" /\ waiter[arg[c]] = "none" /\ lock[arg[c]] = Free
      BY <1>1, <2>1 DEF Inv, JobInv, ClientInv
    <2> SUFFICES ASSUME NEW id \in Ids
                 PROVE  JobInv!(id)'
      BY DEF JobInv
    <2>3. CASE id = arg[c]
      BY <1>1, <2>1, <2>2, <2>3 DEF Inv, TypeOK, JobInv, Watching, Free, WaiterHolds
    <2>4. CASE id # arg[c]
      BY <1>1, <2>4 DEF Inv, TypeOK, JobInv
    <2> QED BY <2>3, <2>4
  <1>3. ClientInv'
    BY <1>1 DEF Inv, TypeOK, ClientInv, Writable, UsingSteps, StartSteps, StartInv, JobInv
  <1>4. StartInv'
    BY <1>1 DEF Inv, TypeOK, StartInv, StartSteps
  <1>5. NoOrphanedChild'
    BY <1>1 DEF Inv, TypeOK, NoOrphanedChild, Starting, StartSteps, ClientInv
  <1> QED BY <1>2, <1>3, <1>4, <1>5

(* The child was killed and waited for.                                    *)
LEMMA StdinFailsControl ==
    ASSUME Inv, NEW c \in Clients, StdinFails(c)
    PROVE  JobInv' /\ ClientInv' /\ StartInv' /\ NoOrphanedChild'
  <1>1. /\ pc[c] = "stdin"
        /\ os' = [os EXCEPT ![arg[c]] = "exited"]
        /\ stdin' = [stdin EXCEPT ![arg[c]] = FALSE]
        /\ pc' = [pc EXCEPT ![c] = "abort"]
        /\ UNCHANGED <<nextId, jobs, arg, status, cancelRequested, lock, waiter>>
    BY DEF StdinFails, GoTo, registryVars, clientVars, jobVars
  <1>2. JobInv'
    <2>1. arg[c] \in Ids /\ ~(nextId <= arg[c])
      BY <1>1, ArgFacts
    <2>2. status[arg[c]] = "none" /\ waiter[arg[c]] = "none" /\ lock[arg[c]] = Free
      BY <1>1, <2>1 DEF Inv, JobInv, ClientInv
    <2> SUFFICES ASSUME NEW id \in Ids
                 PROVE  JobInv!(id)'
      BY DEF JobInv
    <2>3. CASE id = arg[c]
      BY <1>1, <2>1, <2>2, <2>3 DEF Inv, TypeOK, JobInv, Watching, Free, WaiterHolds
    <2>4. CASE id # arg[c]
      BY <1>1, <2>4 DEF Inv, TypeOK, JobInv
    <2> QED BY <2>3, <2>4
  <1>3. ClientInv'
    BY <1>1 DEF Inv, TypeOK, ClientInv, Writable, UsingSteps, StartSteps, StartInv, JobInv
  <1>4. StartInv'
    BY <1>1 DEF Inv, TypeOK, StartInv, StartSteps
  <1>5. NoOrphanedChild'
    BY <1>1 DEF Inv, TypeOK, NoOrphanedChild, Starting, StartSteps
  <1> QED BY <1>2, <1>3, <1>4, <1>5

(* A start that failed leaves no child.                                    *)
LEMMA AbortControl ==
    ASSUME Inv, NEW c \in Clients, ReleasePendingStart(c)
    PROVE  JobInv' /\ ClientInv' /\ StartInv' /\ NoOrphanedChild'
  <1>1. /\ pc[c] = "abort"
        /\ pc' = [pc EXCEPT ![c] = "idle"]
        /\ UNCHANGED <<nextId, jobs, arg, status, cancelRequested, stdin, lock, waiter, os>>
    BY DEF ReleasePendingStart, GoTo, registryVars, clientVars, jobVars
  <1>2. JobInv'
    BY <1>1 DEF Inv, TypeOK, JobInv
  <1>3. ClientInv'
    BY <1>1 DEF Inv, TypeOK, ClientInv, Writable, UsingSteps, StartSteps
  <1>4. StartInv'
    BY <1>1 DEF Inv, TypeOK, StartInv, StartSteps
  <1>5. NoOrphanedChild'
    <2> SUFFICES ASSUME NEW id \in Ids, os[id] \in {"alive", "dying"}
                 PROVE  id \in jobs \/ Starting(id)' \/ status[id] = "failed"
      BY <1>1 DEF NoOrphanedChild
    <2>1. arg[c] # id
      BY <1>1 DEF Inv, ClientInv
    <2>2. CASE Starting(id)
      BY <1>1, <2>1, <2>2 DEF Inv, TypeOK, Starting
    <2> QED BY <2>2 DEF Inv, NoOrphanedChild
  <1> QED BY <1>2, <1>3, <1>4, <1>5

(* The job runs and has a waiter.                                          *)
LEMMA LaunchControl ==
    ASSUME Inv, NEW c \in Clients, Launch(c)
    PROVE  JobInv' /\ ClientInv' /\ StartInv' /\ NoOrphanedChild'
  <1>1. /\ pc[c] = "stdin"
        /\ status' = [status EXCEPT ![arg[c]] = "running"]
        /\ waiter' = [waiter EXCEPT ![arg[c]] = "poll"]
        /\ pc' = [pc EXCEPT ![c] = "started"]
        /\ UNCHANGED <<nextId, jobs, arg, cancelRequested, stdin, lock, os>>
    BY DEF Launch, GoTo, registryVars, clientVars, jobVars
  <1>2. JobInv'
    <2>1. arg[c] \in Ids /\ ~(nextId <= arg[c])
      BY <1>1, ArgFacts
    <2>2. status[arg[c]] = "none" /\ waiter[arg[c]] = "none" /\ lock[arg[c]] = Free
      BY <1>1, <2>1 DEF Inv, JobInv, ClientInv
    <2> SUFFICES ASSUME NEW id \in Ids
                 PROVE  JobInv!(id)'
      BY DEF JobInv
    <2>3. CASE id = arg[c]
      BY <1>1, <2>1, <2>2, <2>3 DEF Inv, TypeOK, JobInv, Watching, Free, WaiterHolds
    <2>4. CASE id # arg[c]
      BY <1>1, <2>4 DEF Inv, TypeOK, JobInv
    <2> QED BY <2>3, <2>4
  <1>3. ClientInv'
    BY <1>1 DEF Inv, TypeOK, ClientInv, Writable, UsingSteps, StartSteps, StartInv, JobInv
  <1>4. StartInv'
    BY <1>1 DEF Inv, TypeOK, StartInv, StartSteps
  <1>5. NoOrphanedChild'
    BY <1>1 DEF Inv, TypeOK, NoOrphanedChild, Starting, StartSteps, ClientInv
  <1> QED BY <1>2, <1>3, <1>4, <1>5

(* start looks at the job before it is retained.                           *)
LEMMA StartSnapshotControl ==
    ASSUME Inv, NEW c \in Clients, StartSnapshot(c)
    PROVE  JobInv' /\ ClientInv' /\ StartInv' /\ NoOrphanedChild'
  <1>1. /\ pc[c] = "started"
        /\ pc' = [pc EXCEPT ![c] = "finish"]
        /\ UNCHANGED <<nextId, jobs, arg, status, cancelRequested, stdin, lock, waiter, os>>
    BY DEF StartSnapshot, GoTo, registryVars, clientVars, jobVars
  <1>2. JobInv'
    BY <1>1 DEF Inv, TypeOK, JobInv
  <1>3. ClientInv'
    BY <1>1 DEF Inv, TypeOK, ClientInv, Writable, UsingSteps, StartSteps
  <1>4. StartInv'
    BY <1>1 DEF Inv, TypeOK, StartInv, StartSteps
  <1>5. NoOrphanedChild'
    BY <1>1 DEF Inv, TypeOK, NoOrphanedChild, Starting, StartSteps
  <1> QED BY <1>2, <1>3, <1>4, <1>5

(* The job is retained.                                                    *)
LEMMA FinishControl ==
    ASSUME Inv, NEW c \in Clients, FinishJobStart(c)
    PROVE  JobInv' /\ ClientInv' /\ StartInv' /\ NoOrphanedChild'
  <1>1. /\ pc[c] = "finish"
        /\ jobs' = jobs \cup {arg[c]}
        /\ pc' = [pc EXCEPT ![c] = "idle"]
        /\ UNCHANGED <<nextId, arg, status, cancelRequested, stdin, lock, waiter, os>>
    BY DEF FinishJobStart, GoTo, registryVars, clientVars, jobVars
  <1>2. JobInv'
    BY <1>1 DEF Inv, TypeOK, JobInv, ClientInv, UsingSteps
  <1>3. ClientInv'
    BY <1>1 DEF Inv, TypeOK, ClientInv, Writable, UsingSteps, StartSteps, StartInv
  <1>4. StartInv'
    BY <1>1 DEF Inv, TypeOK, StartInv, StartSteps
  <1>5. NoOrphanedChild'
    BY <1>1 DEF Inv, TypeOK, NoOrphanedChild, Starting, StartSteps
  <1> QED BY <1>2, <1>3, <1>4, <1>5

(* The job of a call is a retained one.                                    *)
LEMMA ArcControl ==
    ASSUME Inv, NEW c \in Clients, NEW id \in Ids, NEW op \in {"snapshot", "write", "cancel", "release"},
           JobArc(c, op, id)
    PROVE  JobInv' /\ ClientInv' /\ StartInv' /\ NoOrphanedChild'
  <1>1. /\ pc[c] = "idle"
        /\ id \in jobs
        /\ arg' = [arg EXCEPT ![c] = id]
        /\ pc' = [pc EXCEPT ![c] = op]
        /\ UNCHANGED <<nextId, jobs, status, cancelRequested, stdin, lock, waiter, os>>
    BY DEF JobArc, GoTo, registryVars, clientVars, jobVars
  <1>2. JobInv'
    BY <1>1 DEF Inv, TypeOK, JobInv
  <1>3. ClientInv'
    BY <1>1 DEF Inv, TypeOK, ClientInv, Writable, UsingSteps, StartSteps, JobInv, Ids
  <1>4. StartInv'
    BY <1>1 DEF Inv, TypeOK, StartInv, StartSteps
  <1>5. NoOrphanedChild'
    BY <1>1 DEF Inv, TypeOK, NoOrphanedChild, Starting, StartSteps
  <1> QED BY <1>2, <1>3, <1>4, <1>5

(* The writer holds the job's mutex from the check to the last byte, so no *)
(* other thread retires the job.                                           *)
LEMMA BeginWriteControl ==
    ASSUME Inv, NEW c \in Clients, BeginWrite(c)
    PROVE  JobInv' /\ ClientInv' /\ StartInv' /\ NoOrphanedChild'
  <1>1. /\ pc[c] = "write"
        /\ lock[arg[c]] = Free
        /\ \/ pc' = [pc EXCEPT ![c] = "idle"] /\ lock' = lock
           \/ /\ Writable(arg[c])
              /\ lock' = [lock EXCEPT ![arg[c]] = c]
              /\ pc' = [pc EXCEPT ![c] = "writing"]
        /\ UNCHANGED <<nextId, jobs, arg, status, cancelRequested, stdin, waiter, os>>
    BY DEF BeginWrite, Unlocked, GoTo, registryVars, clientVars, jobVars
  <1>2. JobInv'
    BY <1>1, ProcessAssumption DEF Inv, TypeOK, JobInv, ClientInv, Writable, Free, WaiterHolds
  <1>3. ClientInv'
    BY <1>1, ProcessAssumption DEF Inv, TypeOK, ClientInv, Writable, UsingSteps, StartSteps, Free, WaiterHolds
  <1>4. StartInv'
    <2>1. \A d \in Clients : pc'[d] \in StartSteps => pc[d] \in StartSteps
      BY <1>1 DEF Inv, TypeOK, StartSteps
    <2> QED BY <1>1, <2>1 DEF Inv, StartInv
  <1>5. NoOrphanedChild'
    BY <1>1 DEF Inv, TypeOK, NoOrphanedChild, Starting, StartSteps
  <1> QED BY <1>2, <1>3, <1>4, <1>5

(* The writer releases the mutex it holds.                                 *)
LEMMA WriteReturnsControl ==
    ASSUME Inv, NEW c \in Clients, WriteDone(c) \/ WriteFails(c)
    PROVE  JobInv' /\ ClientInv' /\ StartInv' /\ NoOrphanedChild'
  <1>1. /\ pc[c] = "writing"
        /\ lock' = [lock EXCEPT ![arg[c]] = Free]
        /\ pc' = [pc EXCEPT ![c] = "idle"]
        /\ UNCHANGED <<nextId, jobs, arg, status, cancelRequested, stdin, waiter, os>>
    BY DEF WriteDone, WriteFails, WriteReturns, GoTo, registryVars, clientVars, jobVars
  <1>2. JobInv'
    BY <1>1, ProcessAssumption DEF Inv, TypeOK, JobInv, ClientInv, Free, WaiterHolds
  <1>3. ClientInv'
    BY <1>1 DEF Inv, TypeOK, ClientInv, Writable, UsingSteps, StartSteps
  <1>4. StartInv'
    BY <1>1 DEF Inv, TypeOK, StartInv, StartSteps
  <1>5. NoOrphanedChild'
    BY <1>1 DEF Inv, TypeOK, NoOrphanedChild, Starting, StartSteps
  <1> QED BY <1>2, <1>3, <1>4, <1>5

(* Cancel asks, and kills the child of a job that runs.                    *)
LEMMA CancelControl ==
    ASSUME Inv, NEW c \in Clients, Cancel(c)
    PROVE  JobInv' /\ ClientInv' /\ StartInv' /\ NoOrphanedChild'
  <1>1. /\ pc[c] = "cancel"
        /\ lock[arg[c]] = Free
        /\ \/ /\ status[arg[c]] = "running"
              /\ cancelRequested' = [cancelRequested EXCEPT ![arg[c]] = TRUE]
              /\ \E after \in KillOutcomes(arg[c]) : os' = [os EXCEPT ![arg[c]] = after]
           \/ cancelRequested' = cancelRequested /\ os' = os
        /\ pc' = [pc EXCEPT ![c] = "snapshot"]
        /\ UNCHANGED <<nextId, jobs, arg, status, stdin, lock, waiter>>
    BY DEF Cancel, Unlocked, GoTo, registryVars, clientVars, jobVars
  <1>2. JobInv'
    BY <1>1 DEF Inv, TypeOK, JobInv, ClientInv, KillOutcomes, Killed, Watching
  <1>3. ClientInv'
    <2>1. /\ arg[c] \in Ids /\ status[arg[c]] # "none"
          /\ \A d \in Clients : pc[d] = "writing" => arg[d] # arg[c]
      BY <1>1, ProcessAssumption DEF Inv, ClientInv, UsingSteps
    <2>2. CASE cancelRequested' = cancelRequested /\ os' = os
      BY <1>1, <2>2 DEF Inv, TypeOK, ClientInv, Writable, UsingSteps, StartSteps
    <2>3. CASE /\ status[arg[c]] = "running"
               /\ cancelRequested' = [cancelRequested EXCEPT ![arg[c]] = TRUE]
               /\ \E after \in KillOutcomes(arg[c]) : os' = [os EXCEPT ![arg[c]] = after]
      BY <1>1, <2>1, <2>3 DEF Inv, TypeOK, ClientInv, Writable, UsingSteps, StartSteps
    <2> QED BY <1>1, <2>2, <2>3
  <1>4. StartInv'
    BY <1>1 DEF Inv, TypeOK, StartInv, StartSteps
  <1>5. NoOrphanedChild'
    <2>1. \A id \in Ids : os'[id] \in {"alive", "dying"} => os[id] \in {"alive", "dying"}
      BY <1>1 DEF Inv, TypeOK, KillOutcomes, Killed
    <2>2. \A id \in Ids : Starting(id) => Starting(id)'
      BY <1>1 DEF Inv, TypeOK, Starting, StartSteps
    <2> QED BY <1>1, <2>1, <2>2 DEF Inv, NoOrphanedChild
  <1> QED BY <1>2, <1>3, <1>4, <1>5

(* release goes on only with a job whose waiter is done: the status is     *)
(* terminal and the waiter does not hold the mutex.                        *)
LEMMA CheckControl ==
    ASSUME Inv, NEW c \in Clients, CheckReleasable(c)
    PROVE  JobInv' /\ ClientInv' /\ StartInv' /\ NoOrphanedChild'
  <1>1. /\ pc[c] = "release"
        /\ lock[arg[c]] = Free
        /\ pc' = [pc EXCEPT ![c] = IF status[arg[c]] # "running" THEN "remove" ELSE "idle"]
        /\ UNCHANGED <<nextId, jobs, arg, status, cancelRequested, stdin, lock, waiter, os>>
    BY DEF CheckReleasable, Releasable, Unlocked, GoTo, registryVars, clientVars, jobVars
  <1>2. JobInv'
    BY <1>1 DEF Inv, TypeOK, JobInv
  <1>3. ClientInv'
    BY <1>1 DEF Inv, TypeOK, ClientInv, Writable, UsingSteps, StartSteps, JobInv, Watching, Free, WaiterHolds
  <1>4. StartInv'
    BY <1>1 DEF Inv, TypeOK, StartInv, StartSteps
  <1>5. NoOrphanedChild'
    BY <1>1 DEF Inv, TypeOK, NoOrphanedChild, Starting, StartSteps
  <1> QED BY <1>2, <1>3, <1>4, <1>5

(* The job that goes has no child any more, or its try_wait failed.        *)
LEMMA RemoveControl ==
    ASSUME Inv, NEW c \in Clients, RemoveJob(c)
    PROVE  JobInv' /\ ClientInv' /\ StartInv' /\ NoOrphanedChild'
  <1>1. /\ pc[c] = "remove"
        /\ jobs' = jobs \ {arg[c]}
        /\ pc' = [pc EXCEPT ![c] = "idle"]
        /\ UNCHANGED <<nextId, arg, status, cancelRequested, stdin, lock, waiter, os>>
    BY DEF RemoveJob, GoTo, registryVars, clientVars, jobVars
  <1>2. JobInv'
    BY <1>1 DEF Inv, TypeOK, JobInv
  <1>3. ClientInv'
    BY <1>1 DEF Inv, TypeOK, ClientInv, Writable, UsingSteps, StartSteps
  <1>4. StartInv'
    BY <1>1 DEF Inv, TypeOK, StartInv, StartSteps
  <1>5. NoOrphanedChild'
    BY <1>1 DEF Inv, TypeOK, NoOrphanedChild, Starting, StartSteps, ClientInv, JobInv
  <1> QED BY <1>2, <1>3, <1>4, <1>5

-----------------------------------------------------------------------------
(* A job whose mutex is free has no writer at work.                        *)
LEMMA NoWriter ==
    ASSUME Inv, NEW id \in Ids, Unlocked(id) \/ lock[id] = WaiterHolds, NEW c \in Clients,
           pc[c] = "writing"
    PROVE  arg[c] # id
  BY ProcessAssumption DEF Inv, ClientInv, Unlocked

(* try_wait and what the waiter remembers of it.                           *)
LEMMA PollControl ==
    ASSUME Inv, NEW id \in Ids, PollExited(id) \/ PollExpired(id) \/ PollFails(id)
    PROVE  JobInv' /\ ClientInv' /\ StartInv' /\ NoOrphanedChild'
  <1>1. /\ waiter[id] = "poll" /\ lock[id] = Free
        /\ \E step \in {"exited", "expired", "failed"} :
              /\ waiter' = [waiter EXCEPT ![id] = step]
              /\ step = "exited" => os[id] = "exited"
        /\ UNCHANGED <<nextId, jobs, pc, arg, status, cancelRequested, stdin, lock, os>>
    BY DEF PollExited, PollExpired, PollFails, WaiterTo, Unlocked, registryVars, clientVars,
       jobVars
  <1>2. PICK step \in {"exited", "expired", "failed"} :
              /\ waiter' = [waiter EXCEPT ![id] = step]
              /\ step = "exited" => os[id] = "exited"
    BY <1>1
  <1>3. JobInv'
    BY <1>1, <1>2 DEF Inv, TypeOK, JobInv, Watching, Free, WaiterHolds
  <1>4. ClientInv'
    BY <1>1, <1>2 DEF Inv, TypeOK, ClientInv, Writable
  <1>5. StartInv' /\ NoOrphanedChild'
    BY <1>1 DEF Inv, StartInv, NoOrphanedChild, Starting
  <1> QED BY <1>3, <1>4, <1>5

(* The waiter ends a job that no writer uses, once the child exited or     *)
(* try_wait failed.                                                        *)
LEMMA RecordControl ==
    ASSUME Inv, NEW id \in Ids, RecordExit(id) \/ RecordFailure(id)
    PROVE  JobInv' /\ ClientInv' /\ StartInv' /\ NoOrphanedChild'
  <1>1. /\ waiter[id] \in {"exited", "failed"} /\ Unlocked(id)
        /\ stdin' = [stdin EXCEPT ![id] = FALSE]
        /\ waiter' = [waiter EXCEPT ![id] = "done"]
        /\ UNCHANGED <<nextId, jobs, pc, arg, cancelRequested, lock, os>>
    BY DEF RecordExit, RecordFailure, WaiterTo, registryVars, clientVars
  <1>2. PICK end \in {"exited", "cancelled", "failed"} :
           /\ status' = [status EXCEPT ![id] = end]
           /\ end = "failed" <=> waiter[id] = "failed"
           /\ end = "exited" => ~cancelRequested[id]
    BY DEF RecordExit, RecordFailure, ExitStatus
  <1>3. status[id] = "running"
    BY <1>1 DEF Inv, JobInv, Watching
  <1>4. JobInv'
    BY <1>1, <1>2, <1>3 DEF Inv, TypeOK, JobInv, Unlocked, Watching, Free, WaiterHolds
  <1>5. ClientInv'
    BY <1>1, <1>2, <1>3, NoWriter DEF Inv, TypeOK, ClientInv, Writable, UsingSteps
  <1>6. StartInv' /\ NoOrphanedChild'
    BY <1>1, <1>2, <1>3 DEF Inv, TypeOK, StartInv, NoOrphanedChild, Starting
  <1> QED BY <1>4, <1>5, <1>6

(* The timeout ends a job that no writer uses and keeps its mutex ...      *)
LEMMA ExpireControl ==
    ASSUME Inv, NEW id \in Ids, Expire(id)
    PROVE  JobInv' /\ ClientInv' /\ StartInv' /\ NoOrphanedChild'
  <1>1. /\ waiter[id] = "expired" /\ Unlocked(id)
        /\ status' = [status EXCEPT ![id] = "timed_out"]
        /\ \E after \in KillOutcomes(id) : os' = [os EXCEPT ![id] = after]
        /\ lock' = [lock EXCEPT ![id] = WaiterHolds]
        /\ waiter' = [waiter EXCEPT ![id] = "reap"]
        /\ UNCHANGED <<nextId, jobs, pc, arg, cancelRequested, stdin>>
    BY DEF Expire, WaiterTo, registryVars, clientVars
  <1>2. status[id] = "running"
    BY <1>1 DEF Inv, JobInv, Watching
  <1>3. JobInv'
    BY <1>1, <1>2 DEF Inv, TypeOK, JobInv, Unlocked, Watching, Free, WaiterHolds, KillOutcomes, Killed
  <1>4. ClientInv'
    BY <1>1, <1>2, NoWriter DEF Inv, TypeOK, ClientInv, Writable, UsingSteps
  <1>5. StartInv'
    BY <1>1 DEF Inv, StartInv
  <1>6. NoOrphanedChild'
    BY <1>1, <1>2 DEF Inv, TypeOK, NoOrphanedChild, Starting, KillOutcomes, Killed
  <1> QED BY <1>3, <1>4, <1>5, <1>6

(* ... until the child is reaped.                                          *)
LEMMA ReapControl ==
    ASSUME Inv, NEW id \in Ids, Reap(id)
    PROVE  JobInv' /\ ClientInv' /\ StartInv' /\ NoOrphanedChild'
  <1>1. /\ waiter[id] = "reap" /\ os[id] = "exited"
        /\ stdin' = [stdin EXCEPT ![id] = FALSE]
        /\ lock' = [lock EXCEPT ![id] = Free]
        /\ waiter' = [waiter EXCEPT ![id] = "done"]
        /\ UNCHANGED <<nextId, jobs, pc, arg, status, cancelRequested, os>>
    BY DEF Reap, WaiterTo, registryVars, clientVars
  <1>2. lock[id] = WaiterHolds
    BY <1>1 DEF Inv, JobInv
  <1>3. JobInv'
    BY <1>1 DEF Inv, TypeOK, JobInv, Watching, Free, WaiterHolds
  <1>4. ClientInv'
    BY <1>1, <1>2, NoWriter DEF Inv, TypeOK, ClientInv, Writable, UsingSteps
  <1>5. StartInv' /\ NoOrphanedChild'
    BY <1>1 DEF Inv, StartInv, NoOrphanedChild, Starting
  <1> QED BY <1>3, <1>4, <1>5

(* A child exits.                                                          *)
LEMMA ExitControl ==
    ASSUME Inv, NEW id \in Ids, ChildExits(id)
    PROVE  JobInv' /\ ClientInv' /\ StartInv' /\ NoOrphanedChild'
  <1>1. /\ os[id] \in {"alive", "dying"} /\ os' = [os EXCEPT ![id] = "exited"]
        /\ UNCHANGED <<nextId, jobs, pc, arg, status, cancelRequested, stdin, lock, waiter>>
    BY DEF ChildExits, registryVars, clientVars, jobVars
  <1>2. JobInv'
    BY <1>1 DEF Inv, TypeOK, JobInv
  <1>3. ClientInv'
    BY <1>1 DEF Inv, TypeOK, ClientInv, Writable
  <1>4. StartInv' /\ NoOrphanedChild'
    BY <1>1 DEF Inv, TypeOK, StartInv, NoOrphanedChild, Starting
  <1> QED BY <1>2, <1>3, <1>4

(* Steps that move bytes, or list jobs, change nothing of this.            *)
LEMMA DataControl ==
    ASSUME Inv,
           UNCHANGED <<nextId, jobs, pc, arg, status, cancelRequested, stdin, lock, waiter, os>>
    PROVE  JobInv' /\ ClientInv' /\ StartInv' /\ NoOrphanedChild'
  BY DEF Inv, JobInv, ClientInv, Writable, StartInv, NoOrphanedChild, Starting

(* Calls that only look: they take a client from or to idle.               *)
LEMMA LookControl ==
    ASSUME Inv, NEW c \in Clients, Snapshot(c) \/ BeginJobs(c) \/ EndJobs(c)
    PROVE  JobInv' /\ ClientInv' /\ StartInv' /\ NoOrphanedChild'
  <1>1. /\ pc[c] \in {"snapshot", "idle", "jobs"}
        /\ \E step \in {"idle", "jobs"} : pc' = [pc EXCEPT ![c] = step]
        /\ UNCHANGED <<nextId, jobs, arg, status, cancelRequested, stdin, lock, waiter, os>>
    BY DEF Snapshot, BeginJobs, EndJobs, GoTo, registryVars, jobVars
  <1>2. PICK step \in {"idle", "jobs"} : pc' = [pc EXCEPT ![c] = step]
    BY <1>1
  <1>3. JobInv'
    BY <1>1 DEF Inv, JobInv
  <1>4. ClientInv'
    BY <1>1, <1>2 DEF Inv, TypeOK, ClientInv, Writable, UsingSteps, StartSteps
  <1>5. StartInv'
    BY <1>1, <1>2 DEF Inv, TypeOK, StartInv, StartSteps
  <1>6. NoOrphanedChild'
    BY <1>1, <1>2 DEF Inv, TypeOK, NoOrphanedChild, Starting, StartSteps
  <1> QED BY <1>3, <1>4, <1>5, <1>6

(* Every step preserves the invariant.                                     *)
LEMMA NextInv == Inv /\ [Next]_vars => Inv'
  <1> SUFFICES ASSUME Inv, [Next]_vars PROVE Inv'
    OBVIOUS
  <1> DEFINE Control == JobInv /\ ClientInv /\ StartInv /\ NoOrphanedChild
  <1>1. CASE UNCHANGED vars
    <2>1. TypeOK'
      BY <1>1 DEF vars, registryVars, clientVars, jobVars, outputVars, Inv, TypeOK
    <2> QED BY <1>1, <2>1, DataControl DEF vars, registryVars, clientVars, jobVars, Inv
  <1>2. ASSUME NEW c \in Clients, ClientCall(c) \/ ClientStep(c) PROVE Inv'
    <2>1. TypeOK'
      BY <1>2, ClientTypes DEF Inv, ClientInv
    <2>2. ASSUME StdinByte(c) \/ WriteByte(c) \/ SnapshotNext(c) PROVE Control'
      BY <2>2, DataControl DEF StdinByte, WriteByte, PipeByte, SnapshotNext, registryVars, jobVars
    <2>3. Control'
      BY <1>2, <2>2, ReserveControl, SpawnFailsControl, SpawnControl, StdinFailsControl,
         AbortControl, LaunchControl, StartSnapshotControl, FinishControl, ArcControl, BeginWriteControl,
         WriteReturnsControl, CancelControl, CheckControl, RemoveControl, LookControl
         DEF ClientCall, ClientStep
    <2> QED BY <2>1, <2>3 DEF Inv
  <1>3. ASSUME NEW id \in Ids, WaiterStep(id) \/ ChildStep(id) PROVE Inv'
    <2>1. TypeOK'
      BY <1>3, WaiterTypes DEF Inv
    <2>2. ASSUME ChildReads(id) \/ \E s \in Streams : ChildWrites(id, s) PROVE Control'
      BY <2>2, DataControl DEF ChildReads, ChildWrites, registryVars, clientVars, jobVars
    <2>3. Control'
      BY <1>3, <2>2, PollControl, RecordControl, ExpireControl, ReapControl, ExitControl
         DEF WaiterStep, ChildStep
    <2> QED BY <2>1, <2>3 DEF Inv
  <1>4. ASSUME NEW id \in Ids, NEW s \in Streams, ReaderStep(id, s) PROVE Inv'
    <2>1. TypeOK'
      BY <1>4, ReaderTypes DEF Inv
    <2>2. Control'
      BY <1>4, DataControl DEF ReaderStep, ReadChunk, AppendOutput, ReaderEof, ReaderError,
         registryVars, clientVars, jobVars
    <2> QED BY <2>1, <2>2 DEF Inv
  <1> QED BY <1>1, <1>2, <1>3, <1>4 DEF Next

(* The inductive invariant holds in every reachable state.                 *)
THEOREM Invariance == Spec => []Inv
  BY InitInv, NextInv, PTL DEF Spec

(* TypeOK: every variable of the process registry keeps its type, whatever *)
(* its threads do.                                                         *)
THEOREM TypeCorrect == Spec => []TypeOK
  <1>1. Inv => TypeOK
    BY DEF Inv
  <1> QED BY <1>1, Invariance, PTL

(* NoOrphanedChild: release never drops a job whose child may still run.   *)
THEOREM ChildrenReachable == Spec => []NoOrphanedChild
  <1>1. Inv => NoOrphanedChild
    BY DEF Inv
  <1> QED BY <1>1, Invariance, PTL

(* CancelNotLost: the waiter never reports a cancelled job as exited.      *)
THEOREM CancelReported == Spec => []CancelNotLost
  <1>1. Inv => CancelNotLost
    BY DEF Inv, JobInv, CancelNotLost
  <1> QED BY <1>1, Invariance, PTL

(* WriteSeesLiveJob: while process_write writes, the job is not retired.   *)
THEOREM WritersSeeLiveJobs == Spec => []WriteSeesLiveJob
  <1>1. Inv => WriteSeesLiveJob
    BY DEF Inv, ClientInv, WriteSeesLiveJob
  <1> QED BY <1>1, Invariance, PTL

(* TerminalIsFinal: no thread changes the status of a job that ended.      *)
THEOREM TerminalForEver == Spec => TerminalIsFinal
  <1> DEFINE Final == \A id \in Ids : status[id] \in Terminal => status'[id] = status[id]
  <1>1. ASSUME Inv, [Next]_vars PROVE [Final]_vars
    <2>1. ASSUME NEW c \in Clients, Launch(c) PROVE Final
      <3>1. status[arg[c]] = "none" /\ status' = [status EXCEPT ![arg[c]] = "running"]
        BY <1>1, <2>1 DEF Launch, Inv, ClientInv
      <3> QED BY <1>1, <3>1 DEF Inv, TypeOK, Terminal
    <2>2. ASSUME NEW id \in Ids, RecordExit(id) \/ Expire(id) \/ RecordFailure(id) PROVE Final
      <3>1. status[id] = "running"
        BY <1>1, <2>2 DEF RecordExit, Expire, RecordFailure, Inv, JobInv, Watching
      <3>2. \E end : status' = [status EXCEPT ![id] = end]
        BY <2>2 DEF RecordExit, Expire, RecordFailure
      <3> QED BY <1>1, <3>1, <3>2 DEF Inv, TypeOK, Terminal
    <2>3. ASSUME NEW c \in Clients, ClientCall(c) \/ ClientStep(c), ~Launch(c)
          PROVE  status' = status
      BY <2>3 DEF ClientCall, ClientStep, ReserveJobSlot, BeginJobs, JobArc, SpawnFails, Spawn,
         StdinByte, WriteByte, PipeByte, StdinFails, ReleasePendingStart, StartSnapshot,
         FinishJobStart,
         Snapshot, BeginWrite, WriteDone, WriteFails, WriteReturns, Cancel, CheckReleasable,
         RemoveJob, SnapshotNext, EndJobs, jobVars
    <2>4. ASSUME NEW id \in Ids, WaiterStep(id) \/ ChildStep(id),
                 ~RecordExit(id), ~Expire(id), ~RecordFailure(id)
          PROVE  status' = status
      BY <2>4 DEF WaiterStep, ChildStep, PollExited, PollExpired, PollFails, Reap, ChildReads,
         ChildExits, ChildWrites, jobVars
    <2>5. ASSUME NEW id \in Ids, NEW s \in Streams, ReaderStep(id, s) PROVE status' = status
      BY <2>5 DEF ReaderStep, ReadChunk, AppendOutput, ReaderEof, ReaderError, jobVars
    <2> QED BY <1>1, <2>1, <2>2, <2>3, <2>4, <2>5 DEF Next
  <1> QED BY <1>1, Invariance, PTL DEF Spec, TerminalIsFinal

-----------------------------------------------------------------------------
(* What the reader handed over of p bytes written, with q in the pipe and  *)
(* b in its chunk.                                                         *)
Arrived(p, q, b) == p - q - (IF b > 0 THEN b ELSE 0)
(* OutputAccounted in numbers: o bytes retained, t the truncation flag.    *)
Counted(p, q, b, o, t) ==
    /\ o = IF Arrived(p, q, b) <= OutputMax THEN Arrived(p, q, b) ELSE OutputMax
    /\ t <=> Arrived(p, q, b) > OutputMax
(* OutputAccounted of one stream.                                          *)
StreamCounted(id, s) == Counted(produced[id][s], outPipe[id][s], buf[id][s], out[id][s], truncated[id][s])

(* What Max and Min answer for two numbers.                                *)
LEMMA OfTwo ==
    ASSUME NEW a \in Int, NEW b \in Int
    PROVE  Max({a, b}) = (IF a >= b THEN a ELSE b) /\ Min({a, b}) = (IF a <= b THEN a ELSE b)
  BY DEF Max, Min

(* The numbers of a stream.                                                *)
LEMMA StreamTypes ==
    ASSUME TypeOK, NEW id \in Ids, NEW s \in Streams
    PROVE  /\ produced[id][s] \in Nat /\ outPipe[id][s] \in Nat /\ buf[id][s] \in Int
           /\ out[id][s] \in Nat /\ out[id][s] <= OutputMax /\ truncated[id][s] \in BOOLEAN
           /\ OutputMax \in Nat
  <1>1. /\ produced[id][s] \in 0 .. ChildOutput /\ outPipe[id][s] \in 0 .. PipeCapacity
        /\ buf[id][s] \in ReaderFailed .. PipeCapacity /\ out[id][s] \in 0 .. OutputMax
        /\ truncated[id][s] \in BOOLEAN
    BY DEF TypeOK
  <1> QED BY <1>1, ProcessAssumption DEF ReaderFailed

(* OutputAccounted is this count of every stream.                          *)
LEMMA OutputCounted ==
    TypeOK => (OutputAccounted <=> \A id \in Ids, s \in Streams : StreamCounted(id, s))
  <1> SUFFICES ASSUME TypeOK
               PROVE  OutputAccounted <=> \A id \in Ids, s \in Streams : StreamCounted(id, s)
    OBVIOUS
  <1>1. ASSUME NEW id \in Ids, NEW s \in Streams
        PROVE  StreamCounted(id, s) <=> /\ out[id][s] = Min({Received(id, s), OutputMax})
                                        /\ truncated[id][s] <=> Received(id, s) > OutputMax
    <2>1. /\ produced[id][s] \in Nat /\ outPipe[id][s] \in Nat /\ buf[id][s] \in Int
          /\ OutputMax \in Nat
      BY StreamTypes
    <2>2. Max({buf[id][s], 0}) = IF buf[id][s] > 0 THEN buf[id][s] ELSE 0
      <3>1. Max({buf[id][s], 0}) = IF buf[id][s] >= 0 THEN buf[id][s] ELSE 0
        BY <2>1, OfTwo
      <3> QED BY <2>1, <3>1
    <2>3. Received(id, s) = Arrived(produced[id][s], outPipe[id][s], buf[id][s])
      BY <2>2 DEF Received, Arrived
    <2>4. Arrived(produced[id][s], outPipe[id][s], buf[id][s]) \in Int
      BY <2>1 DEF Arrived
    <2>5. Min({Received(id, s), OutputMax}) =
            IF Received(id, s) <= OutputMax THEN Received(id, s) ELSE OutputMax
      <3>1. Received(id, s) \in Int /\ OutputMax \in Int
        BY <2>1, <2>3, <2>4
      <3> QED BY <3>1, OfTwo
    <2> QED BY <2>3, <2>5 DEF StreamCounted, Counted
  <1> QED BY <1>1 DEF OutputAccounted

(* So it is after a step.                                                  *)
LEMMA OutputCountedNext ==
    TypeOK' => (OutputAccounted' <=> \A id \in Ids, s \in Streams : StreamCounted(id, s)')
  <1>1. (TypeOK => (OutputAccounted <=> \A id \in Ids, s \in Streams : StreamCounted(id, s)))'
    BY OutputCounted, PTL
  <1> QED BY <1>1

(* A step on one stream that keeps its count keeps the count of all.       *)
LEMMA OneStream ==
    ASSUME TypeOK, TypeOK', OutputAccounted, NEW id \in Ids, NEW s \in Streams, StreamCounted(id, s)',
           \A i \in Ids, r \in Streams : i # id \/ r # s =>
               /\ produced'[i][r] = produced[i][r] /\ outPipe'[i][r] = outPipe[i][r]
               /\ buf'[i][r] = buf[i][r] /\ out'[i][r] = out[i][r] /\ truncated'[i][r] = truncated[i][r]
    PROVE  OutputAccounted'
  <1>1. \A i \in Ids, r \in Streams : StreamCounted(i, r)
    BY OutputCounted
  <1>2. ASSUME NEW i \in Ids, NEW r \in Streams PROVE StreamCounted(i, r)'
    <2>1. CASE i = id /\ r = s
      BY <2>1
    <2>2. CASE i # id \/ r # s
      BY <1>1, <2>2 DEF StreamCounted
    <2> QED BY <2>1, <2>2
  <1> QED BY <1>2, OutputCountedNext

(* A reader takes a chunk out of the pipe: it has not arrived yet.         *)
LEMMA ReadChunkCounts ==
    ASSUME TypeOK, TypeOK', OutputAccounted, NEW id \in Ids, NEW s \in Streams, ReadChunk(id, s)
    PROVE  OutputAccounted'
  <1>1. PICK n \in 1 .. outPipe[id][s] :
          /\ buf' = [buf EXCEPT ![id][s] = n]
          /\ outPipe' = [outPipe EXCEPT ![id][s] = outPipe[id][s] - n]
    BY DEF ReadChunk
  <1>2. /\ buf[id][s] = 0 /\ produced' = produced /\ out' = out /\ truncated' = truncated
        /\ buf'[id][s] = n /\ outPipe'[id][s] = outPipe[id][s] - n
    BY <1>1 DEF ReadChunk, ReaderAlive, Reading, TypeOK
  <1>3. /\ produced[id][s] \in Nat /\ outPipe[id][s] \in Nat /\ n \in Nat /\ n > 0
    <2>1. produced[id][s] \in Nat /\ outPipe[id][s] \in Nat
      BY StreamTypes
    <2> QED BY <2>1
  <1>4. Arrived(produced[id][s], outPipe[id][s] - n, n) = Arrived(produced[id][s], outPipe[id][s], 0)
    BY <1>3 DEF Arrived
  <1>5. StreamCounted(id, s)'
    <2>1. StreamCounted(id, s)
      BY OutputCounted
    <2> QED BY <1>2, <1>4, <2>1 DEF StreamCounted, Counted
  <1>6. \A i \in Ids, r \in Streams : i # id \/ r # s =>
          buf'[i][r] = buf[i][r] /\ outPipe'[i][r] = outPipe[i][r]
    BY <1>1 DEF TypeOK
  <1> QED BY <1>2, <1>5, <1>6, OneStream

(* append_output takes as much of the chunk as fits.                       *)
LEMMA AppendCounts ==
    ASSUME TypeOK, TypeOK', OutputAccounted, NEW id \in Ids, NEW s \in Streams, AppendOutput(id, s)
    PROVE  OutputAccounted'
  <1> DEFINE b == buf[id][s]
             o == out[id][s]
             t == truncated[id][s]
             a == Arrived(produced[id][s], outPipe[id][s], b)
             n == Take(id, s)
  <1>1. /\ b > 0 /\ produced' = produced /\ outPipe' = outPipe
        /\ out' = [out EXCEPT ![id][s] = o + n]
        /\ truncated' = [truncated EXCEPT ![id][s] = t \/ n < b]
        /\ buf' = [buf EXCEPT ![id][s] = 0]
    BY DEF AppendOutput, Reading
  <1>2. buf'[id][s] = 0 /\ out'[id][s] = o + n /\ truncated'[id][s] = (t \/ n < b)
    BY <1>1 DEF TypeOK
  <1>3. /\ produced[id][s] \in Nat /\ outPipe[id][s] \in Nat /\ b \in Int /\ o \in Nat
        /\ o <= OutputMax /\ OutputMax \in Nat /\ t \in BOOLEAN
    BY StreamTypes
  <1>4. /\ a \in Int /\ a = produced[id][s] - outPipe[id][s] - b
        /\ Arrived(produced[id][s], outPipe[id][s], 0) = a + b
    BY <1>1, <1>3 DEF Arrived
  <1>5. n = IF b <= OutputMax - o THEN b ELSE OutputMax - o
    BY DEF Take, Room
  <1>6. o = (IF a <= OutputMax THEN a ELSE OutputMax) /\ (t <=> a > OutputMax)
    <2>1. StreamCounted(id, s)
      BY OutputCounted
    <2> QED BY <2>1 DEF StreamCounted, Counted
  <1> HIDE DEF a, b, o, t, n
  <1>7. o + n = IF a + b <= OutputMax THEN a + b ELSE OutputMax
    BY <1>1, <1>3, <1>4, <1>5, <1>6
  <1>8. (a > OutputMax \/ n < b) <=> a + b > OutputMax
    BY <1>1, <1>3, <1>4, <1>5, <1>6
  <1>9. StreamCounted(id, s)'
    <2>1. Arrived(produced'[id][s], outPipe'[id][s], buf'[id][s]) = a + b
      BY <1>1, <1>2, <1>4
    <2>2. out'[id][s] = IF a + b <= OutputMax THEN a + b ELSE OutputMax
      BY <1>2, <1>7
    <2>3. truncated'[id][s] <=> a + b > OutputMax
      BY <1>2, <1>6, <1>8
    <2> QED BY <2>1, <2>2, <2>3 DEF StreamCounted, Counted
  <1>10. \A i \in Ids, r \in Streams : i # id \/ r # s =>
           buf'[i][r] = buf[i][r] /\ out'[i][r] = out[i][r] /\ truncated'[i][r] = truncated[i][r]
    BY <1>1 DEF TypeOK
  <1> QED BY <1>1, <1>9, <1>10, OneStream

(* A reader that ends had no chunk.                                        *)
LEMMA ReaderEndCounts ==
    ASSUME TypeOK, TypeOK', OutputAccounted, NEW id \in Ids, NEW s \in Streams,
           ReaderEof(id, s) \/ ReaderError(id, s)
    PROVE  OutputAccounted'
  <1>1. PICK n \in {-1, -2} : buf' = [buf EXCEPT ![id][s] = n]
    BY DEF ReaderEof, ReaderError, ReaderDone, ReaderFailed
  <1>2. /\ buf[id][s] = 0 /\ buf'[id][s] = n
        /\ UNCHANGED <<produced, outPipe, out, truncated>>
    BY <1>1 DEF ReaderEof, ReaderError, ReaderAlive, Reading, TypeOK
  <1>3. Arrived(produced[id][s], outPipe[id][s], n) = Arrived(produced[id][s], outPipe[id][s], 0)
    BY DEF Arrived
  <1>4. StreamCounted(id, s)'
    <2>1. StreamCounted(id, s)
      BY OutputCounted
    <2> QED BY <1>2, <1>3, <2>1 DEF StreamCounted, Counted
  <1>5. \A i \in Ids, r \in Streams : i # id \/ r # s => buf'[i][r] = buf[i][r]
    BY <1>1 DEF TypeOK
  <1> QED BY <1>2, <1>4, <1>5, OneStream

(* What the child writes is in the pipe.                                   *)
LEMMA ChildWritesCounts ==
    ASSUME TypeOK, TypeOK', OutputAccounted, NEW id \in Ids, NEW s \in Streams, ChildWrites(id, s)
    PROVE  OutputAccounted'
  <1> DEFINE p == produced[id][s]
             q == outPipe[id][s]
  <1>1. /\ outPipe' = [outPipe EXCEPT ![id][s] = q + 1]
        /\ produced' = [produced EXCEPT ![id][s] = p + 1]
        /\ UNCHANGED <<buf, out, truncated>>
    BY DEF ChildWrites
  <1>2. produced'[id][s] = p + 1 /\ outPipe'[id][s] = q + 1
    BY <1>1 DEF TypeOK
  <1>3. p \in Nat /\ q \in Nat /\ buf[id][s] \in Int
    BY StreamTypes
  <1>4. Arrived(p + 1, q + 1, buf[id][s]) = Arrived(p, q, buf[id][s])
    BY <1>3 DEF Arrived
  <1>5. StreamCounted(id, s)'
    <2>1. StreamCounted(id, s)
      BY OutputCounted
    <2> QED BY <1>1, <1>2, <1>4, <2>1 DEF StreamCounted, Counted
  <1>6. \A i \in Ids, r \in Streams : i # id \/ r # s =>
          produced'[i][r] = produced[i][r] /\ outPipe'[i][r] = outPipe[i][r]
    BY <1>1 DEF TypeOK
  <1> QED BY <1>1, <1>5, <1>6, OneStream

(* OutputAccounted: the retained output is the first OutputMax bytes that  *)
(* readers took, and the truncation flag is up exactly when a byte was     *)
(* dropped (append_output).                                                *)
THEOREM OutputIsAccounted == Spec => []OutputAccounted
  <1>1. Init => OutputAccounted
    <2> SUFFICES ASSUME Init PROVE OutputAccounted
      OBVIOUS
    <2>1. TypeOK
      BY InitInv DEF Inv
    <2>2. ASSUME NEW id \in Ids, NEW s \in Streams PROVE StreamCounted(id, s)
      <3>1. /\ produced[id][s] = 0 /\ outPipe[id][s] = 0 /\ buf[id][s] = 0 /\ out[id][s] = 0
            /\ truncated[id][s] = FALSE
        BY DEF Init, Reading
      <3>2. Arrived(0, 0, 0) = 0
        BY DEF Arrived
      <3> QED BY <3>1, <3>2, ProcessAssumption DEF StreamCounted, Counted
    <2> QED BY <2>1, <2>2, OutputCounted
  <1>2. ASSUME TypeOK, TypeOK', OutputAccounted, [Next]_vars PROVE OutputAccounted'
    <2>1. ASSUME UNCHANGED outputVars PROVE OutputAccounted'
      BY <1>2, <2>1 DEF outputVars, OutputAccounted, Received
    <2>2. CASE UNCHANGED vars
      BY <2>1, <2>2 DEF vars
    <2>3. ASSUME NEW c \in Clients, ClientCall(c) \/ ClientStep(c) PROVE OutputAccounted'
      <3>1. UNCHANGED outputVars
        BY <2>3 DEF ClientCall, ClientStep, ReserveJobSlot, BeginJobs, JobArc, SpawnFails, Spawn,
           StdinByte, WriteByte, PipeByte, StdinFails, ReleasePendingStart, Launch, StartSnapshot,
           FinishJobStart, Snapshot, BeginWrite, WriteDone, WriteFails, WriteReturns, Cancel,
           CheckReleasable, RemoveJob, SnapshotNext, EndJobs
      <3> QED BY <2>1, <3>1
    <2>4. ASSUME NEW id \in Ids, WaiterStep(id) \/ ChildReads(id) \/ ChildExits(id)
          PROVE  OutputAccounted'
      <3>1. UNCHANGED outputVars
        BY <2>4 DEF WaiterStep, PollExited, PollExpired, PollFails, RecordExit, Expire, Reap,
           RecordFailure, ChildReads, ChildExits
      <3> QED BY <2>1, <3>1
    <2>5. ASSUME NEW id \in Ids, NEW s \in Streams, ReaderStep(id, s) \/ ChildWrites(id, s)
          PROVE  OutputAccounted'
      BY <1>2, <2>5, ReadChunkCounts, AppendCounts, ReaderEndCounts, ChildWritesCounts DEF ReaderStep
    <2> QED BY <1>2, <2>2, <2>3, <2>4, <2>5 DEF Next, ChildStep
  <1> QED BY <1>1, <1>2, TypeCorrect, PTL DEF Spec

-----------------------------------------------------------------------------
(***************************************************************************)
(* The process registry accounts for its slots and implements              *)
(* RetainedRegistry, for any number of clients and any limit.              *)
(***************************************************************************)

(* the ids of the starts in flight                                         *)
Reserved == {arg[c] : c \in StartingClients}

SlotInv == IsFiniteSet(Reserved) /\ pending = Cardinality(Reserved) /\ SlotsAccounted

(* Jobs and starting clients are finitely many.                            *)
LEMMA FiniteFacts ==
    ASSUME TypeOK
    PROVE  /\ IsFiniteSet(jobs) /\ Cardinality(jobs) \in Nat
           /\ IsFiniteSet(StartingClients) /\ Cardinality(StartingClients) \in Nat
  <1>1. IsFiniteSet(Ids)
    BY ProcessAssumption, FS_Interval DEF Ids
  <1>2. IsFiniteSet(jobs)
    BY <1>1, FS_Subset DEF TypeOK
  <1>3. IsFiniteSet(StartingClients)
    BY ProcessAssumption, FS_Subset DEF StartingClients
  <1> QED BY <1>2, <1>3, FS_CardinalityType

(* The two modules count alike.                                            *)
LEMMA SameCardinality == \A S : Retained!Cardinality(S) = Cardinality(S)
  BY DEF Retained!Cardinality, Cardinality

(* reserve_job_slot is a Reserve.                                          *)
LEMMA ReserveSlots ==
    ASSUME Inv, SlotInv, NEW c \in Clients, ReserveJobSlot(c)
    PROVE  SlotInv' /\ Retained!Reserve
  <1>1. /\ pc[c] = "idle" /\ nextId < MaxStarts /\ SlotAvailable
        /\ arg' = [arg EXCEPT ![c] = nextId]
        /\ pc' = [pc EXCEPT ![c] = "spawn"]
        /\ nextId' = nextId + 1 /\ pending' = pending + 1 /\ UNCHANGED jobs
    BY DEF ReserveJobSlot, GoTo
  <1>2. nextId \in Ids
    BY <1>1, ProcessAssumption DEF Inv, TypeOK, Ids
  <1>3. c \notin StartingClients /\ StartingClients' = StartingClients \cup {c}
    BY <1>1 DEF StartingClients, StartSteps, Inv, TypeOK
  <1>4. \A d \in StartingClients : d # c /\ arg'[d] = arg[d] /\ arg[d] # nextId
    <2>1. \A d \in StartingClients : pc[d] \notin {"idle", "jobs"} /\ d \in Clients
      BY DEF StartingClients, StartSteps
    <2>2. \A d \in StartingClients : arg[d] < nextId /\ arg[d] \in Nat
      BY <2>1 DEF Inv, TypeOK, ClientInv
    <2> QED BY <1>1, <1>3, <2>1, <2>2 DEF Inv, TypeOK
  <1>5. Reserved' = Reserved \cup {nextId} /\ nextId \notin Reserved
    BY <1>1, <1>3, <1>4 DEF Reserved, Inv, TypeOK
  <1>6. /\ IsFiniteSet(Reserved') /\ Cardinality(Reserved') = Cardinality(Reserved) + 1
        /\ Cardinality(StartingClients') = Cardinality(StartingClients) + 1
    <2>1. IsFiniteSet(Reserved) /\ IsFiniteSet(StartingClients)
      BY FiniteFacts DEF SlotInv, Inv
    <2> QED BY <1>3, <1>5, <2>1, FS_AddElement
  <1>7. SlotInv'
    <2>1. pending \in Nat /\ MaxRetained \in Nat /\ Cardinality(jobs) \in Nat
      BY ProcessAssumption, FiniteFacts DEF Inv, TypeOK
    <2>2. Cardinality(jobs') + pending' <= MaxRetained
      BY <1>1, <2>1 DEF SlotAvailable
    <2>3. pending' = Cardinality(Reserved') /\ pending' = Cardinality(StartingClients')
      BY <1>1, <1>6 DEF SlotInv, SlotsAccounted
    <2> QED BY <1>6, <2>2, <2>3 DEF SlotInv, SlotsAccounted
  <1>8. Retained!Reserve
    <2>1. Cardinality(Reserved) + Cardinality(jobs) < MaxRetained
      BY <1>1, FiniteFacts, ProcessAssumption DEF SlotInv, SlotsAccounted, SlotAvailable, Inv
    <2> QED BY <1>1, <1>2, <1>5, <2>1, SameCardinality
            DEF Retained!Reserve, Retained!Ids, Reserved, Ids
  <1> QED BY <1>7, <1>8

(* A start that ends gives its reservation back once.                      *)
LEMMA StartEnds ==
    ASSUME Inv, SlotInv, NEW c \in Clients, pc[c] \in StartSteps,
           pc' = [pc EXCEPT ![c] = "idle"], UNCHANGED <<arg, nextId>>, pending' = StartEnded
    PROVE  /\ arg[c] \in Ids /\ arg[c] \in Reserved
           /\ Reserved' = Reserved \ {arg[c]}
           /\ IsFiniteSet(Reserved') /\ pending' = Cardinality(Reserved')
           /\ pending' = Cardinality(StartingClients') /\ pending' = pending - 1
           /\ pending \in Nat
  <1>1. arg[c] \in Ids
    BY DEF Inv, ClientInv, StartSteps
  <1>2. c \in StartingClients /\ StartingClients' = StartingClients \ {c}
    BY DEF StartingClients, StartSteps, Inv, TypeOK
  <1>3. arg[c] \in Reserved
    BY <1>2 DEF Reserved
  <1>4. Reserved' = Reserved \ {arg[c]}
    <2>1. \A d \in StartingClients : d # c => arg[d] # arg[c]
      BY DEF StartingClients, Inv, StartInv
    <2> QED BY <1>2, <2>1 DEF Reserved
  <1>5. /\ IsFiniteSet(Reserved') /\ Cardinality(Reserved') = Cardinality(Reserved) - 1
        /\ Cardinality(StartingClients') = Cardinality(StartingClients) - 1
        /\ Cardinality(Reserved') \in Nat
    <2>1. IsFiniteSet(Reserved) /\ IsFiniteSet(StartingClients)
      BY FiniteFacts DEF SlotInv, Inv
    <2>2. /\ IsFiniteSet(Reserved') /\ Cardinality(Reserved') = Cardinality(Reserved) - 1
          /\ Cardinality(StartingClients') = Cardinality(StartingClients) - 1
      BY <1>2, <1>3, <1>4, <2>1, FS_RemoveElement
    <2> QED BY <2>2, FS_CardinalityType
  <1>6. pending \in Nat /\ pending' = pending - 1
    BY <1>5 DEF SlotInv, StartEnded, Inv, TypeOK
  <1> QED BY <1>1, <1>3, <1>4, <1>5, <1>6 DEF SlotInv, SlotsAccounted

(* release_pending_start is a GiveUp.                                      *)
LEMMA AbortSlots ==
    ASSUME Inv, SlotInv, NEW c \in Clients, ReleasePendingStart(c)
    PROVE  SlotInv' /\ \E id \in Ids : Retained!GiveUp(id)
  <1>1. /\ pc[c] \in StartSteps /\ pc' = [pc EXCEPT ![c] = "idle"]
        /\ UNCHANGED <<arg, nextId, jobs>> /\ pending' = StartEnded
    BY DEF ReleasePendingStart, GoTo, StartSteps
  <1>2. /\ arg[c] \in Ids /\ arg[c] \in Reserved
        /\ Reserved' = Reserved \ {arg[c]}
        /\ IsFiniteSet(Reserved') /\ pending' = Cardinality(Reserved')
        /\ pending' = Cardinality(StartingClients') /\ pending' = pending - 1
        /\ pending \in Nat
    BY <1>1, StartEnds
  <1>3. SlotInv'
    BY <1>1, <1>2, FiniteFacts, ProcessAssumption DEF SlotInv, SlotsAccounted, Inv
  <1>4. \E id \in Ids : Retained!GiveUp(id)
    <2>1. PICK id \in Ids : id = arg[c]
      BY <1>2
    <2>2. Retained!GiveUp(id)
      BY <1>1, <1>2, <2>1 DEF Retained!GiveUp, Reserved
    <2> QED BY <2>2
  <1> QED BY <1>2, <1>3, <1>4

(* finish_job_start is a Retain.                                           *)
LEMMA FinishSlots ==
    ASSUME Inv, SlotInv, NEW c \in Clients, FinishJobStart(c)
    PROVE  SlotInv' /\ \E id \in Ids : Retained!Retain(id)
  <1>1. /\ pc[c] \in StartSteps /\ pc' = [pc EXCEPT ![c] = "idle"]
        /\ UNCHANGED <<arg, nextId>> /\ pending' = StartEnded
        /\ jobs' = jobs \cup {arg[c]}
    BY DEF FinishJobStart, GoTo, StartSteps
  <1>2. /\ arg[c] \in Ids /\ arg[c] \in Reserved
        /\ Reserved' = Reserved \ {arg[c]}
        /\ IsFiniteSet(Reserved') /\ pending' = Cardinality(Reserved')
        /\ pending' = Cardinality(StartingClients') /\ pending' = pending - 1
        /\ pending \in Nat
    BY <1>1, StartEnds
  <1>3. Cardinality(jobs') = Cardinality(jobs) + 1 /\ Cardinality(jobs) \in Nat
    <2>1. arg[c] \notin jobs
      BY <1>1 DEF Inv, ClientInv
    <2>2. IsFiniteSet(jobs) /\ Cardinality(jobs) \in Nat
      BY FiniteFacts DEF Inv
    <2> QED BY <1>1, <2>1, <2>2, FS_AddElement
  <1>4. SlotInv'
    BY <1>2, <1>3, ProcessAssumption DEF SlotInv, SlotsAccounted
  <1>5. \E id \in Ids : Retained!Retain(id)
    <2>1. PICK id \in Ids : id = arg[c]
      BY <1>2
    <2>2. Retained!Retain(id)
      BY <1>1, <1>2, <2>1 DEF Retained!Retain, Reserved
    <2> QED BY <2>2
  <1> QED BY <1>2, <1>4, <1>5

(* The removal of a job is a Release, or nothing if another thread was     *)
(* faster.                                                                 *)
LEMMA RemoveSlots ==
    ASSUME Inv, SlotInv, NEW c \in Clients, RemoveJob(c)
    PROVE  /\ SlotInv'
           /\ (\E id \in Ids : Retained!Release(id)) \/ UNCHANGED Retained!vars
  <1>1. /\ pc[c] = "remove" /\ pc' = [pc EXCEPT ![c] = "idle"]
        /\ UNCHANGED <<arg, nextId, pending>> /\ jobs' = jobs \ {arg[c]}
    BY DEF RemoveJob, GoTo
  <1>2. StartingClients' = StartingClients
    BY <1>1 DEF StartingClients, StartSteps, Inv, TypeOK
  <1>3. Reserved' = Reserved
    BY <1>1, <1>2 DEF Reserved
  <1>4. /\ Cardinality(jobs') \in Nat /\ Cardinality(jobs) \in Nat
        /\ Cardinality(jobs') <= Cardinality(jobs)
    <2>1. IsFiniteSet(jobs) /\ jobs' \subseteq jobs
      BY <1>1, FiniteFacts DEF Inv
    <2> QED BY <2>1, FS_Subset, FS_CardinalityType
  <1>5. SlotInv'
    <2>1. pending \in Nat /\ MaxRetained \in Nat
      BY ProcessAssumption DEF Inv, TypeOK
    <2>2. Cardinality(jobs') + pending' <= MaxRetained
      BY <1>1, <1>4, <2>1 DEF SlotInv, SlotsAccounted
    <2>3. IsFiniteSet(Reserved') /\ pending' = Cardinality(Reserved')
      BY <1>1, <1>3 DEF SlotInv
    <2>4. pending' = Cardinality(StartingClients')
      BY <1>1, <1>2 DEF SlotInv, SlotsAccounted
    <2> QED BY <2>2, <2>3, <2>4 DEF SlotInv, SlotsAccounted
  <1>6. CASE arg[c] \in jobs
    <2>1. PICK id \in Ids : id = arg[c]
      BY <1>6 DEF Inv, TypeOK
    <2>2. Retained!Release(id)
      BY <1>1, <1>3, <1>6, <2>1 DEF Retained!Release, Reserved
    <2> QED BY <1>5, <2>2
  <1>7. CASE arg[c] \notin jobs
    <2>1. jobs' = jobs
      BY <1>1, <1>7
    <2> QED BY <1>1, <1>3, <1>5, <2>1 DEF Retained!vars, Reserved
  <1> QED BY <1>6, <1>7

(* All other steps keep the starts in flight and the jobs.                 *)
LEMMA SlotsKept ==
    ASSUME Inv, SlotInv, UNCHANGED <<nextId, pending, jobs>>, StartingClients' = StartingClients,
           \A c \in StartingClients : arg'[c] = arg[c]
    PROVE  SlotInv' /\ UNCHANGED Retained!vars
  <1>1. Reserved' = Reserved
    BY DEF Reserved
  <1> QED BY <1>1 DEF SlotInv, SlotsAccounted, Retained!vars, Reserved

(* The steps of a client that keep its place among the starting ones.      *)
LEMMA ClientSlots ==
    ASSUME Inv, NEW c \in Clients, ClientCall(c) \/ ClientStep(c),
           ~ReserveJobSlot(c), ~ReleasePendingStart(c), ~FinishJobStart(c), ~RemoveJob(c)
    PROVE  /\ UNCHANGED <<nextId, pending, jobs>>
           /\ StartingClients' = StartingClients
           /\ \A d \in StartingClients : arg'[d] = arg[d]
  <1> USE DEF registryVars, GoTo
  <1>1. ASSUME NEW step, pc' = [pc EXCEPT ![c] = step],
               pc[c] \in StartSteps <=> step \in StartSteps
        PROVE  StartingClients' = StartingClients
    BY <1>1 DEF Inv, TypeOK, StartingClients
  <1>2. CASE SpawnFails(c) \/ Spawn(c) \/ StdinFails(c) \/ Launch(c) \/ StartSnapshot(c)
             \/ Snapshot(c) \/ WriteDone(c) \/ WriteFails(c) \/ Cancel(c) \/ BeginJobs(c) \/ EndJobs(c)
    <2>1. /\ \E step : pc' = [pc EXCEPT ![c] = step]
                       /\ (pc[c] \in StartSteps <=> step \in StartSteps)
          /\ UNCHANGED <<nextId, pending, jobs, arg>>
      BY <1>2 DEF SpawnFails, Spawn, StdinFails, Launch, StartSnapshot, Snapshot, WriteDone, WriteFails,
         WriteReturns, Cancel, BeginJobs, EndJobs, StartSteps
    <2> QED BY <1>1, <2>1
  <1>3. CASE BeginWrite(c) \/ CheckReleasable(c)
    <2>1. /\ \E step : pc' = [pc EXCEPT ![c] = step]
                       /\ (pc[c] \in StartSteps <=> step \in StartSteps)
          /\ UNCHANGED <<nextId, pending, jobs, arg>>
      BY <1>3 DEF BeginWrite, CheckReleasable, StartSteps
    <2> QED BY <1>1, <2>1
  <1>4. CASE StdinByte(c) \/ WriteByte(c) \/ SnapshotNext(c)
    BY <1>4 DEF StdinByte, WriteByte, PipeByte, SnapshotNext, StartingClients
  <1>5. ASSUME NEW id \in Ids, NEW op \in {"snapshot", "write", "cancel", "release"},
               JobArc(c, op, id)
        PROVE  /\ UNCHANGED <<nextId, pending, jobs>>
               /\ StartingClients' = StartingClients
               /\ \A d \in StartingClients : arg'[d] = arg[d]
    <2>1. /\ pc[c] = "idle" /\ pc' = [pc EXCEPT ![c] = op] /\ arg' = [arg EXCEPT ![c] = id]
          /\ UNCHANGED <<nextId, pending, jobs>>
      BY <1>5 DEF JobArc
    <2>2. StartingClients' = StartingClients
      BY <2>1 DEF Inv, TypeOK, StartingClients, StartSteps
    <2>3. \A d \in StartingClients : arg'[d] = arg[d]
      BY <2>1 DEF Inv, TypeOK, StartingClients, StartSteps
    <2> QED BY <2>1, <2>2, <2>3
  <1> QED BY <1>2, <1>3, <1>4, <1>5 DEF ClientCall, ClientStep

(* Every step accounts for its slots and maps to a step of the contract.   *)
LEMMA NextSlots ==
    ASSUME Inv, SlotInv, [Next]_vars
    PROVE  SlotInv' /\ [Retained!Next]_(Retained!vars)
  <1>1. ASSUME UNCHANGED <<registryVars, pc, arg>>
        PROVE  SlotInv' /\ UNCHANGED Retained!vars
    BY <1>1, SlotsKept DEF registryVars, StartingClients
  <1>2. CASE UNCHANGED vars
    BY <1>1, <1>2 DEF vars, clientVars
  <1>3. ASSUME NEW c \in Clients, ClientCall(c) \/ ClientStep(c)
        PROVE  SlotInv' /\ [Retained!Next]_(Retained!vars)
    <2>1. CASE ReserveJobSlot(c)
      BY <2>1, ReserveSlots DEF Retained!Next
    <2>2. CASE ReleasePendingStart(c)
      BY <2>2, AbortSlots DEF Retained!Next, Retained!Ids, Ids
    <2>3. CASE FinishJobStart(c)
      BY <2>3, FinishSlots DEF Retained!Next, Retained!Ids, Ids
    <2>4. CASE RemoveJob(c)
      BY <2>4, RemoveSlots DEF Retained!Next, Retained!Ids, Ids
    <2>5. CASE ~ReserveJobSlot(c) /\ ~ReleasePendingStart(c) /\ ~FinishJobStart(c) /\ ~RemoveJob(c)
      BY <1>3, <2>5, ClientSlots, SlotsKept
    <2> QED BY <2>1, <2>2, <2>3, <2>4, <2>5
  <1>4. ASSUME NEW id \in Ids, WaiterStep(id) \/ ChildStep(id)
        PROVE  UNCHANGED <<registryVars, pc, arg>>
    BY <1>4 DEF WaiterStep, ChildStep, PollExited, PollExpired, PollFails, RecordExit, Expire,
       Reap, RecordFailure, ChildReads, ChildExits, ChildWrites, clientVars
  <1>5. ASSUME NEW id \in Ids, NEW s \in Streams, ReaderStep(id, s)
        PROVE  UNCHANGED <<registryVars, pc, arg>>
    BY <1>5 DEF ReaderStep, ReadChunk, AppendOutput, ReaderEof, ReaderError, clientVars
  <1> QED BY <1>1, <1>2, <1>3, <1>4, <1>5 DEF Next

(* The registry starts empty, in both descriptions.                        *)
LEMMA InitSlots == Init => SlotInv /\ Retained!Init
  <1> SUFFICES ASSUME Init PROVE SlotInv /\ Retained!Init
    OBVIOUS
  <1>1. StartingClients = {} /\ Reserved = {} /\ jobs = {} /\ pending = 0 /\ nextId = 0
    BY DEF Init, StartingClients, StartSteps, Reserved
  <1>2. IsFiniteSet({}) /\ Cardinality({}) = 0
    BY FS_EmptySet
  <1>3. SlotInv
    BY <1>1, <1>2, ProcessAssumption DEF SlotInv, SlotsAccounted
  <1>4. Retained!Init
    BY <1>1 DEF Retained!Init, Reserved
  <1> QED BY <1>3, <1>4

(* SlotsAccounted: no path through start leaks or double-frees its pending *)
(* slot, and jobs and starts in flight never exceed max_retained.          *)
THEOREM SlotsAlwaysAccounted == Spec => []SlotsAccounted
  <1>1. Init => SlotInv
    BY InitSlots
  <1>2. Inv /\ SlotInv /\ [Next]_vars => SlotInv'
    BY NextSlots
  <1>3. SlotInv => SlotsAccounted
    BY DEF SlotInv
  <1> QED BY <1>1, <1>2, <1>3, Invariance, PTL DEF Spec

(* RetainedSpec: the process registry keeps the contract of                *)
(* RetainedRegistry.                                                       *)
THEOREM ImplementsRetained == Spec => RetainedSpec
  <1>1. Init => SlotInv /\ Retained!Init
    BY InitSlots
  <1>2. Inv /\ SlotInv /\ [Next]_vars => SlotInv' /\ [Retained!Next]_(Retained!vars)
    BY NextSlots
  <1> QED BY <1>1, <1>2, Invariance, PTL DEF Spec, RetainedSpec, Retained!Spec

=============================================================================
