# Ricochet: TLA+ models, checks and proofs

Ricochet is a stack language with a bytecode VM, a web framework, a command
line tool with a package registry server, a secrets library and a sandbox
description crate. The interpreter itself is sequential (its compiler and its
instruction loop are checked against a reference evaluator); what is hardest to
test is what surrounds it: registries of operating system resources shared by VM
threads, background tasks, a registry server that writes files while it serves
requests, and secret sessions that a host closes while requests are in flight.
This directory models those parts in TLA+, checks them with TLC on small
instances and proves the central invariants with TLAPS for all instances.

`PROJECT.json` holds the machine-readable side: components, runs, the map from
definitions to source lines, findings, hazards, mutants and theorems.

## Inventory

| Component | Source | State | Operations | Hard behaviour | What makes it correct | Status |
|---|---|---|---|---|---|---|
| Process jobs | `ricochet_vm/src/process_runtime.rs` | job table, `next_id`, `pending_starts`; per job: status, `cancel_requested`, stdin, output buffers, child | start, job, jobs, read, write, cancel, release; reader and waiter threads | two levels of mutexes, blocking writes under a mutex, timeout against exit against cancel | limit kept, no orphaned child, cancellations reported, calls return, output is a prefix | modelled |
| Background tasks | `ricochet_vm/src/vm.rs` | per VM task table and `next_task_id`; process-wide permit counter; completions | spawn, value tasks, await, await_all, release_task | nesting, panics, handles that cross VMs, repeated awaits | permits balance, output merged once, awaits return and answer for their task | partly |
| Hosted registry server | `ricochet_cli/src/hosted_registry_server.rs` | registry document (memory and `registry.json`), artifacts, idempotency records | publish, yank, replay, restart | concurrent requests with one key, failing writes, crashes | records match archives, acknowledged work is durable, replays are true | partly |
| Secret sessions, deferred credentials | `ricochet_secrets/src/session.rs`, `http_executor.rs` | slots with generations, closed flag | bind, reference, validate, resolve, close | a flag outside the mutex, validation long before use | closed sessions are empty and answer nothing, references never redirect | partly |
| PTY sessions | `ricochet_vm/src/pty_runtime.rs` | session table, pending starts; per session: status, writer, output, child | start, read, write, stop, release; reader and waiter threads | the mutex held while the terminal takes bytes, the reader that answers cursor queries | no child given up alive, slots accounted, sessions end | partly (no resize) |
| Sockets | `ricochet_vm/src/socket_runtime.rs` | four registries (connections and listeners of two protocols) | connect, listen, accept, read, write, close, list, release | listings that hold the registry while a read holds a connection; pending slots on error paths | slots accounted, calls return, an empty registry has room | modelled |
| HTTP and upload streams | `http_stream_runtime.rs`, `upload_runtime.rs` | stream jobs, bodies with a limit; temporary files | start, read, cancel, release; the worker | cancel and release while the worker reads; a chunk over the limit | a finished stream is frozen, a reader told "done" has everything | modelled |
| Approvals | `approval_runtime.rs` | approval records, expiry | create, claim, complete, reject, release | lazy expiry with a clock read before the mutex, eviction | a record is claimed once, open work is not evicted | modelled |
| Workspace writes | `builtins.rs`, `workspace_runtime.rs` | files, write mutex, staging files | write, copy, move, delete | check and rename are separate calls; copies and moves take no mutex | a conditional write replaces what it was checked against | partly |
| GUI secret host | `commands/gui.rs`, `secure_action.rs`, `secure_prompt/` | action tokens, page generation, prompt tickets | navigate, issue, take, prompt, shut down | two-step generation change, issuing from tasks | an action is used once and on its page, prompts keep their turn | partly |
| Sandbox lifecycle and protocol | `ricochet_sandbox/src/` | session state, processes, revoked tools, audit log; keys, sequence numbers, outstanding requests | launch, stop, revoke, close; encode, decode, record, complete | tools that are helpers of tools, exhausted counters, closing twice; frames repeated, reordered, reflected, ids used again | no process of a revoked tool runs, every tree ends once; messages arrive in order and once, answers complete their own requests | partly |
| Active record, database | `ricochet_web/src/active_record.rs`, `database_capability.rs` | transaction and savepoints of a session, the SQLite slot | begin, commit, rollback, savepoints, writes, drop | a shared connection behind a condition variable, sessions dropped in a transaction | connections come back clean, answers about work are true, `begin` returns | partly |
| Migrations | `ricochet_cli/src/lib.rs` | `schema_migrations` | apply, rollback, packaged launch | several launches at once, engines that commit DDL | a recorded version is in force, exactly once | partly |
| Debugger | `ricochet_vm/src/vm.rs`, `ricochet_cli/src/lib.rs` | step targets, breakpoints; pause id, latest event, subscribers | step, next, out, continue, breakpoints, subscribe | stale step targets, two browsers, late viewers | pauses where asked, one resume per pause, viewers see events in order | partly |
| Web server | `ricochet_web/src/server.rs`, `revision.rs` | runtime, signature, revision | build, sign, snapshot, render | files saved between two reads, rebuilds by several requests | requests get the code that was saved, revisions name runtimes | partly (hot reload) |
| Compiler and linker | `ricochet_compiler/src/compiler.rs`, `imports.rs` | chunk, loop stack, loaded and visiting files | compile, patch, append | jump targets, cycles, files imported twice | a program does what its tree says | partly (no macros, classes, paths) |
| Interpreter, dynamic modules | `ricochet_vm/src/vm.rs` | stack, calls, budget; module tables and loading marks | execute, call, import_dynamic, module_call | errors in nested calls, imports from calls, tasks that copy the tables | swaps nest, marks are cleared, modules are cached | partly |
| Lexer, parser, formatter, templates, router | `ricochet_syntax`, `ricochet_web` | none | pure translation | text | - | not modelled |
| Builtins, images, collections | `ricochet_vm/src/builtins.rs`, `image.rs` | VM stack | sequential words | data types | - | not modelled |
| Package client, CLI, LSP | `ricochet_cli/src/` | files, text protocols | commands | formatting and I/O | - | not modelled |

How they interact: VM words call the registries directly from whatever VM
thread runs them (a task's VM shares its spawner's registries); tasks are
operating system threads; the package client talks HTTP to the hosted registry
and repeats keyed requests; the HTTP executor asks the secret session twice, at
preparation and when the request is sent; the GUI host owns and closes
sessions.

## Modules

- `RetainedRegistry`: the contract of a bounded registry of host resources.
  An id is reserved before the resource is opened, a reservation ends in
  exactly one way, ids are not handed out twice, and reservations plus retained
  resources stay within the limit. Jobs, PTY sessions, and connections and
  listeners of sockets are shown to implement it.
- `ProcessRuntime` (`ProcessRuntimeProofs`): process jobs; implements
  `RetainedRegistry`.
- `TaskRuntime` (`HostWorkProofs`): background tasks.
- `HostedRegistry` (`MCHostedRegistry`, `HostedRegistryProofs`): the server.
- `SecretSession` (`SecretSessionProofs`): secret sessions and the two-phase use
  of a credential.
- `SocketRuntime`, `StreamRuntime`, `PtyRuntime` (`HostResourceProofs`),
  `ApprovalRuntime`, `WorkspaceWrites` (`HostGuardProofs`): the other host
  resources a VM reaches through handles.
- `GuiSecretHost` (`HostGuardProofs`): the secure actions and prompts of the GUI.
- `SandboxSession` (`HostGuardProofs`): a session of the mock sandbox backend.
- `SandboxChannel` (`ProgramProofs`): the authenticated channel between host and
  broker.
- `DatabaseSession`, `Migrations` (`HostWorkProofs`): transactions of a web
  request, and the migrations of its database.
- `DebugSession` (`HostWorkProofs`): the debugger in the VM and the browser
  session around it.
- `Interpreter` (`ProgramProofs`): the instruction loop, its calls and its
  budget, for any chunks that a compiler has linked.
- `Language`: the compiler and the linker, and a reference evaluator of syntax
  trees for what they make of a program.
- `DynamicModules` (`ProgramProofs`): modules loaded by a running program.
- `HotReload` (`ProgramProofs`): the watched web server.
- `ProgramRuntime` (`ProgramProofs`) with its instance `MCProgramRuntime`,
  `MCHostResources` (`HostProofs`), `MCServices`, `MCHostLiveness`: compositions.
  Their parts share no state in the program either, so a behaviour chooses one
  part at the start and runs it, while the variables of the others keep their
  initial values; what a run shows is what a run per part would show. That the
  first two compositions refine their parts is proved.

Definitions whose comment begins with "Mutant" describe a plausible mistake in
the definition that follows them; nothing uses them. With the mutant in place
of that definition TLC reports the property it is listed with as violated.

### ProcessRuntime

`nextId`, `pending`, `jobs` are `ProcessRegistryState`, `regLock` its mutex;
`status`, `cancelRequested`, `stdin`, `out`, `truncated` are `ProcessJobState`,
`lock` its mutex; `waiter[id]` is the program counter of the thread of
`spawn_waiter` and `buf[id][s]` the chunk a reader holds between `read` and
`append_output`. `pc[c]` is the step of a client. A critical section that
cannot block is one step guarded by "the mutex is free"; `write` keeps the job
mutex across steps because `write_all` blocks on a full pipe, the waiter keeps
it between kill and wait of an expired job, and `jobs` keeps the registry mutex
while it takes one snapshot after the other. `release` is two steps
(`CheckReleasable`, `RemoveJob`), the waiter's look at the child and what it does
about it are two steps, and so are the two snapshots at the ends of `start` and
`cancel`. Children and pipes are external: a child reads, writes and exits as it
likes; a killed one only exits; a kill may fail (`KillFails`). Bytes are
counted, not represented. `wait` on an own child is taken to succeed.

### TaskRuntime

VM 0 is the root, VM t runs task t. A task value is a number (`id`) together
with history (`of`): the task it was made for. What a program does between task
words is abstracted to the task values it can reach: its own, the ones captured
at `spawn`, and the ones awaited tasks returned. `BeginAwait` is the removal of
the entry in `resolve_task`, `FinishAwait` the rest once the worker published.

### HostedRegistry

`pc[h]` walks through `publish_version_inner` and `yank_version_inner`:
`replay` (the idempotency lookup, its own mutex), `lock` (waiting for the
registry mutex), `archive`/`archiving` (`write_new_file`), `commit`,
`save`/`saving` (`save_registry`, truncate then write), `store`. Each of the
file steps can fail. `Crash` may happen in any state and loses everything but
`document` and `artifacts`; `Restart` refuses a torn document, as
`load_registry` does. `answers` and `saved` (the last complete `registry.json`)
are history. The provenance and signature files are part of `Commit`: they are
written once the archive is complete and only their failure matters. One
publisher is modelled, so the token is not part of the fingerprint.

### SecretSession

An operation is `Begin...` (the first `ensure_open`), `Enter` (mutex and second
`ensure_open`), and its body, which releases the mutex. `Close` sets the flag
without the mutex, `Clear` empties the slots under it. A reference carries, as
history, the value that was bound when it was made.

### SocketRuntime

A behaviour is about one protocol. A client's call is a record with its step and
resource: reserve, connect (or fail at one of the points the code fails at),
retain; read and write hold the connection's mutex until the peer or the timeout
lets them go; `List` takes the registry's mutex and then each connection's;
`release` is a check and a removal. `accept` waits on a clone of the listening
socket, so the listener may be closed, and released, meanwhile.

### StreamRuntime

The worker's steps are those of the thread `start` spawns: send, headers, chunk
by chunk with `append_body` (which cuts at `BodyMax`), finish or fail. Cancel sets
the status at once and the worker notices later. A reader keeps the offset the
last read answered. Uploads are finished files with handles.

### PtyRuntime

As `ProcessRuntime`, with one mutex per session, a reader that may write (the
cursor report), a waiter that polls, and `stop`, which kills without waiting.
The terminal has a bounded input and a bounded output; a write and the reader's
cursor report keep the mutex until the input took their bytes.

### ApprovalRuntime and WorkspaceWrites

Approvals: every operation is two steps, reading the clock and the critical
section that uses it. Writes: the steps are the file system calls that another
process or word can come between (inspect, stage, check again, rename); only
`workspace_write_text` takes the mutex. `stale` is history: it marks the writers
whose view an unsynchronized word changed, for which nothing is claimed.

### GuiSecretHost, SandboxSession and SandboxChannel

The GUI thread handles one event at a time; issuers run in parallel and read the
closed flag, the generation and the action table in three steps. Prompts wait for
the turn of their ticket. A sandbox session has one owner, so an operation is one
step and the difficulty is the order of calls. A session ends for each of the
code's reasons, and an execution's end record is the one `termination_audit_kind`
gives that reason: timed out, resource limit, or cancelled. `MaxNativePtyId` is the
last PTY id whose native process id fits its 32 bits.

The channel keeps what `AuthenticatedCodec` keeps (`nextSend`, `nextReceive`, the
keys) and the `outstanding` map of `ResponseCorrelation`. `sentFrames` holds every
frame ever made, and delivering any of them to either endpoint at any time is how
the carrier repeats, reorders, reflects and loses; a damaged frame fails its
signature and changes nothing. A signature is taken to be good only for the key
it was made with. `MaxSequence` stands for `u64::MAX`. A host records a request
and then sends it, as the code's tests do; a request that does not fit into a
frame, or finds no number left, stays recorded. The broker is external: it
answers each request once, in any order, with any response.

### DatabaseSession and Migrations

`frames` is the engine's view of a connection (a transaction and its savepoints,
each with the writes made in it), `dbTx` and `savepoints` the session's. The
engines are external: SQLite shares one connection through a slot and a condition
variable, the others open one per transaction; a failing statement may make
PostgreSQL refuse everything until a rollback. Migrations run as processes with
their own set of files; `inForce` counts how often a version's effect is there.
Assumed of the project's SQL: a down script undoes its up script, or fails or
does nothing when there is nothing to undo. MySQL's steps, which commit each
statement, are modelled for completeness: nothing is claimed about its records.

### DebugSession

The program is any sequence of instructions at lines and call depths, started
with any lines of `--break`, and stepped through when asked for or when there are
none.
`pause_before_instruction` is modelled with its step targets and the suppressed
breakpoint; the web session with the mutex of its status, the command channel,
the broadcast channel and the latest event.

### Interpreter and Language

One step of `Interpreter` is one instruction of `execute_instruction`. `calls` has
the activations of `run_chunk_with_frame_inner`, the innermost last, each with its
chunk, its `ip`, the stack that `call_block` saved and the height that
`call_bytecode_block_with_args` will truncate to. What it runs are the constants
`Compiled` and `Blocks`, of which `InterpreterAssumption` says what the compiler
guarantees: jumps and block indices are in range (`IsLinked`, which is what
`validate_jump` asks), and a block ends in the return that `compile_block_chunk`
adds. TLC evaluates this for every program of the instance. `println` stands for
the words that consume a value and can fail, `read` for those that bring one in.
There are no Result values, so the error of a Result used as a condition
(`UncheckedResultCondition`) does not occur.

In `Language`, `CompileExprs` and the operators around it are `Compiler`: they emit
instructions and patch them as the code does, with the loop stack of `break` and
`continue`; `CompileFile` and `AppendChunk` are the resolver and the linker. They
are recursive operators, so no theorem is stated about this module. `EvalFile` and
`Eval` give a program its meaning without jumps, by recursion over the tree, and
`SourceMeaning` compares the two for every program of the instance.

### DynamicModules

A language state (stack, variables, functions, classes) is its serial number and
the height of its stack. Frames are the imports and module calls in progress, with
the state they will give back. The program and one task run, the task from copies
of the program's tables. The loader is the constant `Resolves`; since it refuses
absolute paths and module ids are absolute, no specifier is a module id.

### HotReload

Three files stand for the project: routes, a controller and a view. Every reader
(start-up, and each request in `project_signature` and in the builder) reads one
file per step, and the developer may save in between. A hash stands for what it
was taken of. The view is read once more when it is rendered, whatever runtime
serves the request; `rendered` keeps that, and no property is about it. `stale` is
history: the requests that were served code other than what the files held from
before the request began until it was served.

## Runs

| Run | Checks | Instance |
|---|---|---|
| `program_safety` | process jobs: slots, no orphans, cancellations, writers, final states, refinement of `RetainedRegistry`; programs mean their source, their calls nest and their budget is kept; modules nest and are cached; the watched server serves what was saved under revisions that name runtimes; the sandbox channel delivers in order and answers each request with its own response | jobs: 2 clients, 2 starts against a limit of 1, a text of 2 bytes for a pipe of 1, failing and succeeding kills; programs: 847 trees of up to two levels of control flow and 144 sets of three importing files, on all 16 tapes, within 40 instructions; modules: 2 files under 3 names, 2 VMs, 2 nested frames; reload: 2 requests, 3 saves of 3 files; channel: a connection with one request of any kind and every answer, one with 2 ids and 3 sequence numbers; 1,252,207 states up to symmetry of the clients |
| `process_cancel_stuck` (violated) | `process_cancel` returns | 1 job whose child does not read |
| `task_alias` (violated) | an await answers for the task of its handle | 3 tasks in any nesting |
| `services` | the hosted registry: archives, durability, truthful replays, append-only store; secret sessions: closed ones are empty and answer nothing, references are faithful | registry: 2 handlers, 2 versions, 2 bodies, 2 keys against 1 record, 3 requests, 2 crashes; secrets: 2 sessions of one domain and a second domain, 2 names against 1 slot, 2 values, 2 threads, 2 generations; 1,830,272 states |
| `hosted_replay_race` (violated) | a replay returns the original result | 1 version, 2 records |
| `hosted_yank_lost` (violated) | an acknowledged yank is saved | 1 version, 1 record |
| `host_resources` | safety of tasks, sockets, streams, PTYs, approvals, workspace writes, the GUI host, the sandbox, transactions, migrations, the debugger; the registries of sockets and PTYs implement `RetainedRegistry` | two actors each; limits of 1 that the second actor meets (two starts of a PTY, whose output is left to `host_liveness`); 3 tasks in any nesting; 3 engines; debugging without `--break` lines and with all; 833,623 states up to symmetry of the clients, of the texts and of the lines |
| `host_liveness` | jobs and PTY sessions end and calls on them return, captured output is drained and accounted for, awaits return, socket calls return | 2 clients; 1 job, 1 stream, 2 bytes of output against a limit of 1, texts of 2 bytes for a pipe of 2; 2 tasks; 1 connection, 1 listener; 1 session, texts of 2 bytes for a terminal of 1; 138,921 states |
| `pty_stop_stuck` (violated) | `pty_stop` returns | 2 clients, 1 session whose child stops reading only while its output is full |
| `socket_slot_leak` (violated) | a registry that holds nothing has room | 2 clients, a limit of 1 |
| `database_wakeup` (violated) | `begin` returns | 3 sessions on SQLite |
| `debug_replay` (violated) | late viewers are shown the pause | 1 browser, 1 late viewer |

The bounds let every limit be hit (registry full, pipe full, output cut,
permits exhausted, records pruned, session full, generations and ids exhausted)
with two actors contending; a second start after a release, a second crash after
a restart, and a third task that sits between two others are the longest patterns
the code distinguishes. Requests, starts, tasks and crashes are bounded in the
guards by constants that end in a finite run, so runs in which everything is
used up may stop: there `CHECK_DEADLOCK FALSE` is set. `program_safety` checks
deadlock as well: a part may stop only where `MayStop` says (a program that
ended, a VM outside of modules, a server without requests, a channel whose frames
were lost), so the instruction loop never gets stuck. In `host_liveness` jobs and
sessions end and calls return provided no child leaves its stdin or its
terminal's input full for ever (`StdinTaken`, `PtyInputTaken`); without these
premises they do not (`process_cancel_stuck`, `pty_stop_stuck`). Symmetry is used
for safety only.

### What the violated runs show

1. `process_cancel_stuck`: `ProcessJob::write` calls `write_all` with the job
   mutex held. With a full pipe and a child that does not read, `cancel`, the
   timeout and every other word on that job wait behind it; the reference says
   that `process_cancel` returns the latest snapshot.
2. `pty_stop_stuck`: `PtySession::write` calls `write_all` with the session's
   mutex held, which the reader needs to keep the output it has read. A child that
   copies its input to its output fills the terminal, waits for the reader and so
   does not read the rest of the write: writer, reader and child wait in a circle,
   and `pty_stop` and the waiter wait for the mutex. The reference says that
   `pty_stop` returns the latest snapshot.
3. `task_alias`: task numbers are per VM but travel between VMs, so awaiting a
   captured or returned handle answers for whichever task has that number.
4. `hosted_replay_race`: the idempotency lookup precedes the registry lock and
   is not repeated, so two concurrent requests with one key get a success and a
   conflict, and the conflict overwrites the record.
5. `hosted_yank_lost`: a yank is set in memory before it is saved. If the save
   fails the retry finds nothing to do, answers success, and a restart forgets
   the yank.
6. `socket_slot_leak`: `WebSocketRegistry::connect` returns early when the
   timeouts of a new connection cannot be set, and its pending slot stays counted.
   After as many such failures as the limit the registry refuses every connection
   although it holds none.
7. `database_wakeup`: returning SQLite's connection wakes one sleeper. If it is a
   plain query, it uses the connection in place and wakes nobody, and a `begin`
   that slept beside it sleeps on beside a free connection.
8. `debug_replay`: `latest_event` keeps every event, so after a breakpoint change
   in a pause a late viewer is shown the breakpoint list and not the pause.

### Fairness

Process clients and waiters are strongly fair: they contend for mutexes that
others release and take again, and the platform mutex does not starve a thread
for ever. `PollExpired` being part of the waiter's fairness says that the clock
reaches `request.timeout`. Error answers of the operating system (`PollFails`,
`SpawnFails`, `ReaderError`) are not forced. Readers are fair; a child that was
killed exits; a child that was not owes nothing. End of file on an output pipe
assumes that no grandchild keeps the pipe open. Kills succeed in the liveness
runs. For tasks: programs are finite, so a worker that does not wait for another
task ends, and notified waiters wake up. Sockets: each client is strongly fair,
which includes that a blocking read or write ends at its timeout. PTYs: clients,
reader and waiter are strongly fair; the child owes nothing, it may never read,
print or exit, and `PtysEnd` has the premise `PtyInputTaken` instead. Only
`pty_stop_stuck` adds a fair child (`EchoSpec`: it reads while it could print), so
that what it finds is not the child's fault. In `host_liveness` the threads that
serve jobs, tasks and sessions share one condition: each takes finitely many
steps, so strong fairness of all of them together is strong fairness of each.
Database: a request's
thread goes on when it can, and every request ends and drops its session; a
condition variable need not wake up spuriously, so nothing is assumed of that.
The debugger's and the other modules are checked for safety only.

## Theorems

All are of the form `Spec => []P` or `Spec => A` for every value of the
constants that the named `ASSUME`s allow (natural numbers for limits, finitely
many clients, at least one page of the GUI, distinct model values); TLC evaluates these on every run.

- `ProcessRuntimeProofs`: `TypeOK`, `NoOrphanedChild`, `CancelNotLost`,
  `WriteSeesLiveJob`, `TerminalIsFinal`, `OutputAccounted`. The invariant `Inv` adds what a thread
  may rely on between two critical sections: `JobInv` ties the status to the
  waiter's step and the mutex (a watched job is running, a job being reaped has
  its mutex held by the waiter, a waiter that is done with a job that did not
  fail saw its child exit); `ClientInv` says what a client at each step knows of
  its job (a client about to remove a job has seen a waiter that is done, a
  writer holds the mutex); `StartInv` says that starts in flight have different
  ids. Without the second, `NoOrphanedChild` is not inductive at `RemoveJob`, whose
  check is in the past. `OutputAccounted` is inductive once the types are known:
  of each stream, what was written is in the pipe, in the reader's hand, retained
  or dropped, and `append_output` drops only what is over the limit.
  `SlotsAccounted` and the refinement `RetainedSpec` are in the same module.
  The ids of starts in flight are as many as the pending slots, because they
  differ; `reserve_job_slot`, `release_pending_start`, `finish_job_start` and
  the removal map to `Reserve`, `GiveUp`, `Retain` and `Release`; every other
  step, and the removal of a job that another client removed, is a stutter.
- `HostedRegistryProofs`: `TypeOK`, `RecordsMatchArtifacts`,
  `AckedPublishDurable`, `ReplaysTruthful`, `AppendOnly`. The invariant: the
  handler between lock and answer holds the mutex (`HoldInv`) and has done what
  its step says (`StepInv`); `registry.json` is torn or the last complete one,
  which the document of a running server extends (`DocInv`); acknowledged and
  recorded publishes are in that one (`AckInv`, `IdemInv`). The history variable
  `saved` carries the argument over a torn file.
- `SecretSessionProofs`: `SecretTypeOK`, `WithinCapacity`, `ClosedIsEmpty`,
  `ReferenceFaithful`, `NoCredentialAfterClose`. The invariant says that the
  thread inside is the holder of the mutex, that a cleared session has nobody
  inside and no slots, and that no reference is newer than its slot and one of
  the same generation has its value, so a later bind cannot redirect it.

- `ProgramProofs`:
  - `ChannelSound`. The frames of an endpoint are numbered without gaps under
    its own key, and what its peer accepted is a prefix of them; from this, a
    response belongs to one request, and the host's entry of an id is that of
    the last request sent under it (`RequestsServed`, `EntriesKept`).
  - `ModulesSound`. Frames, current state and table hold different language
    states (`FramesNest`, `TableApart`); the marks are those of the imports in
    progress and of the parent (`MarksNest`); a loaded module is in the table
    or taken out by a call, and one being imported is in neither
    (`LoadedOnce`). The last two need each other: it is the mark that keeps an
    import in progress from being loaded once more inside itself.
  - `ExecutionSound` and `LanguageTypeOK`, which together are inductive
    (`LanguageInv`). A chunk that was called is a block because the value that
    was on top of the stack said so, hence it ends in a return; so the caller that
    goes on behind its call is not at its end. The theorem is about any linked
    program; that the compiler links its programs is the part that is
    model-checked.
  - `ReloadCoherent`. `RequestInv` and `StoredInv` say of every signature that its
    contents were once in the files, so a save that makes a signature true
    again is one that brought contents back. Without contents that come back
    the number of different contents a file had is the number of its saves,
    which is how `PastInv` counts them.
  - the types of all parts, and the composition: every behaviour of
    `ProgramRuntime` is one of each part (`ProgramRunsItsParts`; of the
    interpreter where the behaviour runs it, and otherwise the interpreter has
    nothing to run), so `ProgramTypeOK`, all safety invariants of the parts
    (`ProgramIsSafe`), `TerminalIsFinal` and `RetainedSpec` hold of it.
- `HostGuardProofs`:
  - `ClaimedOnce` and `OpenWorkKept`: a serial belongs to one record and a
    claim to a serial that was given (`SerialsFresh`), so a pruned record whose
    id is used again is not mistaken for the new one.
  - `ActionsPromptOnce`: an id in the table was never taken (`TakesInv`); while a
    prompt is on its way nothing closes and the page stays (`PromptInv`); the
    coordinator waits for the ticket of the GUI thread or of nobody
    (`TicketInv`).
  - `WritesCoordinated`: under the mutex a staging file is its writer's alone
    and complete when it is renamed (`StagedInv`), and the text at the path is
    the one the writer saw unless a word without the mutex came in between
    (`ViewInv`).
  - `ExecutionsControlled`: `TrailInv` says of the audit trail what the property
    says, without counting records, and that a tree not numbered yet has none,
    which is what a launch needs; `Addition` says what one operation may append.
    That revocation stops every chain of helpers is shown by taking, of a chain
    that left the closure, the first link that did; that the active executions
    can be listed by tree number, by taking the least one first.
- `HostWorkProofs`:
  - `MigrationsTruthful`: a process that applies a migration has the write lock
    and the version is not recorded (`LockInv`); only MySQL has a step between
    the effect and its record (`CommandsInv`).
  - `TransactionsIsolated`, for the three backends. SQLite's connection has one
    holder or is in the slot (`HoldersInv`), and a connection has frames only
    while a session has a transaction on it (`FramesInv`). The numbers of a
    session's savepoints grow (`SavepointsInv`), so the one that
    `finish_savepoint` allows is the frame on top, and completing it touches no
    other. While the engine ends nothing on its own, its frames hold what the
    session wrote, savepoint by savepoint, and a write is in one place
    (`WorkInv`): a commit stores what it answers and a rollback undoes what is
    not stored.
  - `PermitsAccounted` and `AwaitsRepeatable`: `FamilyInv` says that there is a
    tree of VMs and a numbering of tasks such that every entry, in a table or
    taken out by an await, is at its task's place, and that a VM has the output
    of another only through the one task that leads to it, which it has
    consumed. That tree is not part of the state; the invariant says it exists.
  - `DebugSessionCoherent` and `DebugTypeOK`: while the program runs its three
    step targets are those of the last resume (`TargetsAsAsked`); at most one
    resume is on its way, it carries the number of the last pause, and while
    there is one the session is not paused (`ResumesInv`); the latest event is
    the last broadcast one, or the one between the two halves of publish
    (`LatestInv`).
- `HostResourceProofs`:
  - `ReadersComplete` and `StreamFrozen`: the body is what was received up to the
    limit (`BodyKept`), and a stream that is over changes no more (`Follows`),
    which is why a reader that was told so has all of it.
  - `PtysAccounted`: as for processes; a child that lives belongs to a start in
    flight or to a running session that still holds it (`PtyOwned`).
    `PtysRetained`: the registry of sessions implements `RetainedRegistry`, the
    pending starts being the clients between reservation and insertion.
  - `SocketsAccounted`: pending slots are the starts in flight and the leaked
    ones (`SocketSlots`); a call on a resource has one that was retained, so its
    id never is that of a start (`SocketUses`); a transfer has the mutex
    (`TransferInv`). `SocketsRetained`: connections and listeners implement
    `RetainedRegistry` each, a leaked slot being a reservation that never ends.
- `HostProofs`: every behaviour of the host is one of each of its eleven parts
  (`HostRunsItsParts`), so `HostTypeOK`, all safety invariants of
  `host_resources` (`HostIsSafe`) and its action properties and refinements
  (`HostKeepsItsWord`) hold of it, for every value of the constants.

Each inductive invariant was model-checked on the bounds of the component's run
before it was proved. The proofs show the properties for any number of actors
and any value of the limits; the bounds named `Max...` that stand for no limit of
the code are arbitrary too, so what is proved does not depend on them.

The type invariants and `WithinCapacity` are proved and not run any more: the
theorems cover every instance, `ProgramTypeOK` and `HostTypeOK` those of the two
large compositions.

Only model-checked:

- liveness (`JobsEnd`, `CallsReturn`, `OutputDrained`, `AwaitsReturn`,
  `SocketCallsReturn`, `PtysEnd`): fairness is out of the
  prover's reach;
- `SourceMeaning`: it is about recursive operators, and so is what
  `InterpreterAssumption` asks of the compiler.

## Not modelled, and the plan

Text, formatting, argument parsing, SQL generation and the static sandbox
catalogue are sequential data transformation; the inventory names them. They are
most of the repository's lines, so the share of lines that the map covers is
small although the parts with state shared between threads, processes or calls
are covered.

Every safety invariant and action property that a run checks is a theorem but
`SourceMeaning`, and so is every refinement. What is left is what needs induction
over syntax trees: that the compiler links its programs, and that they mean what
their trees say.
