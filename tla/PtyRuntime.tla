----------------------------- MODULE PtyRuntime -----------------------------
(***************************************************************************)
(* Interactive PTY sessions (crates/ricochet_vm/src/pty_runtime.rs).       *)
(*                                                                         *)
(* A session is a child on a pseudo terminal with two threads of its own:  *)
(* a reader that appends what the child prints, and a waiter that polls    *)
(* for its exit.  VM threads write to it, stop and release it.  One mutex  *)
(* guards the session; a write holds it until the terminal has taken every *)
(* byte, and so does the reader when it answers a cursor position query.   *)
(* The terminal's queues and the child are external.  resize only replaces *)
(* the recorded size, and snapshots change nothing; they are left out.     *)
(***************************************************************************)
EXTENDS Integers, FiniteSets, FiniteSetsExt

CONSTANTS
    PtyClients,      \* VM threads that call the PTY words
    MaxSessions,     \* bound: sessions that are ever started
    MaxRetainedPtys, \* max_retained of the registry
    TtyCapacity,     \* bound: bytes the terminal queues in each direction
    PtyOutputMax,    \* output_max_bytes of every session
    PtyChildOutput,  \* bound: bytes the child prints
    PtyInputs        \* lengths of the inputs a client writes

ASSUME PtyAssumption ==
    /\ IsFiniteSet(PtyClients)
    /\ {MaxSessions, MaxRetainedPtys, PtyOutputMax, PtyChildOutput} \subseteq Nat
    /\ TtyCapacity \in Nat \ {0} /\ PtyInputs \subseteq Nat \ {0}
    /\ "nobody" \notin PtyClients /\ "reader" \notin PtyClients

VARIABLES
    ptyNext, ptyPending, ptys, \* the registry: next_id, pending_starts, sessions
    pty,                       \* PtySessionState of every id, with its mutex, child and terminal
    ptyReader, ptyWaiter,      \* the steps of each session's two threads
    ptyCall,                   \* each client: its step, its session, the bytes left to write
    ptyLost                    \* history: sessions whose child was given up alive

ptyVars == <<ptyNext, ptyPending, ptys, pty, ptyReader, ptyWaiter, ptyCall, ptyLost>>
ptyRegistry == <<ptyNext, ptyPending, ptys>>

PtyIds == 0 .. MaxSessions - 1
PtyStatuses == {"none", "running", "exited", "failed", "stopped"}
NoPty == [status |-> "none", stop |-> FALSE, writer |-> FALSE, held |-> FALSE, child |-> "none",
          lock |-> "nobody", input |-> 0, printed |-> 0, out |-> 0, query |-> FALSE,
          chunk |-> 0, asked |-> FALSE, output |-> 0]
PtyStart == {"opening", "spawned", "give_up", "launched"}
PtyCallSteps == {"idle", "write", "writing", "stop", "release", "remove"} \cup PtyStart
NoPtyCall == [step |-> "idle", id |-> 0, left |-> 0]

PtyInit ==
    /\ ptyNext = 0 /\ ptyPending = 0 /\ ptys = {}
    /\ pty = [id \in PtyIds |-> NoPty]
    /\ ptyReader = [id \in PtyIds |-> "none"]
    /\ ptyWaiter = [id \in PtyIds |-> "none"]
    /\ ptyCall = [c \in PtyClients |-> NoPtyCall]
    /\ ptyLost = {}

AtPtyStep(c, step) == ptyCall[c].step = step
PtyGoTo(c, step) == ptyCall' = [ptyCall EXCEPT ![c].step = step]
PtyReturns(c) == ptyCall' = [ptyCall EXCEPT ![c] = NoPtyCall]
PtyUnlocked(id) == pty[id].lock = "nobody"
PtyStarting == {c \in PtyClients : ptyCall[c].step \in PtyStart}

-----------------------------------------------------------------------------
(* PtyRegistry::start *)

(* Mutant: a start counts the sessions only, not the other starts.         *)
PendingIgnored == Cardinality(ptys) < MaxRetainedPtys

PtySlotAvailable == Cardinality(ptys) + ptyPending < MaxRetainedPtys

ReserveSessionSlot(c) ==
    /\ AtPtyStep(c, "idle")
    /\ ptyNext \in PtyIds
    /\ PtySlotAvailable
    /\ ptyNext' = ptyNext + 1
    /\ ptyPending' = ptyPending + 1
    /\ ptyCall' = [ptyCall EXCEPT ![c] = [step |-> "opening", id |-> ptyNext, left |-> 0]]
    /\ UNCHANGED <<ptys, pty, ptyReader, ptyWaiter, ptyLost>>

(* openpty or spawn_command fails                                          *)
OpenPtyFails(c) ==
    /\ AtPtyStep(c, "opening")
    /\ PtyGoTo(c, "give_up")
    /\ UNCHANGED <<ptyRegistry, pty, ptyReader, ptyWaiter, ptyLost>>

SpawnCommand(c) ==
    /\ AtPtyStep(c, "opening")
    /\ pty' = [pty EXCEPT ![ptyCall[c].id].child = "alive"]
    /\ PtyGoTo(c, "spawned")
    /\ UNCHANGED <<ptyRegistry, ptyReader, ptyWaiter, ptyLost>>

(* try_clone_reader or take_writer fails: the child is killed, and an      *)
(* error of kill is dropped.                                               *)
CloneReaderFails(c) ==
    LET id == ptyCall[c].id
    IN /\ AtPtyStep(c, "spawned")
       /\ \/ /\ pty' = [pty EXCEPT ![id].child = "dead"]
             /\ UNCHANGED ptyLost
          \/ /\ pty[id].child # "dead"
             /\ ptyLost' = ptyLost \cup {id}
             /\ UNCHANGED pty
       /\ PtyGoTo(c, "give_up")
       /\ UNCHANGED <<ptyRegistry, ptyReader, ptyWaiter>>

(* The session is made and its two threads are spawned.                    *)
LaunchSession(c) ==
    LET id == ptyCall[c].id
    IN /\ AtPtyStep(c, "spawned")
       /\ pty' = [pty EXCEPT ![id].status = "running", ![id].writer = TRUE, ![id].held = TRUE]
       /\ ptyReader' = [ptyReader EXCEPT ![id] = "reading"]
       /\ ptyWaiter' = [ptyWaiter EXCEPT ![id] = "polling"]
       /\ PtyGoTo(c, "launched")
       /\ UNCHANGED <<ptyRegistry, ptyLost>>

PtyReleasePendingStart(c) ==
    /\ AtPtyStep(c, "give_up")
    /\ ptyPending' = IF ptyPending = 0 THEN 0 ELSE ptyPending - 1
    /\ PtyReturns(c)
    /\ UNCHANGED <<ptyNext, ptys, pty, ptyReader, ptyWaiter, ptyLost>>

(* finish_session_start, after a snapshot under the session's mutex        *)
FinishSessionStart(c) ==
    /\ AtPtyStep(c, "launched")
    /\ PtyUnlocked(ptyCall[c].id)
    /\ ptyPending' = IF ptyPending = 0 THEN 0 ELSE ptyPending - 1
    /\ ptys' = ptys \cup {ptyCall[c].id}
    /\ PtyReturns(c)
    /\ UNCHANGED <<ptyNext, pty, ptyReader, ptyWaiter, ptyLost>>

-----------------------------------------------------------------------------
(* write, stop, release *)

(* session_arc; an unknown id answers None                                 *)
SessionArc(c, op, id) ==
    /\ AtPtyStep(c, "idle")
    /\ id \in ptys
    /\ ptyCall' = [ptyCall EXCEPT ![c] = [step |-> op, id |-> id, left |-> 0]]
    /\ UNCHANGED <<ptyRegistry, pty, ptyReader, ptyWaiter, ptyLost>>

(* A session that ended or whose writer was taken by stop answers          *)
(* PtyClosed.                                                              *)
WriteRefused(c) ==
    LET s == pty[ptyCall[c].id]
    IN /\ AtPtyStep(c, "write")
       /\ PtyUnlocked(ptyCall[c].id)
       /\ s.status # "running" \/ ~s.writer
       /\ PtyReturns(c)
       /\ UNCHANGED <<ptyRegistry, pty, ptyReader, ptyWaiter, ptyLost>>

BeginPtyWrite(c) ==
    LET id == ptyCall[c].id
    IN /\ AtPtyStep(c, "write")
       /\ PtyUnlocked(id)
       /\ pty[id].status = "running" /\ pty[id].writer
       /\ pty' = [pty EXCEPT ![id].lock = c]
       /\ \E n \in PtyInputs :
             ptyCall' = [ptyCall EXCEPT ![c].step = "writing", ![c].left = n]
       /\ UNCHANGED <<ptyRegistry, ptyReader, ptyWaiter, ptyLost>>

(* write_all: one byte at a time, as long as the terminal has room         *)
PtyWriteByte(c) ==
    LET id == ptyCall[c].id
    IN /\ AtPtyStep(c, "writing")
       /\ ptyCall[c].left > 0
       /\ pty[id].input < TtyCapacity
       /\ pty' = [pty EXCEPT ![id].input = @ + 1]
       /\ ptyCall' = [ptyCall EXCEPT ![c].left = @ - 1]
       /\ UNCHANGED <<ptyRegistry, ptyReader, ptyWaiter, ptyLost>>

(* Everything was written, or the terminal is closed because the child is  *)
(* gone and the write fails.                                               *)
PtyWriteEnds(c) ==
    LET id == ptyCall[c].id
    IN /\ AtPtyStep(c, "writing")
       /\ ptyCall[c].left = 0 \/ pty[id].child = "dead"
       /\ pty' = [pty EXCEPT ![id].lock = "nobody"]
       /\ PtyReturns(c)
       /\ UNCHANGED <<ptyRegistry, ptyReader, ptyWaiter, ptyLost>>

(* stop: the writer is dropped and the child, while the session still has  *)
(* it, is killed; an error of kill is returned and leaves the child alive. *)
StopSession(c) ==
    LET id == ptyCall[c].id
    IN /\ AtPtyStep(c, "stop")
       /\ PtyUnlocked(id)
       /\ \E killed \in IF pty[id].held THEN BOOLEAN ELSE {FALSE} :
             pty' = [pty EXCEPT ![id].stop = TRUE, ![id].writer = FALSE,
                                ![id].child = IF killed THEN "dead" ELSE @]
       /\ PtyReturns(c)
       /\ UNCHANGED <<ptyRegistry, ptyReader, ptyWaiter, ptyLost>>

(* Mutant: a session that was asked to stop can be released.               *)
StoppingIsReleasable(s) == s.status # "running" \/ s.stop

PtyReleasable(s) == s.status # "running"

(* release looks at the status under the session's mutex ...               *)
CheckPtyOver(c) ==
    /\ AtPtyStep(c, "release")
    /\ PtyUnlocked(ptyCall[c].id)
    /\ IF PtyReleasable(pty[ptyCall[c].id]) THEN PtyGoTo(c, "remove") ELSE PtyReturns(c)
    /\ UNCHANGED <<ptyRegistry, pty, ptyReader, ptyWaiter, ptyLost>>

(* ... and removes it under the registry's.                                *)
RemovePty(c) ==
    /\ AtPtyStep(c, "remove")
    /\ ptys' = ptys \ {ptyCall[c].id}
    /\ PtyReturns(c)
    /\ UNCHANGED <<ptyNext, ptyPending, pty, ptyReader, ptyWaiter, ptyLost>>

-----------------------------------------------------------------------------
(* the reader thread *)

(* read returns what is queued, without the session's mutex.               *)
PtyRead(id) ==
    /\ ptyReader[id] = "reading"
    /\ pty[id].out > 0
    /\ pty' = [pty EXCEPT ![id].chunk = pty[id].out, ![id].asked = pty[id].query,
                          ![id].out = 0, ![id].query = FALSE]
    /\ ptyReader' = [ptyReader EXCEPT ![id] = "appending"]
    /\ UNCHANGED <<ptyRegistry, ptyWaiter, ptyCall, ptyLost>>

(* append_output: what fits is kept, and a cursor query among the bytes is *)
(* answered through the writer while the mutex is held.                    *)
PtyAppends(id) ==
    LET s == pty[id]
        kept == Min({s.output + s.chunk, PtyOutputMax})
        answers == s.asked /\ s.writer
    IN /\ ptyReader[id] = "appending"
       /\ PtyUnlocked(id)
       /\ pty' = [pty EXCEPT ![id].output = kept, ![id].chunk = 0, ![id].asked = FALSE,
                             ![id].lock = IF answers THEN "reader" ELSE @]
       /\ ptyReader' = [ptyReader EXCEPT ![id] = IF answers THEN "reporting" ELSE "reading"]
       /\ UNCHANGED <<ptyRegistry, ptyWaiter, ptyCall, ptyLost>>

(* The report is written, or fails because the child is gone.              *)
ReportCursor(id) ==
    /\ ptyReader[id] = "reporting"
    /\ pty[id].input < TtyCapacity \/ pty[id].child = "dead"
    /\ pty' = [pty EXCEPT ![id].lock = "nobody",
                          ![id].input = IF @ < TtyCapacity THEN @ + 1 ELSE @]
    /\ ptyReader' = [ptyReader EXCEPT ![id] = "reading"]
    /\ UNCHANGED <<ptyRegistry, ptyWaiter, ptyCall, ptyLost>>

PtyReaderEnds(id) ==
    /\ ptyReader[id] = "reading"
    /\ pty[id].child = "dead" /\ pty[id].out = 0
    /\ ptyReader' = [ptyReader EXCEPT ![id] = "ended"]
    /\ UNCHANGED <<ptyRegistry, pty, ptyWaiter, ptyCall, ptyLost>>

-----------------------------------------------------------------------------
(* the waiter thread *)

(* Mutant: the waiter leaves a session that was asked to stop.             *)
WaiterLeavesStopped(id) ==
    /\ ptyWaiter[id] = "polling"
    /\ PtyUnlocked(id)
    /\ ptyWaiter' = [ptyWaiter EXCEPT ![id] = IF pty[id].stop THEN "ended" ELSE
                                              IF pty[id].child = "dead" THEN "exited" ELSE @]
    /\ UNCHANGED <<ptyRegistry, pty, ptyReader, ptyCall, ptyLost>>

(* try_wait under the mutex: the child's exit, or an error                 *)
PollChild(id) ==
    /\ ptyWaiter[id] = "polling"
    /\ PtyUnlocked(id)
    /\ \/ /\ pty[id].child = "dead"
          /\ ptyWaiter' = [ptyWaiter EXCEPT ![id] = "exited"]
       \/ ptyWaiter' = [ptyWaiter EXCEPT ![id] = "wait_failed"]
    /\ UNCHANGED <<ptyRegistry, pty, ptyReader, ptyCall, ptyLost>>

(* the status the exit is recorded with                                    *)
PtyExitStatus(s) == IF s.stop THEN {"stopped"} ELSE {"exited", "failed"}

RecordPtyExit(id) ==
    /\ ptyWaiter[id] = "exited"
    /\ PtyUnlocked(id)
    /\ \E status \in PtyExitStatus(pty[id]) :
          pty' = [pty EXCEPT ![id].status = status, ![id].held = FALSE, ![id].writer = FALSE]
    /\ ptyWaiter' = [ptyWaiter EXCEPT ![id] = "ended"]
    /\ UNCHANGED <<ptyRegistry, ptyReader, ptyCall, ptyLost>>

(* A failed try_wait gives the child up, dead or alive.                    *)
RecordWaitFailure(id) ==
    /\ ptyWaiter[id] = "wait_failed"
    /\ PtyUnlocked(id)
    /\ pty' = [pty EXCEPT ![id].status = "failed", ![id].held = FALSE, ![id].writer = FALSE]
    /\ ptyLost' = IF pty[id].child = "dead" THEN ptyLost ELSE ptyLost \cup {id}
    /\ ptyWaiter' = [ptyWaiter EXCEPT ![id] = "ended"]
    /\ UNCHANGED <<ptyRegistry, ptyReader, ptyCall>>

-----------------------------------------------------------------------------
(* the child *)

PtyChildReads(id) ==
    /\ pty[id].child = "alive"
    /\ pty[id].input > 0
    /\ pty' = [pty EXCEPT ![id].input = @ - 1]
    /\ UNCHANGED <<ptyRegistry, ptyReader, ptyWaiter, ptyCall, ptyLost>>

ChildPrints(id) ==
    /\ pty[id].child = "alive"
    /\ pty[id].out < TtyCapacity
    /\ pty[id].printed < PtyChildOutput
    /\ \E query \in BOOLEAN :
          pty' = [pty EXCEPT ![id].out = @ + 1, ![id].printed = @ + 1, ![id].query = @ \/ query]
    /\ UNCHANGED <<ptyRegistry, ptyReader, ptyWaiter, ptyCall, ptyLost>>

PtyChildExits(id) ==
    /\ pty[id].child = "alive"
    /\ pty' = [pty EXCEPT ![id].child = "dead"]
    /\ UNCHANGED <<ptyRegistry, ptyReader, ptyWaiter, ptyCall, ptyLost>>

-----------------------------------------------------------------------------
PtyClientCalls(c) ==
    \/ ReserveSessionSlot(c)
    \/ \E id \in PtyIds, op \in {"write", "stop", "release"} : SessionArc(c, op, id)

PtyClientProceeds(c) ==
    \/ OpenPtyFails(c) \/ SpawnCommand(c) \/ CloneReaderFails(c) \/ LaunchSession(c)
    \/ PtyReleasePendingStart(c) \/ FinishSessionStart(c)
    \/ WriteRefused(c) \/ BeginPtyWrite(c) \/ PtyWriteByte(c) \/ PtyWriteEnds(c)
    \/ StopSession(c) \/ CheckPtyOver(c) \/ RemovePty(c)

PtyReaderThread(id) == PtyRead(id) \/ PtyAppends(id) \/ ReportCursor(id) \/ PtyReaderEnds(id)
PtyWaiterThread(id) == PollChild(id) \/ RecordPtyExit(id) \/ RecordWaitFailure(id)

PtyNext ==
    \/ \E c \in PtyClients : PtyClientCalls(c) \/ PtyClientProceeds(c)
    \/ \E id \in PtyIds :
          \/ PtyReaderThread(id) \/ PtyWaiterThread(id)
          \/ PtyChildReads(id) \/ ChildPrints(id) \/ PtyChildExits(id)

PtySpec == PtyInit /\ [][PtyNext]_ptyVars

(* Threads are scheduled and a mutex starves nobody.  A live child owes    *)
(* nothing: it may never read its terminal, print or exit.                 *)
PtyFairness ==
    /\ \A c \in PtyClients : SF_ptyVars(PtyClientProceeds(c))
    /\ \A id \in PtyIds : SF_ptyVars(PtyReaderThread(id)) /\ SF_ptyVars(PtyWaiterThread(id))

(* A well-behaved child, such as cat: it stops reading only while the      *)
(* terminal does not take what it prints.                                  *)
ReadsUnlessBlocked(id) == pty[id].out < TtyCapacity /\ PtyChildReads(id)

EchoSpec == PtySpec /\ PtyFairness /\ \A id \in PtyIds : WF_ptyVars(ReadsUnlessBlocked(id))

-----------------------------------------------------------------------------
(* Every variable has its type.                                            *)
PtyTypeOK ==
    /\ ptyNext \in 0 .. MaxSessions /\ ptyPending \in Nat /\ ptys \subseteq PtyIds
    /\ pty \in [PtyIds -> [status : PtyStatuses, stop : BOOLEAN, writer : BOOLEAN, held : BOOLEAN,
                           child : {"none", "alive", "dead"},
                           lock : PtyClients \cup {"nobody", "reader"}, input : 0 .. TtyCapacity,
                           printed : 0 .. PtyChildOutput, out : 0 .. TtyCapacity,
                           query : BOOLEAN, chunk : 0 .. TtyCapacity, asked : BOOLEAN,
                           output : 0 .. PtyOutputMax]]
    /\ ptyReader \in [PtyIds -> {"none", "reading", "appending", "reporting", "ended"}]
    /\ ptyWaiter \in [PtyIds -> {"none", "polling", "exited", "wait_failed", "ended"}]
    /\ ptyCall \in [PtyClients -> [step : PtyCallSteps, id : Nat, left : Nat]]
    /\ ptyLost \subseteq PtyIds

(* No session slips away: every pending start is one a thread is in, the   *)
(* limit covers starts and retained sessions together, and a child that is *)
(* alive belongs to a running session that can be stopped through the      *)
(* registry (or is being started), unless killing or waiting for it        *)
(* failed.                                                                 *)
PtysAccounted ==
    /\ ptyPending = Cardinality(PtyStarting)
    /\ Cardinality(ptys) + ptyPending <= MaxRetainedPtys
    /\ \A id \in PtyIds \ ptyLost :
          pty[id].child = "alive" =>
              \/ id \in ptys /\ pty[id].status = "running" /\ pty[id].held
              \/ \E c \in PtyStarting : ptyCall[c].id = id

(* The registry keeps the contract of RetainedRegistry: a start that fails *)
(* or is cut off gives its reservation back once, an id is handed out once *)
(* and retained by the start that took it only, and two releases that race *)
(* for a session take it out once.                                         *)
RetainedPtys == INSTANCE RetainedRegistry
    WITH MaxRetained <- MaxRetainedPtys, MaxStarts <- MaxSessions, nextId <- ptyNext,
         reserved <- {ptyCall[c].id : c \in PtyStarting}, retained <- ptys

PtysRetained == RetainedPtys!Spec

(* No child leaves its terminal's input full for ever.                     *)
PtyInputTaken == \A id \in PtyIds : []<>(pty[id].child # "alive" \/ pty[id].input < TtyCapacity)

(* A session does not stay running for ever once its child is dead, and no *)
(* call is under way for ever.  The one exception: a write, or the         *)
(* reader's cursor report, that waits for the child holds the mutex that   *)
(* the waiter, stop and every other call need.                             *)
PtysEnd == PtyInputTaken =>
    /\ \A id \in PtyIds : []<>~(pty[id].status = "running" /\ pty[id].child = "dead")
    /\ \A c \in PtyClients : []<>AtPtyStep(c, "idle")

(* pty_stop "requests termination of a PTY session and returns the latest  *)
(* snapshot": the call returns, at least when the child reads its terminal *)
(* whenever it can print.                                                  *)
StopReturns == \A c \in PtyClients : AtPtyStep(c, "stop") ~> AtPtyStep(c, "idle")

=============================================================================
