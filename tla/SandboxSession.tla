--------------------------- MODULE SandboxSession ---------------------------
(***************************************************************************)
(* One sandbox session of the mock backend (ricochet_sandbox/src/mock.rs): *)
(* the broker starts processes and PTYs, stops them, revokes tools and     *)
(* closes the session, and every change leaves a record in the audit trail *)
(* that the host drains.  A session is owned by one caller (&mut self), so *)
(* an operation is one step; what is hard here is the sequence of calls:   *)
(* a tool is revoked through its helpers before or after a launch, a       *)
(* counter runs out in the middle of a plan, a session closes twice.       *)
(* Reads, resizes, input that does not close stdin and draining the events *)
(* change nothing the other operations see and have no action; a request   *)
(* the code refuses (closed session, unknown id, injected failure,         *)
(* exhausted counter) changes nothing and is an action that is not         *)
(* enabled.                                                                *)
(***************************************************************************)
EXTENDS Integers, Sequences, FiniteSets

CONSTANTS
    SandboxTools,   \* the tools of the prepared catalog
    ToolHelpers,    \* helper_ids of every tool
    FailurePlans,   \* the sets of failures a configuration may inject
    HostCommand,    \* ExecutableRef::HostCommand: an execution with no tool
    MaxTimestamp,   \* u64::MAX of next_timestamp
    MaxNumericId,   \* u64::MAX of the three id counters
    MaxNativePtyId  \* the last pty id whose native process id, id + 10,000, fits a u32

ASSUME SandboxAssumption ==
    /\ ToolHelpers \in [SandboxTools -> SUBSET SandboxTools]
    /\ FailurePlans \subseteq SUBSET {"launch", "write", "cancel", "close", "revocation"}
    /\ HostCommand \notin SandboxTools
    /\ MaxTimestamp \in Nat \ {0} /\ MaxNumericId \in Nat /\ MaxNativePtyId \in Nat

Surfaces == {"process", "pty"}
Executables == SandboxTools \cup {HostCommand}
SessionStates == {"preparing", "ready", "running", "stopping", "closed", "failed"}

VARIABLES
    injected,        \* MockBackendConfig.failures, fixed when the session is prepared
    lifecycle,       \* SessionLifecycle.state
    next_timestamp,
    next_id,         \* next_process_id, next_pty_id and next_process_tree_id
    executions,      \* the maps processes and ptys: set of execution records
    revoked_tools,
    auditTrail       \* every event ever pushed, in order: what drain_events hands out, call after call

sandboxVars == <<injected, lifecycle, next_timestamp, next_id, executions,
                 revoked_tools, auditTrail>>

-----------------------------------------------------------------------------
(* Records.  An execution keeps the tool it was launched from; the command, *)
(* its arguments and its buffers are left out.                              *)

Execution(surface, id, tree, tool, stdin) ==
    [surface |-> surface, id |-> id, tree |-> tree, tool |-> tool,
     running |-> TRUE, stdin_open |-> stdin]

NoTree == -1

\* BrokerEvent::Audit: its timestamp, its kind and the process tree it is about.
Audit(at, kind, tree) == [event |-> "audit", at |-> at, kind |-> kind, trees |-> {tree}]

\* BrokerEvent::Terminated carries the trees that were stopped and no timestamp.
Terminated(trees) == [event |-> "terminated", at |-> NoTree, kind |-> "notice", trees |-> trees]

\* BrokerEvent::SessionState.
StateEvent(state) == [event |-> "state", at |-> NoTree, kind |-> state, trees |-> {}]

TransitionAudit(at, to) == Audit(at, to, NoTree)

\* MockTimestampBatch::new and reserve_numeric_id: a counter that would overflow
\* refuses the whole operation before anything is changed.
TimestampsLeft(count) == next_timestamp + count <= MaxTimestamp

IdsLeft(surface) == next_id[surface] < MaxNumericId /\ next_id.tree < MaxNumericId

\* handle_pty_start makes up a native process id from the pty id; one that does
\* not fit a u32 refuses the launch like an exhausted counter.
NativeIdFits(surface) == surface = "pty" => next_id.pty <= MaxNativePtyId

TransitionAllowed(from, to) ==
    <<from, to>> \in
        ({"preparing"} \X {"ready", "failed"}) \cup ({"ready"} \X {"running", "stopping", "failed"})
        \cup ({"running"} \X {"stopping", "failed"}) \cup ({"stopping"} \X {"closed", "failed"})

-----------------------------------------------------------------------------
(* Tools and helpers *)

\* Mutant: the helpers of helpers are forgotten.
DirectHelpersOnly(root, expected) == expected = root \/ expected \in ToolHelpers[root]

\* tool_closure_contains walks the helper graph from root with a visited set:
\* expected is reached iff it is in every set that holds root and is closed
\* under helpers.
ToolClosureContains(root, expected) ==
    \A S \in SUBSET SandboxTools :
        (root \in S /\ \A t \in S : ToolHelpers[t] \subseteq S) => expected \in S

DependsOn(tool, expected) == tool # HostCommand /\ ToolClosureContains(tool, expected)

\* reject_revoked_executable
NotRevoked(executable) == \A t \in revoked_tools : ~DependsOn(executable, t)

-----------------------------------------------------------------------------
(* Terminations *)

\* active_executions, optionally only those that depend on a tool: sorted by tree id.
InTreeOrder(execs) ==
    CHOOSE s \in [1 .. Cardinality(execs) -> execs] :
        \A i, j \in DOMAIN s : i < j => s[i].tree < s[j].tree
ActiveExecutions == {x \in executions : x.running}

\* apply_execution_termination on every member of execs.
ApplyTermination(execs) ==
    {IF x \in execs THEN [x EXCEPT !.running = FALSE, !.stdin_open = FALSE] ELSE x :
        x \in executions}

TerminationReasons == {"CancelledByHost", "TimedOut", "ToolRevoked", "BrokerShutdown",
                       "PolicyEnforcement", "ResourceLimit", "SessionClosed"}

\* termination_audit_kind: a timeout and a resource limit have records of their
\* own, every other reason is a cancellation.  (Which limit it was, and which
\* of the other reasons, stays in the record and is left out.)
TerminationAuditKind(reason) ==
    CASE reason = "TimedOut" -> "timed_out"
      [] reason = "ResourceLimit" -> "resource_limit"
      [] OTHER -> "cancelled"

\* One audit record per stopped execution, in tree order, from timestamp first.
TerminationAudits(execs, first, kind) ==
    LET sorted == InTreeOrder(execs)
    IN  [i \in 1..Len(sorted) |-> Audit(first + i - 1, kind, sorted[i].tree)]

TreesOf(execs) == {x.tree : x \in execs}

\* terminate_session: the whole plan is built first, then committed.
TerminateSession(reason) ==
    LET active == ActiveExecutions
        count  == Cardinality(active)
    IN  /\ lifecycle # "closed"
        /\ TransitionAllowed(lifecycle, "stopping")
        /\ TimestampsLeft(count + 2)
        /\ lifecycle' = "closed"
        /\ next_timestamp' = next_timestamp + count + 2
        /\ executions' = ApplyTermination(active)
        /\ auditTrail' = auditTrail
            \o <<TransitionAudit(next_timestamp, "stopping"), StateEvent("stopping")>>
            \o TerminationAudits(active, next_timestamp + 1, TerminationAuditKind(reason))
            \o <<Terminated(TreesOf(active)),
                 TransitionAudit(next_timestamp + count + 1, "closed"), StateEvent("closed")>>
        /\ UNCHANGED <<injected, next_id, revoked_tools>>

-----------------------------------------------------------------------------
(* The session's operations *)

\* prepare: a session that could be prepared is Ready and has its first record.
SandboxInit ==
    /\ injected \in FailurePlans
    /\ lifecycle = "ready"
    /\ next_timestamp = 1
    /\ next_id = [process |-> 0, pty |-> 0, tree |-> 0]
    /\ executions = {} /\ revoked_tools = {}
    /\ auditTrail = <<TransitionAudit(0, "ready"), StateEvent("ready")>>

\* handle: ProcessStart and PtyStart.  The launch takes a timestamp for the
\* request, one for started_at and one for the tree; the first launch takes a
\* fourth for the transition to Running, which pushes no SessionState event.
LaunchExecution(surface, executable, stdin) ==
    LET first == lifecycle = "ready"
        count == IF first THEN 4 ELSE 3
        tree  == next_id.tree
    IN  /\ lifecycle # "closed"
        /\ NotRevoked(executable)
        /\ "launch" \notin injected
        /\ TimestampsLeft(count) /\ IdsLeft(surface) /\ NativeIdFits(surface)
        /\ first => TransitionAllowed(lifecycle, "running")
        /\ lifecycle' = "running"
        /\ next_timestamp' = next_timestamp + count
        /\ next_id' = [next_id EXCEPT ![surface] = @ + 1, !.tree = @ + 1]
        /\ executions' = executions \cup
               {Execution(surface, next_id[surface], tree, executable, stdin)}
        /\ auditTrail' = auditTrail
            \o <<Audit(next_timestamp, "launch", NoTree),
                 Audit(next_timestamp + 2, "started", tree)>>
            \o (IF first THEN <<TransitionAudit(next_timestamp + 3, "running")>> ELSE <<>>)
        /\ UNCHANGED <<injected, revoked_tools>>

\* Mutant: stdin may be closed twice.
CloseStdinIgnoresState(x) == x.surface = "process"

\* process_write with close_stdin: the scripted process exits.
ProcessExits(x) == x.surface = "process" /\ x.running /\ x.stdin_open

ProcessWriteClose(x) ==
    /\ lifecycle # "closed" /\ "write" \notin injected
    /\ ProcessExits(x)
    /\ TimestampsLeft(1)
    /\ executions' = ApplyTermination({x})
    /\ next_timestamp' = next_timestamp + 1
    /\ auditTrail' = Append(auditTrail, Audit(next_timestamp, "exited", x.tree))
    /\ UNCHANGED <<injected, lifecycle, next_id, revoked_tools>>

\* process_cancel and pty_stop: an execution that already ended is left alone.
CancelExecution(x) ==
    /\ lifecycle # "closed" /\ "cancel" \notin injected
    /\ x.running
    /\ TimestampsLeft(1)
    /\ executions' = ApplyTermination({x})
    /\ next_timestamp' = next_timestamp + 1
    /\ auditTrail' = auditTrail
        \o <<Audit(next_timestamp, "cancelled", x.tree), Terminated({x.tree})>>
    /\ UNCHANGED <<injected, lifecycle, next_id, revoked_tools>>

\* handle: ProcessRelease and PtyRelease
ReleaseExecution(x) ==
    /\ lifecycle # "closed"
    /\ ~x.running
    /\ executions' = executions \ {x}
    /\ UNCHANGED <<injected, lifecycle, next_timestamp, next_id, revoked_tools, auditTrail>>

\* handle: Close
CloseSandbox == "close" \notin injected /\ TerminateSession("SessionClosed")

\* handle: Cancel
CancelSession == "cancel" \notin injected /\ TerminateSession("CancelledByHost")

\* terminate: the reasons that have an operation of their own are refused.
Terminate(reason) ==
    /\ reason \notin {"CancelledByHost", "ToolRevoked"}
    /\ "cancel" \notin injected
    /\ TerminateSession(reason)

\* revoke_tool: the executions it stops are those running now; the tool stays
\* revoked for the rest of the session.  It has no check of the state.
RevokeTool(tool) ==
    LET affected == {x \in ActiveExecutions : DependsOn(x.tool, tool)}
        count    == Cardinality(affected)
    IN  /\ "revocation" \notin injected
        /\ TimestampsLeft(count + 1)
        /\ revoked_tools' = revoked_tools \cup {tool}
        /\ executions' = ApplyTermination(affected)
        /\ next_timestamp' = next_timestamp + count + 1
        /\ auditTrail' = auditTrail
            \o <<Audit(next_timestamp, "revoked", NoTree)>>
            \o TerminationAudits(affected, next_timestamp + 1, TerminationAuditKind("ToolRevoked"))
            \o (IF affected = {} THEN <<>> ELSE <<Terminated(TreesOf(affected))>>)
        /\ UNCHANGED <<injected, lifecycle, next_id>>

SandboxNext ==
    \/ \E surface \in Surfaces, e \in Executables, stdin \in BOOLEAN :
          (surface = "pty" => ~stdin) /\ LaunchExecution(surface, e, stdin)
    \/ \E x \in executions : ProcessWriteClose(x) \/ CancelExecution(x) \/ ReleaseExecution(x)
    \/ CloseSandbox \/ CancelSession \/ \E reason \in TerminationReasons : Terminate(reason)
    \/ \E t \in SandboxTools : RevokeTool(t)

SandboxSpec == SandboxInit /\ [][SandboxNext]_sandboxVars

-----------------------------------------------------------------------------
(* Properties *)

SandboxTypeOK ==
    /\ injected \in FailurePlans
    /\ lifecycle \in SessionStates
    /\ next_timestamp \in 0..MaxTimestamp
    /\ next_id \in [{"process", "pty", "tree"} -> 0..MaxNumericId]
    /\ \A x \in executions :
          x \in [surface : Surfaces, id : Nat, tree : Nat, tool : Executables,
                 running : BOOLEAN, stdin_open : BOOLEAN]
    /\ revoked_tools \subseteq SandboxTools

\* Revocation is complete whatever the order of launches and revocations: no
\* running execution uses a revoked tool, directly or through any chain of
\* helpers (revoke_tool stops those running, reject_revoked_executable refuses
\* the later ones).  The closure is stated here as reachability along a path of
\* helpers, not by the operator the code's check is translated to.
HelperPaths == UNION {[1..n -> SandboxTools] : n \in 1..Cardinality(SandboxTools)}
Reaches(root, t) ==
    \E p \in HelperPaths :
        /\ p[1] = root /\ p[Len(p)] = t
        /\ \A i \in 1..Len(p) - 1 : p[i + 1] \in ToolHelpers[p[i]]
RevokedToolsIdle ==
    \A x \in executions : x.running /\ x.tool # HostCommand =>
        \A t \in revoked_tools : ~Reaches(x.tool, t)

\* The audit trail accounts for every process tree: its records have strictly
\* increasing timestamps below next_timestamp, every tree the session numbered
\* has one start record, it has one end record after it unless it is still
\* running, a termination notice names only trees whose end was just recorded,
\* and a closed session has no tree left running.
EndKinds == {"exited", "cancelled", "timed_out", "resource_limit"}
RecordsOf(kinds, tree) ==
    {i \in DOMAIN auditTrail : auditTrail[i].kind \in kinds /\ auditTrail[i].trees = {tree}}
TreesEndOnce ==
    LET audits == {i \in DOMAIN auditTrail : auditTrail[i].event = "audit"}
        alive  == TreesOf(ActiveExecutions)
    IN  /\ \A i, j \in audits : i < j => auditTrail[i].at < auditTrail[j].at
        /\ \A i \in audits : auditTrail[i].at < next_timestamp
        /\ \A tree \in 0..next_id.tree - 1 :
              /\ Cardinality(RecordsOf({"started"}, tree)) = 1
              /\ Cardinality(RecordsOf(EndKinds, tree)) = IF tree \in alive THEN 0 ELSE 1
              /\ \A i \in RecordsOf({"started"}, tree), j \in RecordsOf(EndKinds, tree) : i < j
        /\ \A n \in DOMAIN auditTrail : auditTrail[n].event = "terminated" =>
              \A tree \in auditTrail[n].trees : \E i \in RecordsOf(EndKinds, tree) : i < n
        /\ lifecycle = "closed" => alive = {}

\* A session keeps its grip on what it runs: revoked tools stop, in every chain
\* of helpers, and every tree it started is accounted for in the audit trail.
ExecutionsControlled == RevokedToolsIdle /\ TreesEndOnce

=============================================================================
