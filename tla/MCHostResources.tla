-------------------------- MODULE MCHostResources --------------------------
(***************************************************************************)
(* The parts of the host that a program reaches through handles: tasks,    *)
(* sockets, HTTP and upload streams, PTYs, approvals, workspace writes,    *)
(* the GUI's secret prompts, sandbox sessions and database sessions, the   *)
(* migrations of its database, and the debugger.  They share no state, so  *)
(* a behaviour runs one of them and the variables of the others keep their *)
(* initial values.                                                         *)
(***************************************************************************)
EXTENDS SocketRuntime, StreamRuntime, PtyRuntime, ApprovalRuntime, WorkspaceWrites,
        GuiSecretHost, SandboxSession, TaskRuntime, DatabaseSession, Migrations, DebugSession, TLC

VARIABLE resource   \* the part this behaviour runs
hostVars == <<resource, socketVars, streamVars, ptyVars, approvalVars, workspaceVars, guiVars,
              sandboxVars, taskVars, dbVars, migrationVars, debugVars>>

\* The clients of all parts are the same two, and texts, tokens and lines of code two others.
HostSymmetry == Permutations(WriteClients) \cup Permutations(Texts)

\* A catalog whose tools need each other in a chain.
ToolChain == [t \in SandboxTools |->
    CASE t = "compiler" -> {"linker"} [] t = "linker" -> {"archiver"} [] OTHER -> {}]

HostInit ==
    /\ resource \in {"sockets", "streams", "ptys", "approvals", "workspace", "gui", "sandbox",
                     "tasks", "database", "migrations", "debugger"}
    /\ SocketInit /\ StreamInit /\ PtyInit /\ ApprovalInit /\ WorkspaceInit /\ GuiInit /\ SandboxInit
    /\ TaskInit /\ DatabaseInit /\ MigrationInit /\ DebugInit
    /\ resource # "sockets" => protocol = "tcp"
    /\ resource # "streams" => streamKind = "http"
    /\ resource # "sandbox" => injected = {}
    /\ resource # "database" => adapter = "sqlite" /\ ~engineAborts
    /\ resource # "migrations" => target = "sqlite"
    /\ resource # "debugger" => stepMode /\ breakpoints = {}

\* The part that runs takes a step, and the other parts none.
Runs(part) == resource = part
Still(part, partVars) == IF Runs(part) THEN TRUE ELSE UNCHANGED partVars

HostNext ==
    /\ UNCHANGED resource
    /\ \/ Runs("sockets") /\ SocketNext
       \/ Runs("streams") /\ StreamNext
       \/ Runs("ptys") /\ PtyNext
       \/ Runs("approvals") /\ ApprovalNextStep
       \/ Runs("workspace") /\ WorkspaceNext
       \/ Runs("gui") /\ GuiNext
       \/ Runs("sandbox") /\ SandboxNext
       \/ Runs("tasks") /\ TaskNext
       \/ Runs("database") /\ DatabaseNext
       \/ Runs("migrations") /\ MigrationNext
       \/ Runs("debugger") /\ DebugNext
    /\ Still("sockets", socketVars) /\ Still("streams", streamVars) /\ Still("ptys", ptyVars)
    /\ Still("approvals", approvalVars) /\ Still("workspace", workspaceVars)
    /\ Still("gui", guiVars) /\ Still("sandbox", sandboxVars) /\ Still("tasks", taskVars)
    /\ Still("database", dbVars) /\ Still("migrations", migrationVars) /\ Still("debugger", debugVars)

HostSpec == HostInit /\ [][HostNext]_hostVars

\* Every variable of the part that runs has its type.
HostTypeOK ==
    /\ Runs("sockets") => SocketTypeOK
    /\ Runs("streams") => StreamTypeOK
    /\ Runs("ptys") => PtyTypeOK
    /\ Runs("approvals") => ApprovalTypeOK
    /\ Runs("workspace") => WorkspaceTypeOK
    /\ Runs("gui") => GuiTypeOK
    /\ Runs("sandbox") => SandboxTypeOK
    /\ Runs("tasks") => TaskTypeOK
    /\ Runs("database") => DatabaseTypeOK
    /\ Runs("migrations") => MigrationTypeOK
    /\ Runs("debugger") => DebugTypeOK

(* Connections and listeners, and the sessions of terminals, keep the      *)
(* contract of RetainedRegistry.                                           *)
RegistriesRetained == SocketsRetained /\ PtysRetained

=============================================================================
