--------------------------- MODULE MCHostLiveness ---------------------------
(***************************************************************************)
(* The registries whose calls wait for a peer, a child process or a worker *)
(* thread, with the fairness their threads have.  They share no state, so  *)
(* a behaviour runs one of them.                                           *)
(***************************************************************************)
EXTENDS ProcessRuntime, TaskRuntime, SocketRuntime, PtyRuntime

VARIABLE waitsIn   \* the registry this behaviour runs
waitVars == <<waitsIn, vars, taskVars, socketVars, ptyVars>>

In(registry) == waitsIn = registry

WaitInit ==
    /\ waitsIn \in {"processes", "tasks", "sockets", "ptys"}
    /\ Init /\ TaskInit /\ SocketInit /\ PtyInit
    /\ ~In("sockets") => protocol = "tcp"

WaitNext ==
    /\ UNCHANGED waitsIn
    /\ \/ In("processes") /\ Next /\ UNCHANGED <<taskVars, socketVars, ptyVars>>
       \/ In("tasks") /\ TaskNext /\ UNCHANGED <<vars, socketVars, ptyVars>>
       \/ In("sockets") /\ SocketNext /\ UNCHANGED <<vars, taskVars, ptyVars>>
       \/ In("ptys") /\ PtyNext /\ UNCHANGED <<vars, taskVars, socketVars>>

\* The registries' fairness.  A behaviour runs one registry, so the threads of
\* different ones share a condition.  Those that serve a session or a task (the
\* readers, the waiter, the workers) take finitely many steps each, and strong
\* fairness of all of them together is strong fairness of each.
threadVars == <<vars, taskVars, socketVars, ptyVars>>
Calling(c) ==
    \/ In("processes") /\ ClientProgress(c) /\ UNCHANGED <<taskVars, socketVars, ptyVars>>
    \/ In("sockets") /\ SocketProceed(c) /\ UNCHANGED <<vars, taskVars, ptyVars>>
    \/ In("ptys") /\ PtyClientProceeds(c) /\ UNCHANGED <<vars, taskVars, socketVars>>
Serving ==
    \/ /\ In("processes") /\ UNCHANGED <<taskVars, socketVars, ptyVars>>
       /\ \E id \in Ids : WaiterProgress(id) \/ \E s \in Streams : AppendOutput(id, s)
    \/ /\ In("ptys") /\ UNCHANGED <<vars, taskVars, socketVars>>
       /\ \E id \in PtyIds : PtyReaderThread(id) \/ PtyWaiterThread(id)
    \/ /\ In("tasks") /\ UNCHANGED <<vars, socketVars, ptyVars>>
       /\ \E t \in Tasks : Complete(t, Plain) \/ Panic(t)

WaitFairness ==
    /\ \A c \in Clients : SF_threadVars(Calling(c))
    /\ SF_threadVars(Serving)
    /\ \A id \in Ids :
          /\ WF_vars(os[id] = "dying" /\ ChildExits(id))
          /\ \A s \in Streams : WF_vars(ReadChunk(id, s) \/ ReaderEof(id, s))
    /\ \A v \in VMs : WF_taskVars(FinishAwait(v))

WaitSpec == WaitInit /\ [][WaitNext]_waitVars /\ WaitFairness

=============================================================================
