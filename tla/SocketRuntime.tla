---------------------------- MODULE SocketRuntime ----------------------------
(***************************************************************************)
(* Retained TCP and WebSocket connections and listeners                    *)
(* (crates/ricochet_vm/src/socket_runtime.rs).                             *)
(*                                                                         *)
(* Each protocol has two registries, one of connections and one of         *)
(* listeners, shared by the VM threads of a host.  The protocols share no  *)
(* state, so a behaviour is about one of them, chosen at the start.  The   *)
(* two registries meet in accept, which takes a connection from a listener *)
(* and retains it in the connection registry.                              *)
(*                                                                         *)
(* A connection's mutex is held while a read or a write blocks, at most    *)
(* for its timeout; listing the connections takes those mutexes one by one *)
(* while it holds the registry's.  A listener's mutex is never held across *)
(* a blocking call: accept clones the listening socket and waits on the    *)
(* clone.  What the network does is external.                              *)
(***************************************************************************)
EXTENDS Integers, FiniteSets, FiniteSetsExt

CONSTANTS
    SocketClients,       \* VM threads that call the socket words
    SocketProtocols,     \* the protocols to consider: "tcp", "websocket"
    MaxConnections,      \* bound: ids the connection registry hands out
    MaxListeners,        \* bound: ids the listener registry hands out
    MaxRetainedSockets   \* max_retained of both registries

NoSocketHolder == "nobody"

ASSUME SocketAssumption ==
    /\ IsFiniteSet(SocketClients)
    /\ SocketProtocols \subseteq {"tcp", "websocket"}
    /\ MaxConnections \in Nat /\ MaxListeners \in Nat /\ MaxRetainedSockets \in Nat
    /\ NoSocketHolder \notin SocketClients

VARIABLES
    protocol,                       \* the protocol of this behaviour
    sockNext, sockPending, sockets, \* both registries: next_id, pending_starts, map
    sockStatus,                     \* SocketStatus of each resource
    sockLock, sockRegLock,          \* holder of a connection's, of the connection registry's mutex
    sockCall,                       \* each client: its step, the resource it works on, the
                                    \* listener it accepts from, the connections left to list
    accepted,                       \* accepted_connections of each listener
    origin,                         \* history: the listener a connection came from
    leaked                          \* history: ids whose start ended and kept its slot

sockRegistryVars == <<sockNext, sockPending, sockets, sockRegLock>>
sockHistory == <<origin, leaked>>
socketVars == <<protocol, sockRegistryVars, sockStatus, sockLock, sockCall, accepted, sockHistory>>

Registries == {"connections", "listeners"}
ConnectionIds == 0 .. MaxConnections - 1
ListenerIds == 0 .. MaxListeners - 1
IdsOf(r) == IF r = "connections" THEN ConnectionIds ELSE ListenerIds
NoListener == -1
NoCall == [step |-> "idle", id |-> 0, from |-> NoListener, todo |-> {}]
OpenStatus(r) == IF r = "connections" THEN "connected" ELSE "listening"

(* Steps of a start: between reserving a slot and giving it back.          *)
ConnectionStart == {"connect", "connected", "give_up", "accepted"}
ListenerStart == {"bind", "bound", "bind_failed"}
AcceptSteps == {"accept", "waiting", "handshake", "retain", "accepted", "count"}
SocketSteps == {"idle", "io", "blocking", "close", "release", "remove", "list",
                "close_listener", "release_listener", "remove_listener"}
               \cup ConnectionStart \cup ListenerStart \cup AcceptSteps

StartStep(r) == IF r = "connections" THEN ConnectionStart ELSE ListenerStart
StartingSocket(r) == {c \in SocketClients : sockCall[c].step \in StartStep(r)}

SocketInit ==
    /\ protocol \in SocketProtocols
    /\ sockNext = [r \in Registries |-> 0]
    /\ sockPending = [r \in Registries |-> 0]
    /\ sockets = [r \in Registries |-> {}]
    /\ sockStatus = [r \in Registries |-> [id \in IdsOf(r) |-> "none"]]
    /\ sockLock = [id \in ConnectionIds |-> NoSocketHolder]
    /\ sockRegLock = NoSocketHolder
    /\ sockCall = [c \in SocketClients |-> NoCall]
    /\ accepted = [l \in ListenerIds |-> 0]
    /\ origin = [id \in ConnectionIds |-> NoListener]
    /\ leaked = {}

SocketGoTo(c, step) == sockCall' = [sockCall EXCEPT ![c].step = step]
SocketCalls(c, step, id) ==
    sockCall' = [sockCall EXCEPT ![c] = [NoCall EXCEPT !.step = step, !.id = id]]
SocketReturns(c) == sockCall' = [sockCall EXCEPT ![c] = NoCall]
AtSocketStep(c, step) == sockCall[c].step = step
ConnectionUnlocked(id) == sockLock[id] = NoSocketHolder
(* listing listeners never blocks, so only the connection registry is held *)
SocketRegistryFree(r) == r = "connections" => sockRegLock = NoSocketHolder
SetStatus(r, id, s) == sockStatus' = [sockStatus EXCEPT ![r][id] = s]

-----------------------------------------------------------------------------
(* the registries: reserve, give up, finish                                *)

SocketSlotAvailable(r) == Cardinality(sockets[r]) + sockPending[r] < MaxRetainedSockets

(* Mutant: connections and listeners count from one counter.               *)
OneCounter(r) ==
    /\ SocketRegistryFree(r)
    /\ SocketSlotAvailable(r)
    /\ sockNext[r] \in IdsOf(r)
    /\ sockNext' = [q \in Registries |-> sockNext[q] + 1]
    /\ sockPending' = [sockPending EXCEPT ![r] = @ + 1]

(* reserve_connection_slot and reserve_listener_slot                       *)
ReserveSlot(r) ==
    /\ SocketRegistryFree(r)
    /\ SocketSlotAvailable(r)
    /\ sockNext[r] \in IdsOf(r)
    /\ sockNext' = [sockNext EXCEPT ![r] = @ + 1]
    /\ sockPending' = [sockPending EXCEPT ![r] = @ + 1]

(* Mutant: a start that failed keeps its slot.                             *)
FailedStartKeepsSlot(r) == sockPending' = sockPending

(* release_pending_start: a saturating decrement                           *)
ReleasePendingSocket(r) ==
    sockPending' = [sockPending EXCEPT ![r] = IF @ = 0 THEN 0 ELSE @ - 1]

GiveUpStart(c, r) ==
    /\ SocketRegistryFree(r)
    /\ ReleasePendingSocket(r)
    /\ SocketReturns(c)
    /\ UNCHANGED <<protocol, sockNext, sockets, sockRegLock, sockStatus, sockLock, accepted, sockHistory>>

(* finish_connection_start and finish_listener_start                       *)
FinishStart(c, r) ==
    /\ SocketRegistryFree(r)
    /\ ReleasePendingSocket(r)
    /\ sockets' = [sockets EXCEPT ![r] = @ \cup {sockCall[c].id}]
    /\ UNCHANGED <<protocol, sockNext, sockRegLock, sockStatus, sockLock, accepted, sockHistory>>

-----------------------------------------------------------------------------
(* connect                                                                 *)

BeginConnect(c) ==
    /\ AtSocketStep(c, "idle")
    /\ ReserveSlot("connections")
    /\ SocketCalls(c, "connect", sockNext["connections"])
    /\ UNCHANGED <<protocol, sockets, sockRegLock, sockStatus, sockLock, accepted, sockHistory>>

(* The address is refused or unresolved, no address answers, the options   *)
(* cannot be set, or the WebSocket handshake fails.                        *)
ConnectFails(c) ==
    /\ AtSocketStep(c, "connect")
    /\ SocketGoTo(c, "give_up")
    /\ UNCHANGED <<protocol, sockRegistryVars, sockStatus, sockLock, accepted, sockHistory>>

(* TcpSocketRegistry::connect: connected, nodelay set.                     *)
TcpConnect(c) ==
    /\ protocol = "tcp"
    /\ AtSocketStep(c, "connect")
    /\ SetStatus("connections", sockCall[c].id, "connected")
    /\ SocketGoTo(c, "connected")
    /\ UNCHANGED <<protocol, sockRegistryVars, sockLock, accepted, sockHistory>>

(* WebSocketRegistry::connect: after the handshake the timeouts are set    *)
(* again; if that fails the error is returned as it is, and the slot that  *)
(* was reserved is not given back.                                         *)
WebSocketConnect(c) ==
    /\ protocol = "websocket"
    /\ AtSocketStep(c, "connect")
    /\ \/ /\ SetStatus("connections", sockCall[c].id, "connected")
          /\ SocketGoTo(c, "connected")
          /\ UNCHANGED leaked
       \/ /\ SocketReturns(c)
          /\ leaked' = leaked \cup {sockCall[c].id}
          /\ UNCHANGED sockStatus
    /\ UNCHANGED <<protocol, sockRegistryVars, sockLock, accepted, origin>>

ConnectGivesUp(c) == AtSocketStep(c, "give_up") /\ GiveUpStart(c, "connections")

FinishConnect(c) == AtSocketStep(c, "connected") /\ FinishStart(c, "connections") /\ SocketReturns(c)

-----------------------------------------------------------------------------
(* listen                                                                  *)

BeginListen(c) ==
    /\ AtSocketStep(c, "idle")
    /\ ReserveSlot("listeners")
    /\ SocketCalls(c, "bind", sockNext["listeners"])
    /\ UNCHANGED <<protocol, sockets, sockRegLock, sockStatus, sockLock, accepted, sockHistory>>

(* No admitted address could be bound, or the socket stays blocking.       *)
ListenFails(c) ==
    /\ AtSocketStep(c, "bind")
    /\ SocketGoTo(c, "bind_failed")
    /\ UNCHANGED <<protocol, sockRegistryVars, sockStatus, sockLock, accepted, sockHistory>>

Listen(c) ==
    /\ AtSocketStep(c, "bind")
    /\ SetStatus("listeners", sockCall[c].id, "listening")
    /\ SocketGoTo(c, "bound")
    /\ UNCHANGED <<protocol, sockRegistryVars, sockLock, accepted, sockHistory>>

ListenGivesUp(c) == AtSocketStep(c, "bind_failed") /\ GiveUpStart(c, "listeners")

FinishListen(c) == AtSocketStep(c, "bound") /\ FinishStart(c, "listeners") /\ SocketReturns(c)

-----------------------------------------------------------------------------
(* accept *)

(* listener_arc, then the listener's mutex: a closed listener or a failed  *)
(* clone answers an error, the latter failing the listener for good.       *)
ListenerArc(c, l) ==
    /\ AtSocketStep(c, "idle")
    /\ l \in sockets["listeners"]
    /\ sockCall' = [sockCall EXCEPT ![c].step = "accept", ![c].from = l]
    /\ UNCHANGED <<protocol, sockRegistryVars, sockStatus, sockLock, accepted, sockHistory>>

AcceptRefused(c) ==
    /\ AtSocketStep(c, "accept")
    /\ \/ /\ sockStatus["listeners"][sockCall[c].from] # "listening"
          /\ UNCHANGED sockStatus
       \/ /\ sockStatus["listeners"][sockCall[c].from] = "listening"
          /\ SetStatus("listeners", sockCall[c].from, "failed")
    /\ SocketReturns(c)
    /\ UNCHANGED <<protocol, sockRegistryVars, sockLock, accepted, sockHistory>>

CloneListener(c) ==
    /\ AtSocketStep(c, "accept")
    /\ sockStatus["listeners"][sockCall[c].from] = "listening"
    /\ SocketGoTo(c, "waiting")
    /\ UNCHANGED <<protocol, sockRegistryVars, sockStatus, sockLock, accepted, sockHistory>>

(* accept_tcp_stream polls the clone, so a peer is accepted even after the *)
(* listener was closed; it gives up at the timeout or on an error.         *)
AcceptStream(c) ==
    /\ AtSocketStep(c, "waiting")
    /\ SocketGoTo(c, "handshake")
    /\ UNCHANGED <<protocol, sockRegistryVars, sockStatus, sockLock, accepted, sockHistory>>

AcceptTimesOut(c) ==
    /\ AtSocketStep(c, "waiting")
    /\ SocketReturns(c)
    /\ UNCHANGED <<protocol, sockRegistryVars, sockStatus, sockLock, accepted, sockHistory>>

(* The options cannot be set or, for a WebSocket, the handshake fails or   *)
(* its origin is refused: the peer is dropped.                             *)
AcceptFails(c) ==
    /\ AtSocketStep(c, "handshake")
    /\ SocketReturns(c)
    /\ UNCHANGED <<protocol, sockRegistryVars, sockStatus, sockLock, accepted, sockHistory>>

AcceptShakesHands(c) ==
    /\ AtSocketStep(c, "handshake")
    /\ SocketGoTo(c, "retain")
    /\ UNCHANGED <<protocol, sockRegistryVars, sockStatus, sockLock, accepted, sockHistory>>

(* retain_accepted: a full connection registry drops the peer (so does the *)
(* bound on ids) ...                                                       *)
AcceptFull(c) ==
    /\ AtSocketStep(c, "retain")
    /\ SocketRegistryFree("connections")
    /\ ~SocketSlotAvailable("connections") \/ sockNext["connections"] \notin ConnectionIds
    /\ SocketReturns(c)
    /\ UNCHANGED <<protocol, sockRegistryVars, sockStatus, sockLock, accepted, sockHistory>>

(* ... otherwise the connection takes a slot, and is inserted in a second  *)
(* critical section.                                                       *)
RetainAccepted(c) ==
    /\ AtSocketStep(c, "retain")
    /\ ReserveSlot("connections")
    /\ SetStatus("connections", sockNext["connections"], "connected")
    /\ origin' = [origin EXCEPT ![sockNext["connections"]] = sockCall[c].from]
    /\ sockCall' = [sockCall EXCEPT ![c].step = "accepted", ![c].id = sockNext["connections"]]
    /\ UNCHANGED <<protocol, sockets, sockRegLock, sockLock, accepted, leaked>>

FinishAccept(c) == AtSocketStep(c, "accepted") /\ FinishStart(c, "connections") /\ SocketGoTo(c, "count")

(* accepted_connections counts the connection in the listener.             *)
CountAccepted(c) ==
    /\ AtSocketStep(c, "count")
    /\ accepted' = [accepted EXCEPT ![sockCall[c].from] = @ + 1]
    /\ SocketReturns(c)
    /\ UNCHANGED <<protocol, sockRegistryVars, sockStatus, sockLock, sockHistory>>

-----------------------------------------------------------------------------
(* read, write, close, release, list                                       *)

(* connection_arc; an unknown id answers None.  connection only takes a    *)
(* snapshot and is left out.                                               *)
ConnectionArc(c, op, id) ==
    /\ AtSocketStep(c, "idle")
    /\ SocketRegistryFree("connections")
    /\ id \in sockets["connections"]
    /\ SocketCalls(c, op, id)
    /\ UNCHANGED <<protocol, sockRegistryVars, sockStatus, sockLock, accepted, sockHistory>>

(* A connection has its stream exactly while it is connected.              *)
BeginTransfer(c) ==
    /\ AtSocketStep(c, "io")
    /\ ConnectionUnlocked(sockCall[c].id)
    /\ \/ /\ sockStatus["connections"][sockCall[c].id] # "connected"
          /\ SocketReturns(c)
          /\ UNCHANGED sockLock
       \/ /\ sockStatus["connections"][sockCall[c].id] = "connected"
          /\ sockLock' = [sockLock EXCEPT ![sockCall[c].id] = c]
          /\ SocketGoTo(c, "blocking")
    /\ UNCHANGED <<protocol, sockRegistryVars, sockStatus, accepted, sockHistory>>

EndTransfer(c) ==
    /\ sockLock' = [sockLock EXCEPT ![sockCall[c].id] = NoSocketHolder]
    /\ SocketReturns(c)
    /\ UNCHANGED <<protocol, sockRegistryVars, accepted, sockHistory>>

(* TcpConnection::read and write: data, nothing before the timeout (read), *)
(* the peer's end of stream (read), or an error, which fails the socket.   *)
TcpTransfer(c) ==
    /\ protocol = "tcp"
    /\ AtSocketStep(c, "blocking")
    /\ \/ UNCHANGED sockStatus
       \/ \E s \in {"closed", "failed"} : SetStatus("connections", sockCall[c].id, s)
    /\ EndTransfer(c)

(* WebSocketConnection::send and read: a message that is too large and     *)
(* timeouts that cannot be set are errors that leave the socket open.      *)
WebSocketTransfer(c) ==
    /\ protocol = "websocket"
    /\ AtSocketStep(c, "blocking")
    /\ \/ UNCHANGED sockStatus
       \/ \E s \in {"closed", "failed"} : SetStatus("connections", sockCall[c].id, s)
    /\ EndTransfer(c)

CloseSocket(c) ==
    /\ AtSocketStep(c, "close")
    /\ ConnectionUnlocked(sockCall[c].id)
    /\ SetStatus("connections", sockCall[c].id, "closed")
    /\ SocketReturns(c)
    /\ UNCHANGED <<protocol, sockRegistryVars, sockLock, accepted, sockHistory>>

(* Mutant: release still holds the connection's mutex when it takes the    *)
(* registry's, which the listing takes in the other order.                 *)
CheckKeepsMutex(c) ==
    /\ AtSocketStep(c, "release")
    /\ ConnectionUnlocked(sockCall[c].id)
    /\ \/ /\ sockStatus["connections"][sockCall[c].id] = "connected"
          /\ SocketReturns(c)
          /\ UNCHANGED sockLock
       \/ /\ sockStatus["connections"][sockCall[c].id] # "connected"
          /\ SocketGoTo(c, "remove")
          /\ sockLock' = [sockLock EXCEPT ![sockCall[c].id] = c]
    /\ UNCHANGED <<protocol, sockRegistryVars, sockStatus, accepted, sockHistory>>

(* release looks at the status under the resource's mutex ...              *)
CheckClosed(c) ==
    /\ AtSocketStep(c, "release")
    /\ ConnectionUnlocked(sockCall[c].id)
    /\ IF sockStatus["connections"][sockCall[c].id] = "connected"
       THEN SocketReturns(c)
       ELSE SocketGoTo(c, "remove")
    /\ UNCHANGED <<protocol, sockRegistryVars, sockStatus, sockLock, accepted, sockHistory>>

(* ... and removes it under the registry's.                                *)
RemoveSocket(c) ==
    /\ AtSocketStep(c, "remove")
    /\ SocketRegistryFree("connections")
    /\ sockets' = [sockets EXCEPT !["connections"] = @ \ {sockCall[c].id}]
    /\ SocketReturns(c)
    /\ UNCHANGED <<protocol, sockNext, sockPending, sockRegLock, sockStatus, sockLock, accepted, sockHistory>>

(* connections: the registry's mutex is held for every snapshot.           *)
BeginSocketList(c) ==
    /\ AtSocketStep(c, "idle")
    /\ SocketRegistryFree("connections")
    /\ sockRegLock' = c
    /\ sockCall' = [sockCall EXCEPT ![c].step = "list", ![c].todo = sockets["connections"]]
    /\ UNCHANGED <<protocol, sockNext, sockPending, sockets, sockStatus, sockLock, accepted, sockHistory>>

ListNextSocket(c) ==
    /\ AtSocketStep(c, "list")
    /\ sockCall[c].todo # {}
    /\ ConnectionUnlocked(Min(sockCall[c].todo))
    /\ sockCall' = [sockCall EXCEPT ![c].todo = @ \ {Min(@)}]
    /\ UNCHANGED <<protocol, sockRegistryVars, sockStatus, sockLock, accepted, sockHistory>>

EndSocketList(c) ==
    /\ AtSocketStep(c, "list")
    /\ sockCall[c].todo = {}
    /\ sockRegLock' = NoSocketHolder
    /\ SocketReturns(c)
    /\ UNCHANGED <<protocol, sockNext, sockPending, sockets, sockStatus, sockLock, accepted, sockHistory>>

(* listener_arc for close and release; the three steps of a listener's     *)
(* mutex never wait.                                                       *)
ListenerCall(c, op, l) ==
    /\ AtSocketStep(c, "idle")
    /\ l \in sockets["listeners"]
    /\ SocketCalls(c, op, l)
    /\ UNCHANGED <<protocol, sockRegistryVars, sockStatus, sockLock, accepted, sockHistory>>

CloseListener(c) ==
    /\ AtSocketStep(c, "close_listener")
    /\ SetStatus("listeners", sockCall[c].id, "closed")
    /\ SocketReturns(c)
    /\ UNCHANGED <<protocol, sockRegistryVars, sockLock, accepted, sockHistory>>

CheckListenerClosed(c) ==
    /\ AtSocketStep(c, "release_listener")
    /\ IF sockStatus["listeners"][sockCall[c].id] = "listening"
       THEN SocketReturns(c)
       ELSE SocketGoTo(c, "remove_listener")
    /\ UNCHANGED <<protocol, sockRegistryVars, sockStatus, sockLock, accepted, sockHistory>>

RemoveListener(c) ==
    /\ AtSocketStep(c, "remove_listener")
    /\ sockets' = [sockets EXCEPT !["listeners"] = @ \ {sockCall[c].id}]
    /\ SocketReturns(c)
    /\ UNCHANGED <<protocol, sockNext, sockPending, sockRegLock, sockStatus, sockLock, accepted, sockHistory>>

-----------------------------------------------------------------------------
SocketCall(c) ==
    \/ BeginConnect(c) \/ BeginListen(c) \/ BeginSocketList(c)
    \/ \E id \in ConnectionIds, op \in {"io", "close", "release"} : ConnectionArc(c, op, id)
    \/ \E l \in ListenerIds :
          \/ ListenerArc(c, l)
          \/ \E op \in {"close_listener", "release_listener"} : ListenerCall(c, op, l)

SocketProceed(c) ==
    \/ ConnectFails(c) \/ TcpConnect(c) \/ WebSocketConnect(c) \/ ConnectGivesUp(c) \/ FinishConnect(c)
    \/ ListenFails(c) \/ Listen(c) \/ ListenGivesUp(c) \/ FinishListen(c)
    \/ AcceptRefused(c) \/ CloneListener(c) \/ AcceptStream(c) \/ AcceptTimesOut(c)
    \/ AcceptFails(c) \/ AcceptShakesHands(c) \/ AcceptFull(c) \/ RetainAccepted(c)
    \/ FinishAccept(c) \/ CountAccepted(c)
    \/ BeginTransfer(c) \/ TcpTransfer(c) \/ WebSocketTransfer(c)
    \/ CloseSocket(c) \/ CheckClosed(c) \/ RemoveSocket(c)
    \/ ListNextSocket(c) \/ EndSocketList(c)
    \/ CloseListener(c) \/ CheckListenerClosed(c) \/ RemoveListener(c)

SocketNext == \E c \in SocketClients : SocketCall(c) \/ SocketProceed(c)

SocketSpec == SocketInit /\ [][SocketNext]_socketVars

(* Threads are scheduled, mutexes starve nobody, and a blocking call ends  *)
(* at its timeout at the latest.                                           *)
SocketFairness == \A c \in SocketClients : SF_socketVars(SocketProceed(c))

-----------------------------------------------------------------------------
(* Every variable has its type.                                            *)
SocketTypeOK ==
    /\ protocol \in SocketProtocols
    /\ sockNext \in [Registries -> Nat]
    /\ sockPending \in [Registries -> Nat]
    /\ DOMAIN sockets = Registries /\ DOMAIN sockStatus = Registries
    /\ \A r \in Registries :
          /\ sockets[r] \subseteq IdsOf(r)
          /\ sockStatus[r] \in [IdsOf(r) -> {"none", OpenStatus(r), "closed", "failed"}]
    /\ sockLock \in [ConnectionIds -> SocketClients \cup {NoSocketHolder}]
    /\ sockRegLock \in SocketClients \cup {NoSocketHolder}
    /\ sockCall \in [SocketClients -> [step : SocketSteps, id : Nat,
                                         from : ListenerIds \cup {NoListener},
                                         todo : SUBSET ConnectionIds]]
    /\ accepted \in [ListenerIds -> Nat]
    /\ origin \in [ConnectionIds -> ListenerIds \cup {NoListener}]
    /\ leaked \subseteq ConnectionIds

LeakedSlots(r) == IF r = "connections" THEN Cardinality(leaked) ELSE 0

(* A pending start is a start some thread is still in, or a WebSocket      *)
(* start that returned without giving its slot back; the limit covers them *)
(* together with what is retained; and an open connection or listener can  *)
(* be reached through its registry, whatever close, read and release do    *)
(* between release's check and its removal.                                *)
SlotsHeld ==
    \A r \in Registries :
        /\ sockPending[r] = Cardinality(StartingSocket(r)) + LeakedSlots(r)
        /\ Cardinality(sockets[r]) + sockPending[r] <= MaxRetainedSockets
        /\ \A id \in IdsOf(r) :
              sockStatus[r][id] = OpenStatus(r) =>
                  \/ id \in sockets[r]
                  \/ \E c \in StartingSocket(r) : sockCall[c].id = id

(* accepted_connections is the number of connections a listener produced,  *)
(* those of accepts that are about to count theirs aside, even when the    *)
(* listener was closed, failed or released while the accept waited.        *)
AcceptsCounted ==
    \A l \in ListenerIds :
        accepted[l] + Cardinality({c \in SocketClients :
                          sockCall[c].step \in {"accepted", "count"} /\ sockCall[c].from = l})
            = Cardinality({id \in ConnectionIds : origin[id] = l})

(* A read or a write keeps its connection open until it returns: no close, *)
(* release or failure of another thread takes the stream away under it.    *)
TransferKeepsSocket ==
    \A c \in SocketClients :
        AtSocketStep(c, "blocking") =>
            /\ sockStatus["connections"][sockCall[c].id] = "connected"
            /\ sockCall[c].id \in sockets["connections"]

(* Every slot, every accepted connection and every stream in use is        *)
(* accounted for, whatever the threads that share the registries           *)
(* interleave.                                                             *)
SocketsAccounted == SlotsHeld /\ AcceptsCounted /\ TransferKeepsSocket

(* Both registries keep the contract of RetainedRegistry, whether a socket *)
(* is connected, accepted or bound: ids are handed out once, each by its   *)
(* own registry, and a reservation is given up or retained once.  A start  *)
(* that leaked its slot keeps its reservation for good.                    *)
RetainedConnections == INSTANCE RetainedRegistry
    WITH MaxRetained <- MaxRetainedSockets, MaxStarts <- MaxConnections,
         nextId <- sockNext["connections"],
         reserved <- {sockCall[c].id : c \in StartingSocket("connections")} \cup leaked,
         retained <- sockets["connections"]

RetainedListeners == INSTANCE RetainedRegistry
    WITH MaxRetained <- MaxRetainedSockets, MaxStarts <- MaxListeners,
         nextId <- sockNext["listeners"],
         reserved <- {sockCall[c].id : c \in StartingSocket("listeners")},
         retained <- sockets["listeners"]

SocketsRetained == RetainedConnections!Spec /\ RetainedListeners!Spec

(* Every socket call returns, the listing of the connections and the close *)
(* of a connection that another thread reads included: no thread is in one *)
(* for ever.                                                               *)
SocketCallsReturn == \A c \in SocketClients : []<>AtSocketStep(c, "idle")

(* "WebSocket registry retained connection limit reached; release closed   *)
(* WebSockets before starting another connection": a registry that retains *)
(* nothing, with no start in progress, has room for a connection.          *)
EmptyRegistryHasRoom ==
    \A r \in Registries :
        sockets[r] = {} /\ StartingSocket(r) = {} => SocketSlotAvailable(r)

=============================================================================
