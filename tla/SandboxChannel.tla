--------------------------- MODULE SandboxChannel ---------------------------
(***************************************************************************)
(* The channel between a host and its sandbox broker                       *)
(* (ricochet_sandbox/src/protocol): AuthenticatedCodec frames, signs and   *)
(* numbers the messages, ResponseCorrelation pairs responses with the      *)
(* requests of the host.  What carries the frames is external and promises *)
(* nothing: a frame is delivered late, again, out of order, to the         *)
(* endpoint that sent it, damaged or never.  A frame that decode refuses   *)
(* changes nothing.  The broker is external too: it answers a request it   *)
(* received once, with any response, and sends events when it likes.       *)
(* Both endpoints own their codec (&mut self), so an operation is a step.  *)
(* Of a message the model keeps its form, its request id, the kind of the  *)
(* request or the response, the nonce of a handshake, and whether it fits  *)
(* into a frame.  Other checks of contents refuse a message on the side    *)
(* that sends it, before anything changes, and are left out.               *)
(***************************************************************************)
EXTENDS Naturals, Sequences, SequencesExt

CONSTANTS
    Carries,       \* for each sort of connection: the requests and the answers it may
                   \* see, and a bound on the messages of each endpoint
    RequestIds,
    MaxSequence,   \* u64::MAX of the two sequence numbers of a codec
    NoRequest        \* no such entry

ASSUME ChannelAssumption ==
    /\ MaxSequence \in Nat
    /\ \A c \in DOMAIN Carries : Carries[c].messages \in Nat
    /\ NoRequest \notin Nat
    /\ NoRequest \notin [request : UNION {Carries[c].requests : c \in DOMAIN Carries}, nth : Nat]

Endpoints == {"host", "broker"}
Peer(r) == IF r = "host" THEN "broker" ELSE "host"

VARIABLES
    connection,    \* the sort of this connection
    sharedKey,     \* both directions were given the same key
    nextSend, nextReceive,   \* the sequence numbers of each codec
    sentFrames,    \* every frame an endpoint ever made: all that can be delivered
    gotFrames,     \* history: the frames an endpoint accepted
    outstanding,   \* ResponseCorrelation.outstanding
    serving,       \* external: the requests the broker has not answered
    answered       \* history: the requests that were completed, with what completed them

channelVars == <<connection, sharedKey, nextSend, nextReceive, sentFrames, gotFrames,
                 outstanding, serving, answered>>

-----------------------------------------------------------------------------
(* Requests and responses.                                                 *)

ProcessKinds == {"ProcessStart", "ProcessList", "ProcessDetail", "ProcessRead", "ProcessWrite",
                 "ProcessCancel", "ProcessRelease"}
PtyKinds == {"PtyStart", "PtyList", "PtyDetail", "PtyRead", "PtyWrite", "PtyResize", "PtyStop",
             "PtyRelease"}
SessionKinds == {"Handshake", "CreateSession", "CloseSession", "CancelSession",
                 "CatalogPublicSnapshot", "Ping"}
BrokerRequestKinds == ProcessKinds \cup PtyKinds \cup SessionKinds

ProcessCodes == {"ProcessError", "ProcessNotFound", "ProcessRunning", "ProcessNotRunning",
                 "ProcessStdinClosed"}
PtyCodes == {"PtyError", "PtyNotFound", "PtyRunning", "PtyClosed"}

\* The subjects of an operation error: an execution of a surface, or a registry.
Subjects == {"process", "pty", "process registry", "pty registry"}

PlainResponses == {"SessionCreated", "Acknowledged", "Process", "Processes", "ProcessRead", "Pty",
                   "Ptys", "PtyRead", "PublicCatalog", "Pong", "Error"}
PlainAnswers(types) == [type : types]
Handshakes(nonces) == [type : {"Handshake"}, nonce : nonces, sameChannel : BOOLEAN]
OperationErrors == [type : {"OperationError"}, code : ProcessCodes \cup PtyCodes \cup {"RegistryFull"},
                    subject : Subjects]

(* OperationError::validate                                                *)
SubjectMatches(error) ==
    \/ error.code \in ProcessCodes /\ error.subject = "process"
    \/ error.code \in PtyCodes /\ error.subject = "pty"
    \/ error.code = "RegistryFull" /\ error.subject \in {"process registry", "pty registry"}

(* BrokerResponse::validate                                                *)
ValidResponse(response) == response.type = "OperationError" => SubjectMatches(response)

(* Mutant: whoever has the key may send anything.                          *)
AnySender(sender, message) == TRUE

(* ProtocolMessage::validate_for                                           *)
ValidFor(sender, message) ==
    \/ sender = "host" /\ message.form = "request"
    \/ sender = "broker" /\ message.form = "response" /\ ValidResponse(message.response)
    \/ sender = "broker" /\ message.form = "event"

-----------------------------------------------------------------------------
(* AuthenticatedCodec.                                                     *)

SendKey(r) == IF sharedKey THEN "both" ELSE r
ReceiveKey(r) == SendKey(Peer(r))

(* Mutant: the addition wraps around.                                      *)
WrappingAdd(n) == (n + 1) % (MaxSequence + 1)

(* checked_add, which leaves the last number unused                        *)
Following(n) == IF n = MaxSequence THEN NoRequest ELSE n + 1

\* The bound on the messages of an endpoint.
MaySend(r) == Len(sentFrames[r]) < Carries[connection].messages

Frame(r, message) == [key |-> SendKey(r), sequence |-> nextSend[r], message |-> message]

(* encode answers with a frame: the message may come from this endpoint,   *)
(* a number is left, and the payload is not too long.                      *)
Encodes(r, message, fits) ==
    /\ ValidFor(r, message)
    /\ Following(nextSend[r]) # NoRequest
    /\ fits

Encode(r, message) ==
    /\ sentFrames' = [sentFrames EXCEPT ![r] = Append(@, Frame(r, message))]
    /\ nextSend' = [nextSend EXCEPT ![r] = Following(@)]

(* Mutant: frames that were skipped are taken for lost.                    *)
NotReplayed(r, frame) == frame.sequence >= nextReceive[r]

InSequence(r, frame) == frame.sequence = nextReceive[r]

(* decode answers with a message: the frame is whole and was signed with   *)
(* the peer's key, it is the next one, its message may come from the peer. *)
Decodes(r, frame) ==
    /\ frame.key = ReceiveKey(r)
    /\ InSequence(r, frame)
    /\ ValidFor(Peer(r), frame.message)
    /\ Following(nextReceive[r]) # NoRequest

Decode(r, frame) ==
    /\ Decodes(r, frame)
    /\ gotFrames' = [gotFrames EXCEPT ![r] = Append(@, frame)]
    /\ nextReceive' = [nextReceive EXCEPT ![r] = Following(@)]

-----------------------------------------------------------------------------
(* ResponseCorrelation.                                                    *)

(* The kinds of requests that each response answers (response_allowed).    *)
AnswerOf ==
    [Handshake |-> {"Handshake"}, SessionCreated |-> {"CreateSession"},
     Acknowledged |-> {"CloseSession", "CancelSession", "ProcessRelease", "PtyRelease"},
     Process |-> {"ProcessStart", "ProcessDetail", "ProcessWrite", "ProcessCancel"},
     Processes |-> {"ProcessList"}, ProcessRead |-> {"ProcessRead"},
     Pty |-> {"PtyStart", "PtyDetail", "PtyWrite", "PtyResize", "PtyStop"},
     Ptys |-> {"PtyList"}, PtyRead |-> {"PtyRead"},
     PublicCatalog |-> {"CatalogPublicSnapshot"}, Pong |-> {"Ping"}]

(* The codes that each kind of request may fail with.                      *)
FailureCodes(kind) ==
    CASE kind = "ProcessStart" -> {"ProcessError", "RegistryFull"}
      [] kind \in {"ProcessDetail", "ProcessRead"} -> {"ProcessNotFound"}
      [] kind = "ProcessWrite" -> {"ProcessNotFound", "ProcessNotRunning", "ProcessStdinClosed", "ProcessError"}
      [] kind = "ProcessCancel" -> {"ProcessNotFound", "ProcessError"}
      [] kind = "ProcessRelease" -> {"ProcessNotFound", "ProcessRunning"}
      [] kind = "PtyStart" -> {"PtyError", "RegistryFull"}
      [] kind \in {"PtyDetail", "PtyRead"} -> {"PtyNotFound"}
      [] kind \in {"PtyWrite", "PtyResize"} -> {"PtyNotFound", "PtyClosed", "PtyError"}
      [] kind = "PtyStop" -> {"PtyNotFound", "PtyError"}
      [] kind = "PtyRelease" -> {"PtyNotFound", "PtyRunning"}
      [] OTHER -> {}

(* Mutant: the registry that is full is not compared with the request.     *)
AnyRegistry(kind, subject) == TRUE

(* A full registry is an answer to a start on its surface.                 *)
RegistrySubjectMatches(kind, subject) ==
    /\ subject = "process registry" => kind = "ProcessStart"
    /\ subject = "pty registry" => kind = "PtyStart"

OperationErrorAllowed(kind, error) ==
    RegistrySubjectMatches(kind, error.subject) /\ error.code \in FailureCodes(kind)

ResponseAllowed(kind, response) ==
    \/ response.type = "Error"
    \/ response.type = "OperationError" /\ OperationErrorAllowed(kind, response)
    \/ response.type \in DOMAIN AnswerOf /\ kind \in AnswerOf[response.type]

(* HandshakeResponse::validate_against: the nonce of the request, and the  *)
(* peer and the binding of this channel.                                   *)
HandshakeAllowed(expected, response) ==
    \/ response.type = "Error"
    \/ response.type = "Handshake" /\ response.nonce = expected.nonce /\ response.sameChannel

Expected(entry, response) ==
    IF entry.request.kind = "Handshake"
    THEN HandshakeAllowed(entry.request, response)
    ELSE ResponseAllowed(entry.request.kind, response)

(* Mutant: an id that is recorded twice names the later request.           *)
Overwrites(id) == TRUE

(* insert refuses an id that is outstanding.                               *)
Unused(id) == outstanding[id] = NoRequest

(* validate_and_complete                                                   *)
CompleteRequest(message) ==
    LET entry == outstanding[message.id]
        fits == entry # NoRequest /\ Expected(entry, message.response)
    IN  /\ outstanding' = IF fits THEN [outstanding EXCEPT ![message.id] = NoRequest] ELSE outstanding
        /\ answered' = IF fits THEN answered \cup {[entry |-> entry, answer |-> message]} ELSE answered

-----------------------------------------------------------------------------
(* The endpoints.                                                          *)

ChannelInit ==
    /\ connection \in DOMAIN Carries
    /\ sharedKey \in BOOLEAN
    /\ nextSend = [r \in Endpoints |-> 0]
    /\ nextReceive = [r \in Endpoints |-> 0]
    /\ sentFrames = [r \in Endpoints |-> <<>>]
    /\ gotFrames = [r \in Endpoints |-> <<>>]
    /\ outstanding = [id \in RequestIds |-> NoRequest]
    /\ serving = {}
    /\ answered = {}

(* The host records a request (record_request, record_handshake) and sends *)
(* it.  One that encode refuses stays recorded.  An entry keeps, as        *)
(* history, which message of the host it stands for.                       *)
SendRequest(id, request) ==
    LET nth == Len(sentFrames["host"]) + 1
        message == [form |-> "request", id |-> id, request |-> request]
        encodes == Encodes("host", message, request.fits)
    IN  /\ MaySend("host")
        /\ Unused(id)
        /\ outstanding' = [outstanding EXCEPT ![id] =
                [request |-> request, nth |-> IF encodes THEN nth ELSE 0]]
        /\ IF encodes THEN Encode("host", message) ELSE UNCHANGED <<sentFrames, nextSend>>
        /\ UNCHANGED <<connection, sharedKey, nextReceive, gotFrames, serving, answered>>

(* The broker takes a request.                                             *)
BrokerReceives(frame) ==
    /\ Decode("broker", frame)
    /\ serving' = serving \cup {[id |-> frame.message.id, nth |-> Len(gotFrames'["broker"])]}
    /\ UNCHANGED <<connection, sharedKey, nextSend, sentFrames, outstanding, answered>>

(* external: the broker answers a request it took, in any order.  The      *)
(* response keeps, as history, which request it is meant for.              *)
BrokerAnswers(request, response) ==
    LET message == [form |-> "response", id |-> request.id, response |-> response, for |-> request.nth]
    IN  /\ MaySend("broker")
        /\ Encodes("broker", message, TRUE)
        /\ Encode("broker", message)
        /\ serving' = serving \ {request}
        /\ UNCHANGED <<connection, sharedKey, nextReceive, gotFrames, outstanding, answered>>

(* external: the broker reports an event of a session.                     *)
BrokerReports ==
    /\ MaySend("broker")
    /\ Encodes("broker", [form |-> "event"], TRUE)
    /\ Encode("broker", [form |-> "event"])
    /\ UNCHANGED <<connection, sharedKey, nextReceive, gotFrames, outstanding, serving, answered>>

(* The host takes an event, or a response that it correlates.              *)
HostReceives(frame) ==
    /\ Decode("host", frame)
    /\ IF frame.message.form = "response"
       THEN CompleteRequest(frame.message)
       ELSE UNCHANGED <<outstanding, answered>>
    /\ UNCHANGED <<connection, sharedKey, nextSend, sentFrames, serving>>

(* The carrier delivers any frame that was ever sent, to either endpoint.  *)
AllFrames == Range(sentFrames["host"]) \cup Range(sentFrames["broker"])

ChannelNext ==
    \/ \E id \in RequestIds, q \in Carries[connection].requests : SendRequest(id, q)
    \/ \E q \in serving, a \in Carries[connection].answers : BrokerAnswers(q, a)
    \/ BrokerReports
    \/ \E f \in AllFrames : BrokerReceives(f) \/ HostReceives(f)

ChannelSpec == ChannelInit /\ [][ChannelNext]_channelVars

-----------------------------------------------------------------------------
(* Every variable has its type.                                            *)
ChannelTypeOK ==
    /\ connection \in DOMAIN Carries
    /\ sharedKey \in BOOLEAN
    /\ nextSend \in [Endpoints -> 0 .. MaxSequence]
    /\ nextReceive \in [Endpoints -> 0 .. MaxSequence]
    /\ \A r \in Endpoints :
          /\ Len(sentFrames[r]) <= Carries[connection].messages
          /\ \A f \in Range(sentFrames[r]) : f.sequence \in 0 .. MaxSequence
    /\ \A id \in RequestIds :
          outstanding[id] # NoRequest => outstanding[id].request \in Carries[connection].requests
    /\ \A q \in serving : q.id \in RequestIds

(* Over a carrier that loses, repeats, reorders and reflects frames, what  *)
(* an endpoint accepted is a prefix of what its peer sent: nothing twice,  *)
(* nothing skipped, nothing of its own, with one key or two, and also when *)
(* the sequence numbers run out (decode, encode).                          *)
DeliveredInOrder == \A r \in Endpoints : IsPrefix(gotFrames[r], sentFrames[Peer(r)])

SurfaceOfRequest(kind) ==
    CASE kind \in ProcessKinds -> "process" [] kind \in PtyKinds -> "pty" [] OTHER -> "none"

SurfaceOfResponse(response) ==
    CASE response.type \in {"Process", "Processes", "ProcessRead"} -> {"process"}
      [] response.type \in {"Pty", "Ptys", "PtyRead"} -> {"pty"}
      [] response.type = "OperationError" ->
            {IF response.subject \in {"process", "process registry"} THEN "process" ELSE "pty"}
      [] OTHER -> {"none", "process", "pty"}

(* A request is completed at most once, by the response the broker sent    *)
(* for that very request, although ids are used again; the response is     *)
(* about the surface of the request, and a request that was completed is   *)
(* not outstanding any more (insert, validate_and_complete).               *)
AnsweredByItsResponse ==
    /\ \A c \in answered :
          /\ c.entry.nth = c.answer.for
          /\ SurfaceOfRequest(c.entry.request.kind) \in SurfaceOfResponse(c.answer.response)
          /\ \A d \in answered : c.entry.nth = d.entry.nth => c = d
          /\ \A id \in RequestIds : outstanding[id] # NoRequest => outstanding[id].nth # c.entry.nth

(* Requests reach the broker, and answers their requests, in order and     *)
(* once, whatever the carrier does.                                        *)
ChannelSound == DeliveredInOrder /\ AnsweredByItsResponse

=============================================================================
