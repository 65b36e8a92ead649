--------------------------- MODULE ProgramProofs ----------------------------
(***************************************************************************)
(* Theorems about SandboxChannel, DynamicModules, HotReload and Interpreter*)
(* (how a program reaches its sandbox, its modules and the code it is      *)
(* served from, and how it is executed), and about ProgramRuntime, which   *)
(* has them all and the jobs.                                              *)
(***************************************************************************)
EXTENDS ProgramRuntime, ProcessRuntimeProofs

-----------------------------------------------------------------------------
(***************************************************************************)
(* The channel, for any number of request ids, requests and answers, and any*)
(* bound on the sequence numbers.                                          *)
(***************************************************************************)

(* What the requests of the host and the messages of both endpoints are.   *)
Requests == UNION {Carries[c].requests : c \in DOMAIN Carries}
(* The answers the broker may give to them.                                *)
Answers == UNION {Carries[c].answers : c \in DOMAIN Carries}
(* What an endpoint writes: requests, responses and events.                *)
Messages == [form : {"request"}, id : RequestIds, request : Requests]
            \cup [form : {"response"}, id : RequestIds, response : Answers, for : Nat]
            \cup [form : {"event"}]
(* A frame as it is sealed.                                                *)
Frames == [key : Endpoints \cup {"both"}, sequence : Nat, message : Messages]
(* A request the host waits for, with its place among all it sent.         *)
ChannelEntries == [request : Requests, nth : Nat]

(* The types the proofs need.                                              *)
ChannelTypes ==
    /\ connection \in DOMAIN Carries
    /\ sharedKey \in BOOLEAN
    /\ nextSend \in [Endpoints -> 0 .. MaxSequence]
    /\ nextReceive \in [Endpoints -> 0 .. MaxSequence]
    /\ sentFrames \in [Endpoints -> Seq(Frames)]
    /\ gotFrames \in [Endpoints -> Seq(Frames)]
    /\ outstanding \in [RequestIds -> ChannelEntries \cup {NoRequest}]
    /\ serving \subseteq [id : RequestIds, nth : Nat]
    /\ answered \subseteq [entry : ChannelEntries, answer : Messages]

(* The frames of an endpoint are numbered without gaps, signed with its    *)
(* key, and of a form that only this endpoint sends.                       *)
FramesNumbered ==
    \A r \in Endpoints :
        /\ nextSend[r] = Len(sentFrames[r])
        /\ \A k \in 1 .. Len(sentFrames[r]) :
              /\ sentFrames[r][k].sequence = k - 1
              /\ sentFrames[r][k].key = SendKey(r)
              /\ ValidFor(r, sentFrames[r][k].message)

(* An endpoint has accepted as many frames as it counted, those that its   *)
(* peer sent first.                                                        *)
FramesReceived ==
    \A r \in Endpoints :
        /\ nextReceive[r] = Len(gotFrames[r])
        /\ Len(gotFrames[r]) <= Len(sentFrames[Peer(r)])
        /\ \A k \in 1 .. Len(gotFrames[r]) : gotFrames[r][k] = sentFrames[Peer(r)][k]

(* The nth message of the host and the kth of the broker.                  *)
Asked(n) == sentFrames["host"][n].message
(* The k-th message of the broker.                                         *)
Told(k) == sentFrames["broker"][k].message
(* Which of the broker's messages are responses.                           *)
Responses == {k \in 1 .. Len(sentFrames["broker"]) : Told(k).form = "response"}

(* The broker answers a request it received, under its id, and only once.  *)
RequestsServed ==
    /\ \A q \in serving :
          /\ q.nth \in 1 .. Len(gotFrames["broker"])
          /\ q.id = Asked(q.nth).id
          /\ \A k \in Responses : Told(k).for # q.nth
    /\ \A k \in Responses :
          /\ Told(k).for \in 1 .. Len(gotFrames["broker"])
          /\ Told(k).id = Asked(Told(k).for).id
          /\ \A j \in Responses : Told(j).for = Told(k).for => j = k

(* A request whose answer has not reached the host is outstanding under    *)
(* its id, and what is outstanding is the request of that id.              *)
EntriesKept ==
    /\ \A n \in 1 .. Len(sentFrames["host"]) :
          (\A k \in Responses : k <= nextReceive["host"] => Told(k).for # n) =>
              /\ outstanding[Asked(n).id] # NoRequest
              /\ outstanding[Asked(n).id].nth = n
    /\ \A id \in RequestIds : outstanding[id] # NoRequest /\ outstanding[id].nth # 0 =>
          /\ outstanding[id].nth \in 1 .. Len(sentFrames["host"])
          /\ Asked(outstanding[id].nth).id = id

(* What completed a request is a response that the host accepted.          *)
AnswersReceived ==
    \A c \in answered :
        /\ c.entry.nth \in 1 .. Len(sentFrames["host"])
        /\ \E k \in Responses : k <= nextReceive["host"] /\ Told(k) = c.answer

(* The inductive invariant.                                                *)
ChannelInv == ChannelTypes /\ FramesNumbered /\ FramesReceived /\ RequestsServed
              /\ EntriesKept /\ AnswersReceived /\ AnsweredByItsResponse

-----------------------------------------------------------------------------
(* No entry is mistaken for the absence of one.                            *)
LEMMA EntryIsARequest == \A e \in ChannelEntries : e # NoRequest
  BY ChannelAssumption DEF ChannelEntries, Requests

(* The number after one that is not the last is a number.                  *)
LEMMA FollowingNumber ==
    ASSUME NEW n \in 0 .. MaxSequence
    PROVE  /\ Following(n) # NoRequest => Following(n) = n + 1 /\ n + 1 \in 0 .. MaxSequence
           /\ Following(n) \in Nat => n # MaxSequence
  BY ChannelAssumption DEF Following

(* The two endpoints may not send the same message.                        *)
LEMMA OneSender ==
    ASSUME NEW r \in Endpoints, NEW m, ValidFor(r, m)
    PROVE  ~ValidFor(Peer(r), m)
  BY DEF ValidFor, Peer, Endpoints

(* The other end of the other end is this one.                             *)
LEMMA PeerIsEndpoint == \A r \in Endpoints : Peer(r) \in Endpoints /\ Peer(Peer(r)) = r /\ Peer(r) # r
  BY DEF Peer, Endpoints

(* Nothing was sent on a new channel.                                      *)
LEMMA InitChannel == ChannelInit => ChannelInv
  <1> SUFFICES ASSUME ChannelInit PROVE ChannelInv
    OBVIOUS
  <1>1. ChannelTypes
    BY ChannelAssumption DEF ChannelInit, ChannelTypes
  <1>2. FramesNumbered /\ FramesReceived
    BY PeerIsEndpoint DEF ChannelInit, FramesNumbered, FramesReceived
  <1>3. Responses = {} /\ Len(sentFrames["host"]) = 0
    BY DEF ChannelInit, Responses, Endpoints
  <1>4. RequestsServed /\ EntriesKept /\ AnswersReceived /\ AnsweredByItsResponse
    BY <1>3 DEF ChannelInit, RequestsServed, EntriesKept, AnswersReceived, AnsweredByItsResponse
  <1> QED BY <1>1, <1>2, <1>4 DEF ChannelInv

(* Whatever the host sent is a request with an id.                         *)
LEMMA AskedHasId ==
    ASSUME ChannelInv, NEW n \in 1 .. Len(sentFrames["host"])
    PROVE  Asked(n).form = "request" /\ Asked(n).id \in RequestIds /\ Asked(n).request \in Requests
  <1>1. "host" \in Endpoints
    BY DEF Endpoints
  <1>2. sentFrames["host"] \in Seq(Frames) /\ ValidFor("host", Asked(n))
    BY <1>1 DEF ChannelInv, ChannelTypes, FramesNumbered, Asked
  <1>3. Asked(n) \in Messages
    <2>1. sentFrames["host"][n] \in Frames
      BY <1>2
    <2> QED BY <2>1 DEF Frames, Asked
  <1> QED BY <1>2, <1>3 DEF Messages, ValidFor

(* What the broker sends as a response is one.                             *)
LEMMA ToldIsResponse ==
    ASSUME ChannelInv, NEW k \in Responses
    PROVE  /\ Told(k).id \in RequestIds /\ Told(k).response \in Answers /\ Told(k).for \in Nat
           /\ ValidResponse(Told(k).response)
           /\ Told(k) \in Messages
  <1>1. "broker" \in Endpoints /\ k \in 1 .. Len(sentFrames["broker"]) /\ Told(k).form = "response"
    BY DEF Endpoints, Responses
  <1>2. sentFrames["broker"] \in Seq(Frames) /\ ValidFor("broker", Told(k))
    BY <1>1 DEF ChannelInv, ChannelTypes, FramesNumbered, Told
  <1>3. Told(k) \in Messages
    <2>1. sentFrames["broker"][k] \in Frames
      BY <1>1, <1>2
    <2> QED BY <2>1 DEF Frames, Told
  <1> QED BY <1>1, <1>2, <1>3 DEF Messages, ValidFor

-----------------------------------------------------------------------------
(* r sent m: its frames grew by one.                                       *)
Appended(r, m) ==
    /\ sentFrames' \in [Endpoints -> Seq(Frames)]
    /\ nextSend' \in [Endpoints -> 0 .. MaxSequence]
    /\ nextSend'[r] = nextSend[r] + 1
    /\ nextSend'[Peer(r)] = nextSend[Peer(r)]
    /\ Len(sentFrames[r]) \in Nat
    /\ Len(sentFrames'[r]) = Len(sentFrames[r]) + 1
    /\ \A k \in 1 .. Len(sentFrames[r]) : sentFrames'[r][k] = sentFrames[r][k]
    /\ sentFrames'[r][Len(sentFrames[r]) + 1] = Frame(r, m)
    /\ sentFrames'[Peer(r)] = sentFrames[Peer(r)]

(* r accepted f, the frame that follows those it accepted before.          *)
Accepted(r, f) ==
    /\ Len(gotFrames[r]) \in Nat /\ Len(sentFrames[Peer(r)]) \in Nat
    /\ Len(gotFrames[r]) + 1 <= Len(sentFrames[Peer(r)])
    /\ f = sentFrames[Peer(r)][Len(gotFrames[r]) + 1]
    /\ nextReceive' \in [Endpoints -> 0 .. MaxSequence]
    /\ nextReceive'[r] = nextReceive[r] + 1
    /\ nextReceive'[Peer(r)] = nextReceive[Peer(r)]
    /\ gotFrames' \in [Endpoints -> Seq(Frames)]
    /\ Len(gotFrames'[r]) = Len(gotFrames[r]) + 1
    /\ \A k \in 1 .. Len(gotFrames[r]) : gotFrames'[r][k] = gotFrames[r][k]
    /\ gotFrames'[r][Len(gotFrames[r]) + 1] = f
    /\ gotFrames'[Peer(r)] = gotFrames[Peer(r)]

(* encode appends one frame and counts it.                                 *)
LEMMA EncodeAppends ==
    ASSUME ChannelInv, NEW r \in Endpoints, NEW m \in Messages,
           Encodes(r, m, TRUE), Encode(r, m)
    PROVE  Appended(r, m)
  <1>1. Following(nextSend[r]) = nextSend[r] + 1 /\ nextSend[r] + 1 \in 0 .. MaxSequence
    BY FollowingNumber DEF ChannelInv, ChannelTypes, Encodes
  <1>2. Frame(r, m) \in Frames
    BY PeerIsEndpoint, ChannelAssumption DEF Frame, Frames, SendKey, ChannelInv, ChannelTypes
  <1>3. /\ sentFrames' = [sentFrames EXCEPT ![r] = Append(@, Frame(r, m))]
        /\ nextSend' = [nextSend EXCEPT ![r] = nextSend[r] + 1]
        /\ sentFrames \in [Endpoints -> Seq(Frames)]
        /\ nextSend \in [Endpoints -> 0 .. MaxSequence]
    BY <1>1 DEF Encode, ChannelInv, ChannelTypes
  <1>4. sentFrames'[r] = Append(sentFrames[r], Frame(r, m)) /\ sentFrames[r] \in Seq(Frames)
    BY <1>3
  <1>5. /\ Append(sentFrames[r], Frame(r, m)) \in Seq(Frames)
        /\ Len(Append(sentFrames[r], Frame(r, m))) = Len(sentFrames[r]) + 1
        /\ \A k \in 1 .. Len(sentFrames[r]) : Append(sentFrames[r], Frame(r, m))[k] = sentFrames[r][k]
        /\ Append(sentFrames[r], Frame(r, m))[Len(sentFrames[r]) + 1] = Frame(r, m)
    BY <1>2, <1>4
  <1> QED BY <1>1, <1>3, <1>4, <1>5, PeerIsEndpoint DEF Appended

(* A new frame has the next number, its sender's key and form.             *)
LEMMA EncodeKeepsFrames ==
    ASSUME ChannelInv, NEW r \in Endpoints, NEW m \in Messages,
           Encodes(r, m, TRUE), Encode(r, m), UNCHANGED <<sharedKey, nextReceive, gotFrames>>
    PROVE  FramesNumbered' /\ FramesReceived'
  <1> USE PeerIsEndpoint
  <1>a. Appended(r, m)
    BY EncodeAppends
  <1>b. ChannelTypes /\ FramesNumbered /\ FramesReceived
    BY DEF ChannelInv
  <1>1. FramesNumbered'
    <2> SUFFICES ASSUME NEW s \in Endpoints
                 PROVE  /\ nextSend'[s] = Len(sentFrames'[s])
                        /\ \A k \in 1 .. Len(sentFrames'[s]) :
                              /\ sentFrames'[s][k].sequence = k - 1
                              /\ sentFrames'[s][k].key = SendKey(s)
                              /\ ValidFor(s, sentFrames'[s][k].message)
      BY DEF FramesNumbered, SendKey, ValidFor
    <2>1. CASE s = r
      <3>1. Len(sentFrames[r]) \in Nat
        BY <1>b DEF ChannelTypes
      <3>2. nextSend'[r] = Len(sentFrames'[r])
        BY <1>a, <1>b DEF Appended, FramesNumbered
      <3>3. ASSUME NEW k \in 1 .. Len(sentFrames'[r])
            PROVE  /\ sentFrames'[r][k].sequence = k - 1
                   /\ sentFrames'[r][k].key = SendKey(r)
                   /\ ValidFor(r, sentFrames'[r][k].message)
        <4>1. CASE k \in 1 .. Len(sentFrames[r])
          BY <4>1, <1>a, <1>b DEF Appended, FramesNumbered
        <4>2. CASE k = Len(sentFrames[r]) + 1
          BY <4>2, <3>1, <1>a, <1>b DEF Appended, FramesNumbered, Frame, Encodes
        <4> QED BY <4>1, <4>2, <3>1, <1>a DEF Appended
      <3> QED BY <2>1, <3>2, <3>3
    <2>2. CASE s = Peer(r)
      BY <2>2, <1>a, <1>b DEF Appended, FramesNumbered
    <2> QED BY <2>1, <2>2 DEF Endpoints, Peer
  <1>2. FramesReceived'
    <2> SUFFICES ASSUME NEW s \in Endpoints
                 PROVE  /\ nextReceive'[s] = Len(gotFrames'[s])
                        /\ Len(gotFrames'[s]) <= Len(sentFrames'[Peer(s)])
                        /\ \A k \in 1 .. Len(gotFrames'[s]) : gotFrames'[s][k] = sentFrames'[Peer(s)][k]
      BY DEF FramesReceived
    <2>1. Len(gotFrames[s]) \in Nat /\ Len(sentFrames[Peer(s)]) \in Nat
      BY <1>b DEF ChannelTypes
    <2>2. CASE s = Peer(r)
      <3>1. Peer(s) = r
        BY <2>2, Zenon
      <3>2. Len(gotFrames[s]) <= Len(sentFrames[r]) /\ nextReceive[s] = Len(gotFrames[s])
        BY <3>1, <1>b DEF FramesReceived
      <3>3. Len(gotFrames[s]) <= Len(sentFrames'[r])
        BY <2>1, <3>1, <3>2, <1>a DEF Appended
      <3>4. ASSUME NEW k \in 1 .. Len(gotFrames[s]) PROVE gotFrames[s][k] = sentFrames'[r][k]
        <4>1. k \in 1 .. Len(sentFrames[r])
          BY <2>1, <3>1, <3>2
        <4>2. gotFrames[s][k] = sentFrames[r][k]
          BY <3>1, <1>b DEF FramesReceived
        <4> QED BY <4>1, <4>2, <1>a DEF Appended
      <3> QED BY <3>1, <3>2, <3>3, <3>4
    <2>3. CASE s = r
      BY <2>3, <1>a, <1>b DEF Appended, FramesReceived
    <2> QED BY <2>2, <2>3 DEF Endpoints, Peer
  <1> QED BY <1>1, <1>2

(* What decode accepts is the frame that follows those it accepted before. *)
LEMMA DecodeAccepts ==
    ASSUME ChannelInv, NEW r \in Endpoints, NEW f \in AllFrames, Decode(r, f)
    PROVE  Accepted(r, f)
  <1> USE PeerIsEndpoint
  <1>a. ChannelTypes /\ FramesNumbered /\ FramesReceived
    BY DEF ChannelInv
  <1>1. PICK s \in Endpoints : f \in Range(sentFrames[s])
    BY DEF AllFrames, Endpoints
  <1>2. PICK k \in 1 .. Len(sentFrames[s]) : f = sentFrames[s][k]
    BY <1>1, <1>a DEF Range, ChannelTypes
  <1>3. ValidFor(s, f.message) /\ f.sequence = k - 1
    BY <1>2, <1>a DEF FramesNumbered
  <1>4. s = Peer(r)
    <2>1. ValidFor(Peer(r), f.message)
      BY DEF Decode, Decodes
    <2>2. s # r
      BY <1>3, <2>1, OneSender
    <2> QED BY <2>2 DEF Endpoints, Peer
  <1>5. k = Len(gotFrames[r]) + 1
    <2>1. f.sequence = nextReceive[r] /\ nextReceive[r] = Len(gotFrames[r])
      BY <1>a DEF Decode, Decodes, InSequence, FramesReceived
    <2> QED BY <1>3, <2>1
  <1>6. Following(nextReceive[r]) = nextReceive[r] + 1 /\ nextReceive[r] + 1 \in 0 .. MaxSequence
    BY FollowingNumber, <1>a DEF ChannelTypes, Decode, Decodes
  <1>7. f \in Frames
    BY <1>2, <1>a DEF ChannelTypes
  <1>8. /\ nextReceive' = [nextReceive EXCEPT ![r] = nextReceive[r] + 1]
        /\ gotFrames' = [gotFrames EXCEPT ![r] = Append(gotFrames[r], f)]
        /\ nextReceive \in [Endpoints -> 0 .. MaxSequence]
        /\ gotFrames \in [Endpoints -> Seq(Frames)]
    BY <1>6, <1>a DEF Decode, ChannelTypes
  <1>9. /\ Append(gotFrames[r], f) \in Seq(Frames)
        /\ Len(Append(gotFrames[r], f)) = Len(gotFrames[r]) + 1
        /\ \A i \in 1 .. Len(gotFrames[r]) : Append(gotFrames[r], f)[i] = gotFrames[r][i]
        /\ Append(gotFrames[r], f)[Len(gotFrames[r]) + 1] = f
        /\ Len(gotFrames[r]) \in Nat
    BY <1>7, <1>8
  <1>10. /\ Len(sentFrames[Peer(r)]) \in Nat
         /\ Len(gotFrames[r]) + 1 <= Len(sentFrames[Peer(r)])
         /\ f = sentFrames[Peer(r)][Len(gotFrames[r]) + 1]
    BY <1>2, <1>4, <1>5, <1>a DEF ChannelTypes
  <1> QED BY <1>6, <1>8, <1>9, <1>10 DEF Accepted

(* After it the endpoint still has what its peer sent first.               *)
LEMMA DecodeKeepsFrames ==
    ASSUME ChannelInv, NEW r \in Endpoints, NEW f \in AllFrames, Decode(r, f),
           UNCHANGED <<sharedKey, nextSend, sentFrames>>
    PROVE  FramesNumbered' /\ FramesReceived'
  <1> USE PeerIsEndpoint
  <1>a. Accepted(r, f)
    BY DecodeAccepts
  <1>b. FramesNumbered /\ FramesReceived
    BY DEF ChannelInv
  <1>1. FramesNumbered'
    BY <1>b DEF FramesNumbered, SendKey, ValidFor
  <1>2. ASSUME NEW s \in Endpoints
        PROVE  /\ nextReceive'[s] = Len(gotFrames'[s])
               /\ Len(gotFrames'[s]) <= Len(sentFrames'[Peer(s)])
               /\ \A k \in 1 .. Len(gotFrames'[s]) : gotFrames'[s][k] = sentFrames'[Peer(s)][k]
    <2>1. CASE s = r
      <3>1. ASSUME NEW k \in 1 .. Len(gotFrames'[r])
            PROVE  gotFrames'[r][k] = sentFrames[Peer(r)][k]
        <4>1. CASE k \in 1 .. Len(gotFrames[r])
          BY <4>1, <1>a, <1>b DEF FramesReceived, Accepted
        <4>2. CASE k = Len(gotFrames[r]) + 1
          BY <4>2, <1>a DEF Accepted
        <4> QED BY <4>1, <4>2, <1>a DEF Accepted
      <3> QED BY <2>1, <3>1, <1>a, <1>b DEF FramesReceived, Accepted
    <2>2. CASE s = Peer(r)
      BY <2>2, <1>a, <1>b DEF FramesReceived, Accepted
    <2> QED BY <2>1, <2>2 DEF Endpoints, Peer
  <1> QED BY <1>1, <1>2 DEF FramesReceived

-----------------------------------------------------------------------------
(* A request that encode refuses is recorded and never sent.               *)
LEMMA RefusedRequest ==
    ASSUME ChannelInv, NEW id \in RequestIds, NEW q \in Requests, Unused(id),
           outstanding' = [outstanding EXCEPT ![id] = [request |-> q, nth |-> 0]],
           UNCHANGED <<connection, sharedKey, nextSend, nextReceive, sentFrames, gotFrames, serving, answered>>
    PROVE  ChannelInv'
  <1>a. ChannelTypes /\ FramesNumbered /\ FramesReceived /\ RequestsServed /\ EntriesKept
        /\ AnswersReceived /\ AnsweredByItsResponse
    BY DEF ChannelInv
  <1>b. [request |-> q, nth |-> 0] \in ChannelEntries
    BY DEF ChannelEntries
  <1>c. /\ outstanding'[id] = [request |-> q, nth |-> 0]
        /\ \A i \in RequestIds : i # id => outstanding'[i] = outstanding[i]
        /\ outstanding[id] = NoRequest
    BY <1>a DEF ChannelTypes, Unused
  <1>1. ChannelTypes'
    BY <1>a, <1>b DEF ChannelTypes
  <1>2. FramesNumbered' /\ FramesReceived' /\ RequestsServed' /\ AnswersReceived'
    BY <1>a DEF FramesNumbered, FramesReceived, RequestsServed, AnswersReceived, SendKey, ValidFor,
                Asked, Told, Responses
  <1>3. EntriesKept'
    <2>1. \A n \in 1 .. Len(sentFrames["host"]) :
            (\A k \in Responses : k <= nextReceive["host"] => Told(k).for # n) => Asked(n).id # id
      BY <1>a, <1>c DEF EntriesKept
    <2>2. \A n \in 1 .. Len(sentFrames["host"]) : Asked(n).id # id /\ Asked(n).id \in RequestIds =>
            outstanding'[Asked(n).id] = outstanding[Asked(n).id]
      BY <1>c
    <2>3. \A n \in 1 .. Len(sentFrames["host"]) : Asked(n).id \in RequestIds
      BY <1>a, AskedHasId
    <2>4. /\ Responses' = Responses /\ \A k : Told(k)' = Told(k) /\ Asked(k)' = Asked(k)
      BY DEF Responses, Told, Asked
    <2>5. \A i \in RequestIds : outstanding'[i] # NoRequest /\ outstanding'[i].nth # 0 =>
            i # id
      BY <1>c
    <2> QED BY <1>a, <1>c, <2>1, <2>2, <2>3, <2>4, <2>5 DEF EntriesKept
  <1>4. AnsweredByItsResponse'
    <2>1. \A c \in answered : c.entry.nth # 0
      BY <1>a DEF AnswersReceived
    <2> QED BY <1>a, <1>c, <2>1 DEF AnsweredByItsResponse
  <1> QED BY <1>1, <1>2, <1>3, <1>4 DEF ChannelInv

(* A request that is sent becomes the one its id stands for.               *)
LEMMA SentRequest ==
    ASSUME ChannelInv, NEW id \in RequestIds, NEW q \in Requests, Unused(id),
           LET m == [form |-> "request", id |-> id, request |-> q]
           IN  Encodes("host", m, TRUE) /\ Encode("host", m),
           outstanding' = [outstanding EXCEPT ![id] =
                              [request |-> q, nth |-> Len(sentFrames["host"]) + 1]],
           UNCHANGED <<connection, sharedKey, nextReceive, gotFrames, serving, answered>>
    PROVE  ChannelInv'
  <1> DEFINE m == [form |-> "request", id |-> id, request |-> q]
  <1>0. PICK nth : nth = Len(sentFrames["host"]) + 1
    OBVIOUS
  <1>a. ChannelTypes /\ FramesNumbered /\ FramesReceived /\ RequestsServed /\ EntriesKept
        /\ AnswersReceived /\ AnsweredByItsResponse
    BY DEF ChannelInv
  <1>b. m \in Messages /\ "host" \in Endpoints /\ "broker" \in Endpoints /\ Peer("host") = "broker"
        /\ Peer("broker") = "host"
    BY DEF Messages, Endpoints, Peer
  <1>c. Appended("host", m)
    BY <1>b, EncodeAppends
  <1>d. nth \in Nat /\ nth # 0 /\ Len(sentFrames'["host"]) = nth
    BY <1>0, <1>c DEF Appended
  <1>e. [request |-> q, nth |-> nth] \in ChannelEntries
    BY <1>d DEF ChannelEntries
  <1>f. /\ outstanding'[id] = [request |-> q, nth |-> nth]
        /\ \A i \in RequestIds : i # id => outstanding'[i] = outstanding[i]
        /\ outstanding[id] = NoRequest
    BY <1>0, <1>a DEF ChannelTypes, Unused
  <1>g. /\ Responses' = Responses /\ \A k : Told(k)' = Told(k)
        /\ \A n \in 1 .. Len(sentFrames["host"]) : Asked(n)' = Asked(n)
        /\ Asked(nth)' = m
    <2>1. sentFrames'["broker"] = sentFrames["broker"]
      BY <1>b, <1>c DEF Appended
    <2>2. Responses' = Responses /\ \A k : Told(k)' = Told(k)
      BY <2>1 DEF Responses, Told
    <2>3. \A n \in 1 .. Len(sentFrames["host"]) : Asked(n)' = Asked(n)
      BY <1>c DEF Appended, Asked
    <2>4. Asked(nth)' = m
      BY <1>0, <1>c DEF Appended, Asked, Frame
    <2> QED BY <2>2, <2>3, <2>4
  <1>h. /\ 1 .. Len(sentFrames'["host"]) = (1 .. Len(sentFrames["host"])) \cup {nth}
        /\ nth \notin 1 .. Len(sentFrames["host"])
    BY <1>0, <1>c, <1>d DEF Appended
  <1> HIDE DEF m
  <1>1. ChannelTypes'
    BY <1>0, <1>a, <1>c, <1>e DEF ChannelTypes, Appended
  <1>2. FramesNumbered' /\ FramesReceived'
    BY <1>b, EncodeKeepsFrames DEF m
  <1>i. Len(gotFrames["broker"]) <= Len(sentFrames["host"]) /\ Len(gotFrames["broker"]) \in Nat
    BY <1>a, <1>b DEF FramesReceived, ChannelTypes
  <1>3. RequestsServed'
    <2>1. 1 .. Len(gotFrames["broker"]) \subseteq 1 .. Len(sentFrames["host"])
      BY <1>i, <1>c DEF Appended
    <2> QED BY <1>a, <1>g, <2>1 DEF RequestsServed
  <1>4. EntriesKept'
    <2>1. ASSUME NEW n \in 1 .. Len(sentFrames'["host"]),
                 \A k \in Responses' : k <= nextReceive'["host"] => Told(k)'.for # n
          PROVE  outstanding'[Asked(n)'.id] # NoRequest /\ outstanding'[Asked(n)'.id].nth = n
      <3>1. CASE n = nth
        BY <3>1, <1>e, <1>f, <1>g, EntryIsARequest DEF m
      <3>2. CASE n \in 1 .. Len(sentFrames["host"])
        <4>1. \A k \in Responses : k <= nextReceive["host"] => Told(k).for # n
          BY <2>1, <1>g
        <4>2. outstanding[Asked(n).id] # NoRequest /\ outstanding[Asked(n).id].nth = n
          BY <3>2, <4>1, <1>a DEF EntriesKept
        <4>3. Asked(n).id \in RequestIds /\ Asked(n)' = Asked(n)
          BY <3>2, <1>g, AskedHasId
        <4> QED BY <4>2, <4>3, <1>f
      <3> QED BY <3>1, <3>2, <1>h
    <2>2. ASSUME NEW i \in RequestIds, outstanding'[i] # NoRequest, outstanding'[i].nth # 0
          PROVE  outstanding'[i].nth \in 1 .. Len(sentFrames'["host"]) /\ sentFrames'["host"][outstanding'[i].nth].message.id = i
      <3>1. CASE i = id
        BY <3>1, <1>f, <1>g, <1>h DEF m, Asked
      <3>2. CASE i # id
        BY <2>2, <3>2, <1>a, <1>f, <1>g, <1>h DEF EntriesKept, Asked
      <3> QED BY <3>1, <3>2
    <2> QED BY <2>1, <2>2 DEF EntriesKept, Asked
  <1>5. AnswersReceived'
    BY <1>a, <1>g, <1>h DEF AnswersReceived
  <1>6. AnsweredByItsResponse'
    <2>1. \A c \in answered : c.entry.nth # nth
      BY <1>a, <1>h DEF AnswersReceived
    <2> QED BY <1>a, <1>f, <2>1 DEF AnsweredByItsResponse
  <1> QED BY <1>1, <1>2, <1>3, <1>4, <1>5, <1>6 DEF ChannelInv

(* The broker takes the request that follows.                              *)
LEMMA RequestReceived ==
    ASSUME ChannelInv, NEW f \in AllFrames, BrokerReceives(f)
    PROVE  ChannelInv'
  <1>a. ChannelTypes /\ FramesNumbered /\ FramesReceived /\ RequestsServed /\ EntriesKept
        /\ AnswersReceived /\ AnsweredByItsResponse
    BY DEF ChannelInv
  <1>b. "host" \in Endpoints /\ "broker" \in Endpoints /\ Peer("host") = "broker"
        /\ Peer("broker") = "host"
    BY DEF Endpoints, Peer
  <1> DEFINE nth == Len(gotFrames["broker"]) + 1
             q == [id |-> f.message.id, nth |-> nth]
  <1>c. Accepted("broker", f)
    BY <1>b, DecodeAccepts DEF BrokerReceives
  <1>d. /\ nth \in 1 .. Len(sentFrames["host"])
        /\ Len(gotFrames'["broker"]) = nth
        /\ f.message = Asked(nth)
        /\ nth \notin 1 .. Len(gotFrames["broker"])
        /\ 1 .. Len(gotFrames["broker"]) \subseteq 1 .. nth
    BY <1>b, <1>c DEF Accepted, Asked
  <1>e. q \in [id : RequestIds, nth : Nat] /\ q.nth = nth /\ q.id = Asked(nth).id
    BY <1>d, AskedHasId
  <1>f. serving' = serving \cup {q}
    BY <1>d DEF BrokerReceives
  <1>g. /\ Responses' = Responses /\ \A k : Told(k)' = Told(k) /\ Asked(k)' = Asked(k)
        /\ nextReceive'["host"] = nextReceive["host"]
    BY <1>b, <1>c DEF Accepted, BrokerReceives, Responses, Told, Asked
  <1>h. UNCHANGED <<connection, sharedKey, nextSend, sentFrames, outstanding, answered>>
    BY DEF BrokerReceives
  <1> HIDE DEF nth, q
  <1>1. ChannelTypes'
    BY <1>a, <1>c, <1>e, <1>f, <1>h DEF ChannelTypes, Accepted
  <1>2. FramesNumbered' /\ FramesReceived'
    BY <1>b, <1>h, DecodeKeepsFrames DEF BrokerReceives
  <1>3. RequestsServed'
    <2>1. nth \in 1 .. nth
      BY <1>d
    <2>2. \A k \in Responses : Told(k).for # nth
      BY <1>a, <1>d DEF RequestsServed
    <2> QED BY <1>a, <1>d, <1>e, <1>f, <1>g, <2>1, <2>2 DEF RequestsServed
  <1>4. EntriesKept' /\ AnswersReceived' /\ AnsweredByItsResponse'
    BY <1>a, <1>g, <1>h DEF EntriesKept, AnswersReceived, AnsweredByItsResponse
  <1> QED BY <1>1, <1>2, <1>3, <1>4 DEF ChannelInv

(* Nothing that the broker sends disturbs what it sent before.             *)
LEMMA BrokerSends ==
    ASSUME ChannelInv, NEW m \in Messages, NEW j, j = Len(sentFrames["broker"]) + 1,
           Encodes("broker", m, TRUE), Encode("broker", m),
           UNCHANGED <<sharedKey, nextReceive, gotFrames>>
    PROVE  /\ FramesNumbered' /\ FramesReceived'
           /\ sentFrames' \in [Endpoints -> Seq(Frames)] /\ nextSend' \in [Endpoints -> 0 .. MaxSequence]
           /\ sentFrames'["host"] = sentFrames["host"] /\ \A n : Asked(n)' = Asked(n)
           /\ \A k \in 1 .. Len(sentFrames["broker"]) : Told(k)' = Told(k)
           /\ Told(j)' = m
           /\ Responses' = Responses \cup {k \in {j} : m.form = "response"}
           /\ j \notin Responses /\ j \in Nat /\ j > nextReceive["host"]
  <1>a. "host" \in Endpoints /\ "broker" \in Endpoints /\ Peer("host") = "broker"
        /\ Peer("broker") = "host"
    BY DEF Endpoints, Peer
  <1>b. Appended("broker", m)
    BY <1>a, EncodeAppends
  <1>1. FramesNumbered' /\ FramesReceived'
    BY <1>a, EncodeKeepsFrames
  <1>2. sentFrames'["host"] = sentFrames["host"] /\ \A n : Asked(n)' = Asked(n)
    BY <1>a, <1>b DEF Appended, Asked
  <1>3. \A k \in 1 .. Len(sentFrames["broker"]) : Told(k)' = Told(k)
    BY <1>b DEF Appended, Told
  <1>4. Told(j)' = m
    BY <1>b DEF Appended, Told, Frame
  <1>5. /\ 1 .. Len(sentFrames'["broker"]) = (1 .. Len(sentFrames["broker"])) \cup {j}
        /\ j \notin 1 .. Len(sentFrames["broker"]) /\ j \in Nat
    BY <1>b DEF Appended
  <1>6. Responses' = Responses \cup {k \in {j} : m.form = "response"}
    BY <1>3, <1>4, <1>5 DEF Responses
  <1>7. j \notin Responses /\ j > nextReceive["host"]
    BY <1>a, <1>5 DEF Responses, ChannelInv, FramesReceived, ChannelTypes
  <1> QED BY <1>1, <1>2, <1>3, <1>4, <1>5, <1>6, <1>7, <1>b DEF Appended

(* The broker answers a request that it serves.                            *)
LEMMA ResponseSent ==
    ASSUME ChannelInv, NEW q \in serving, NEW a \in Answers, BrokerAnswers(q, a)
    PROVE  ChannelInv'
  <1> DEFINE m == [form |-> "response", id |-> q.id, response |-> a, for |-> q.nth]
  <1>a. ChannelTypes /\ FramesNumbered /\ FramesReceived /\ RequestsServed /\ EntriesKept
        /\ AnswersReceived /\ AnsweredByItsResponse
    BY DEF ChannelInv
  <1>b. q.id \in RequestIds /\ q.nth \in Nat
    BY <1>a DEF ChannelTypes
  <1>c. m \in Messages /\ m.form = "response" /\ m.id = q.id /\ m.for = q.nth
    BY <1>b DEF Messages
  <1>d. PICK j : j = Len(sentFrames["broker"]) + 1
    OBVIOUS
  <1>e. /\ Encodes("broker", m, TRUE) /\ Encode("broker", m) /\ serving' = serving \ {q}
        /\ UNCHANGED <<connection, sharedKey, nextReceive, gotFrames, outstanding, answered>>
    BY DEF BrokerAnswers
  <1> HIDE DEF m
  <1>f. /\ FramesNumbered' /\ FramesReceived'
        /\ sentFrames' \in [Endpoints -> Seq(Frames)] /\ nextSend' \in [Endpoints -> 0 .. MaxSequence]
        /\ sentFrames'["host"] = sentFrames["host"] /\ \A n : Asked(n)' = Asked(n)
        /\ \A k \in 1 .. Len(sentFrames["broker"]) : Told(k)' = Told(k)
        /\ Told(j)' = m
        /\ Responses' = Responses \cup {k \in {j} : m.form = "response"}
        /\ j \notin Responses /\ j \in Nat /\ j > nextReceive["host"]
    BY <1>c, <1>d, <1>e, BrokerSends
  <1>g. Responses' = Responses \cup {j} /\ \A k \in Responses : Told(k)' = Told(k)
    BY <1>c, <1>f DEF Responses
  <1>1. ChannelTypes'
    BY <1>a, <1>e, <1>f DEF ChannelTypes
  <1>2. RequestsServed'
    <2>1. \A p \in serving' : p.nth # q.nth
      <3>1. ASSUME NEW p \in serving', p.nth = q.nth PROVE FALSE
        <4>1. p \in serving /\ p # q /\ p.id = q.id
          BY <3>1, <1>a, <1>e DEF RequestsServed
        <4>2. p \in [id : RequestIds, nth : Nat] /\ q \in [id : RequestIds, nth : Nat]
          BY <4>1, <1>a DEF ChannelTypes
        <4> QED BY <3>1, <4>1, <4>2
      <3> QED BY <3>1
    <2>2. \A p \in serving' :
            /\ p.nth \in 1 .. Len(gotFrames'["broker"])
            /\ p.id = Asked(p.nth)'.id
            /\ \A k \in Responses' : Told(k)'.for # p.nth
      BY <2>1, <1>a, <1>c, <1>e, <1>f, <1>g DEF RequestsServed
    <2>3. /\ q.nth \in 1 .. Len(gotFrames["broker"]) /\ q.id = Asked(q.nth).id
          /\ \A k \in Responses : Told(k).for # q.nth
      BY <1>a DEF RequestsServed
    <2>4. \A n : Asked(n)' = Asked(n)
      BY <1>f
    <2>5. Asked(m.for) = Asked(q.nth)
      BY <1>c
    <2>6. ASSUME NEW k \in Responses'
          PROVE  /\ Told(k)'.for \in 1 .. Len(gotFrames["broker"])
                 /\ Told(k)'.id = sentFrames'["host"][Told(k)'.for].message.id
                 /\ \A i \in Responses' : Told(i)'.for = Told(k)'.for => i = k
      <3>1. CASE k = j
        BY <3>1, <2>3, <1>c, <1>f, <1>g DEF Asked
      <3>2. CASE k \in Responses
        <4>1. /\ Told(k).for \in 1 .. Len(gotFrames["broker"])
              /\ Told(k).id = Asked(Told(k).for).id
              /\ \A i \in Responses : Told(i).for = Told(k).for => i = k
          BY <3>2, <1>a DEF RequestsServed
        <4> QED BY <3>2, <4>1, <2>3, <1>c, <1>f, <1>g DEF Asked
      <3> QED BY <3>1, <3>2, <1>g
    <2> QED BY <2>2, <2>6, <1>e DEF RequestsServed, Asked
  <1>3. EntriesKept' /\ AnswersReceived' /\ AnsweredByItsResponse'
    <2>1. \A k \in Responses' : k <= nextReceive["host"] => k \in Responses
      BY <1>a, <1>f, <1>g DEF ChannelTypes, Endpoints
    <2>2. EntriesKept'
      <3>1. ASSUME NEW n \in 1 .. Len(sentFrames["host"]),
                   \A k \in Responses' : k <= nextReceive'["host"] => Told(k)'.for # n
            PROVE  outstanding[Asked(n).id] # NoRequest /\ outstanding[Asked(n).id].nth = n
        <4>1. \A k \in Responses : k <= nextReceive["host"] => Told(k).for # n
          <5>1. \A k \in Responses : k \in Responses' /\ Told(k)' = Told(k)
            BY <1>g
          <5> QED BY <1>e, <3>1, <5>1
        <4> QED BY <1>a, <4>1 DEF EntriesKept
      <3>2. \A id \in RequestIds : outstanding[id] # NoRequest /\ outstanding[id].nth # 0 =>
              /\ outstanding[id].nth \in 1 .. Len(sentFrames["host"])
              /\ Asked(outstanding[id].nth).id = id
        BY <1>a DEF EntriesKept
      <3> QED BY <1>e, <1>f, <3>1, <3>2 DEF EntriesKept
    <2> QED BY <2>2, <1>a, <1>e, <1>f, <1>g DEF AnswersReceived, AnsweredByItsResponse
  <1> QED BY <1>1, <1>2, <1>3, <1>f DEF ChannelInv

(* An event is no response.                                                *)
LEMMA EventSent ==
    ASSUME ChannelInv, BrokerReports
    PROVE  ChannelInv'
  <1> DEFINE m == [form |-> "event"]
  <1>a. ChannelTypes /\ FramesNumbered /\ FramesReceived /\ RequestsServed /\ EntriesKept
        /\ AnswersReceived /\ AnsweredByItsResponse
    BY DEF ChannelInv
  <1>c. m \in Messages /\ m.form # "response"
    BY DEF Messages
  <1>d. PICK j : j = Len(sentFrames["broker"]) + 1
    OBVIOUS
  <1>e. /\ Encodes("broker", m, TRUE) /\ Encode("broker", m)
        /\ UNCHANGED <<connection, sharedKey, nextReceive, gotFrames, outstanding, serving, answered>>
    BY DEF BrokerReports
  <1> HIDE DEF m
  <1>f. /\ FramesNumbered' /\ FramesReceived'
        /\ sentFrames' \in [Endpoints -> Seq(Frames)] /\ nextSend' \in [Endpoints -> 0 .. MaxSequence]
        /\ sentFrames'["host"] = sentFrames["host"] /\ \A n : Asked(n)' = Asked(n)
        /\ \A k \in 1 .. Len(sentFrames["broker"]) : Told(k)' = Told(k)
        /\ Responses' = Responses \cup {k \in {j} : m.form = "response"}
    BY <1>c, <1>d, <1>e, BrokerSends
  <1>g. Responses' = Responses /\ \A k \in Responses : Told(k)' = Told(k)
    BY <1>c, <1>f DEF Responses
  <1>1. ChannelTypes'
    BY <1>a, <1>e, <1>f DEF ChannelTypes
  <1>2. RequestsServed'
    <2>1. serving' = serving /\ gotFrames' = gotFrames /\ \A n : Asked(n)' = Asked(n)
      BY <1>e, <1>f
    <2>2. (\A q \in serving :
             /\ q.nth \in 1 .. Len(gotFrames["broker"]) /\ q.id = Asked(q.nth).id
             /\ \A k \in Responses : Told(k).for # q.nth)'
      BY <1>a, <1>g, <2>1 DEF RequestsServed
    <2>3. (\A k \in Responses :
             /\ Told(k).for \in 1 .. Len(gotFrames["broker"])
             /\ Told(k).id = Asked(Told(k).for).id
             /\ \A i \in Responses : Told(i).for = Told(k).for => i = k)'
      BY <1>a, <1>g, <2>1 DEF RequestsServed
    <2> QED BY <2>2, <2>3 DEF RequestsServed
  <1>3. EntriesKept' /\ AnswersReceived' /\ AnsweredByItsResponse'
    <2>1. EntriesKept'
      <3>1. (\A n \in 1 .. Len(sentFrames["host"]) :
              (\A k \in Responses : k <= nextReceive["host"] => Told(k).for # n) =>
                  /\ outstanding[Asked(n).id] # NoRequest
                  /\ outstanding[Asked(n).id].nth = n)'
        BY <1>a, <1>e, <1>f, <1>g DEF EntriesKept
      <3> QED BY <3>1, <1>a, <1>e, <1>f DEF EntriesKept
    <2>2. AnswersReceived'
      BY <1>a, <1>e, <1>f, <1>g DEF AnswersReceived
    <2> QED BY <2>1, <2>2, <1>a, <1>e DEF AnsweredByItsResponse
  <1> QED BY <1>1, <1>2, <1>3, <1>f DEF ChannelInv

(* A response that is expected is about the surface of its request.        *)
LEMMA ExpectedSurface ==
    ASSUME NEW e, NEW a, ValidResponse(a), Expected(e, a)
    PROVE  SurfaceOfRequest(e.request.kind) \in SurfaceOfResponse(a)
  <1> DEFINE k == e.request.kind
  <1>0. SurfaceOfRequest(k) \in {"process", "pty", "none"}
    BY DEF SurfaceOfRequest
  <1>1. CASE a.type \in {"Error", "Handshake", "SessionCreated", "Acknowledged", "PublicCatalog", "Pong"}
    <2>1. SurfaceOfResponse(a) = {"none", "process", "pty"}
      BY <1>1 DEF SurfaceOfResponse
    <2> QED BY <1>0, <2>1
  <1>2. CASE a.type = "OperationError"
    <2>1. k # "Handshake" /\ OperationErrorAllowed(k, a)
      BY <1>2 DEF Expected, HandshakeAllowed, ResponseAllowed, AnswerOf
    <2>2. SubjectMatches(a)
      BY <1>2 DEF ValidResponse
    <2>3. SurfaceOfResponse(a) = {IF a.subject \in {"process", "process registry"} THEN "process" ELSE "pty"}
      BY <1>2 DEF SurfaceOfResponse
    <2>4. CASE a.code \in ProcessCodes /\ a.subject = "process"
      <3>1. k \in ProcessKinds
        BY <2>1, <2>4 DEF OperationErrorAllowed, FailureCodes, ProcessCodes, ProcessKinds
      <3>2. k \notin PtyKinds
        BY <3>1 DEF PtyKinds, ProcessKinds
      <3>3. SurfaceOfResponse(a) = {"process"}
        BY <2>3, <2>4
      <3> QED BY <3>1, <3>2, <3>3 DEF SurfaceOfRequest
    <2>5. CASE a.code \in PtyCodes /\ a.subject = "pty"
      <3>1. k \in PtyKinds
        BY <2>1, <2>5 DEF OperationErrorAllowed, FailureCodes, PtyCodes, PtyKinds
      <3>2. k \notin ProcessKinds
        BY <3>1 DEF PtyKinds, ProcessKinds
      <3> QED BY <2>3, <2>5, <3>1, <3>2 DEF SurfaceOfRequest
    <2>6. CASE a.code = "RegistryFull" /\ a.subject \in {"process registry", "pty registry"}
      BY <2>1, <2>3, <2>6 DEF OperationErrorAllowed, RegistrySubjectMatches, SurfaceOfRequest,
                              ProcessKinds, PtyKinds
    <2> QED BY <2>2, <2>4, <2>5, <2>6 DEF SubjectMatches
  <1>3. CASE a.type \in {"Process", "Processes", "ProcessRead"}
    <2>1. k \in ProcessKinds
      BY <1>3 DEF Expected, HandshakeAllowed, ResponseAllowed, AnswerOf, ProcessKinds
    <2>2. SurfaceOfResponse(a) = {"process"}
      BY <1>3 DEF SurfaceOfResponse
    <2>3. k \notin PtyKinds
      BY <2>1 DEF PtyKinds, ProcessKinds
    <2> QED BY <2>1, <2>2, <2>3 DEF SurfaceOfRequest
  <1>4. CASE a.type \in {"Pty", "Ptys", "PtyRead"}
    <2>1. k \in PtyKinds
      BY <1>4 DEF Expected, HandshakeAllowed, ResponseAllowed, AnswerOf, PtyKinds
    <2>2. k \notin ProcessKinds
      BY <2>1 DEF PtyKinds, ProcessKinds
    <2>3. SurfaceOfResponse(a) = {"pty"}
      BY <1>4 DEF SurfaceOfResponse
    <2> QED BY <2>1, <2>2, <2>3 DEF SurfaceOfRequest
  <1> QED BY <1>1, <1>2, <1>3, <1>4 DEF Expected, HandshakeAllowed, ResponseAllowed, AnswerOf

(* The host takes what follows; the request that an accepted response was  *)
(* sent for is the one that is outstanding under its id.                   *)
LEMMA ResponseReceived ==
    ASSUME ChannelInv, NEW f \in AllFrames, HostReceives(f)
    PROVE  ChannelInv'
  <1>a. ChannelTypes /\ FramesNumbered /\ FramesReceived /\ RequestsServed /\ EntriesKept
        /\ AnswersReceived /\ AnsweredByItsResponse
    BY DEF ChannelInv
  <1>b. "host" \in Endpoints /\ "broker" \in Endpoints /\ Peer("host") = "broker"
        /\ Peer("broker") = "host"
    BY DEF Endpoints, Peer
  <1>c. Accepted("host", f) /\ Len(gotFrames["host"]) = nextReceive["host"]
    BY <1>a, <1>b, DecodeAccepts DEF HostReceives, FramesReceived
  <1>d. PICK j : j = nextReceive["host"] + 1
    OBVIOUS
  <1>e. /\ j \in 1 .. Len(sentFrames["broker"]) /\ nextReceive'["host"] = j
        /\ f.message = Told(j)
        /\ nextReceive["host"] \in Nat
    BY <1>b, <1>c, <1>d DEF Accepted, Told
  <1>f. UNCHANGED <<connection, sharedKey, nextSend, sentFrames, serving>>
    BY DEF HostReceives
  <1>g. /\ Responses' = Responses /\ \A k : Told(k)' = Told(k) /\ Asked(k)' = Asked(k)
        /\ gotFrames'["broker"] = gotFrames["broker"]
    BY <1>b, <1>c, <1>f DEF Accepted, Responses, Told, Asked
  <1>h. FramesNumbered' /\ FramesReceived'
    BY <1>b, <1>f, DecodeKeepsFrames DEF HostReceives
  <1>i. \A k \in Responses : k \in Nat /\ (k <= nextReceive'["host"] <=> k <= nextReceive["host"] \/ k = j)
    BY <1>d, <1>e DEF Responses
  <1>1. RequestsServed'
    BY <1>a, <1>f, <1>g DEF RequestsServed
  <1>2. CASE UNCHANGED <<outstanding, answered>>
    <2>1. ChannelTypes'
      BY <1>2, <1>a, <1>c, <1>f DEF ChannelTypes, Accepted
    <2>2. EntriesKept'
      <3>1. ASSUME NEW n \in 1 .. Len(sentFrames["host"]),
                   \A k \in Responses : k <= nextReceive'["host"] => Told(k).for # n
            PROVE  outstanding[Asked(n).id] # NoRequest /\ outstanding[Asked(n).id].nth = n
        BY <3>1, <1>a, <1>i DEF EntriesKept
      <3> QED BY <3>1, <1>2, <1>a, <1>f, <1>g DEF EntriesKept
    <2>3. AnswersReceived' /\ AnsweredByItsResponse'
      BY <1>2, <1>a, <1>f, <1>g, <1>i DEF AnswersReceived, AnsweredByItsResponse
    <2> QED BY <1>1, <1>h, <2>1, <2>2, <2>3 DEF ChannelInv
  <1>3. CASE /\ j \in Responses
             /\ LET entry == outstanding[Told(j).id]
                IN  /\ entry # NoRequest /\ Expected(entry, Told(j).response)
                    /\ outstanding' = [outstanding EXCEPT ![Told(j).id] = NoRequest]
                    /\ answered' = answered \cup {[entry |-> entry, answer |-> Told(j)]}
    <2>a. PICK id \in RequestIds : id = Told(j).id
      BY <1>3, ToldIsResponse
    <2>b. PICK n : n = Told(j).for
      OBVIOUS
    <2>c. PICK entry \in ChannelEntries : entry = outstanding[id]
      BY <1>3, <1>a, <2>a DEF ChannelTypes
    <2>d. /\ n \in 1 .. Len(gotFrames["broker"]) /\ id = Asked(n).id
          /\ \A k \in Responses : Told(k).for = n => k = j
      BY <1>3, <1>a, <2>a, <2>b DEF RequestsServed
    <2>e. n \in 1 .. Len(sentFrames["host"])
      BY <2>d, <1>a, <1>b DEF FramesReceived, ChannelTypes
    <2>f. \A k \in Responses : k <= nextReceive["host"] => Told(k).for # n
      BY <2>d, <1>d, <1>e
    <2>1. entry.nth = n
      BY <2>c, <2>d, <2>e, <2>f, <1>a DEF EntriesKept
    <2>g. /\ outstanding' = [outstanding EXCEPT ![id] = NoRequest]
          /\ answered' = answered \cup {[entry |-> entry, answer |-> Told(j)]}
          /\ Expected(entry, Told(j).response)
      BY <1>3, <2>a, <2>c
    <2>h. outstanding'[id] = NoRequest /\ \A i \in RequestIds : i # id => outstanding'[i] = outstanding[i]
      BY <2>g, <1>a DEF ChannelTypes
    <2>2. ChannelTypes'
      <3>1. Told(j) \in Messages
        BY <1>3, ToldIsResponse
      <3>2. outstanding' \in [RequestIds -> ChannelEntries \cup {NoRequest}]
        BY <2>g, <1>a DEF ChannelTypes
      <3>3. answered' \subseteq [entry : ChannelEntries, answer : Messages]
        BY <2>g, <3>1, <1>a DEF ChannelTypes
      <3> QED BY <3>2, <3>3, <1>a, <1>c, <1>f DEF ChannelTypes, Accepted
    <2>3. EntriesKept'
      <3>1. ASSUME NEW p \in 1 .. Len(sentFrames["host"]),
                   \A k \in Responses : k <= nextReceive'["host"] => Told(k).for # p
            PROVE  outstanding'[Asked(p).id] # NoRequest /\ outstanding'[Asked(p).id].nth = p
        <4>1. p # n
          BY <3>1, <1>3, <1>i, <2>b
        <4>2. outstanding[Asked(p).id] # NoRequest /\ outstanding[Asked(p).id].nth = p
          BY <3>1, <1>a, <1>i DEF EntriesKept
        <4>3. Asked(p).id # id /\ Asked(p).id \in RequestIds
          BY <4>1, <4>2, <2>1, <2>c, AskedHasId
        <4> QED BY <4>2, <4>3, <2>h
      <3>2. \A i \in RequestIds : outstanding'[i] # NoRequest => outstanding'[i] = outstanding[i]
        BY <2>h
      <3> QED BY <3>1, <3>2, <1>a, <1>f, <1>g DEF EntriesKept
    <2>4. AnswersReceived'
      <3>1. n \in 1 .. Len(sentFrames'["host"]) /\ j \in Responses' /\ j <= nextReceive'["host"]
        BY <2>e, <1>3, <1>f, <1>g, <1>i
      <3>2. \A c \in answered' : c \in answered \/ (c.entry.nth = n /\ c.answer = Told(j))
        BY <2>g, <2>1
      <3> QED BY <3>1, <3>2, <1>a, <1>f, <1>g, <1>i DEF AnswersReceived
    <2>5. AnsweredByItsResponse'
      <3> DEFINE new == [entry |-> entry, answer |-> Told(j)]
      <3>1. SurfaceOfRequest(entry.request.kind) \in SurfaceOfResponse(Told(j).response)
        BY <2>g, <1>3, ToldIsResponse, ExpectedSurface
      <3>2. \A c \in answered : c.entry.nth # n
        BY <2>f, <1>a DEF AnswersReceived, AnsweredByItsResponse
      <3>3. \A i \in RequestIds : outstanding'[i] # NoRequest =>
               outstanding'[i] = outstanding[i] /\ outstanding'[i].nth # n
        <4> SUFFICES ASSUME NEW i \in RequestIds, outstanding'[i] # NoRequest
                     PROVE  outstanding'[i] = outstanding[i] /\ outstanding[i].nth # n
          OBVIOUS
        <4>1. i # id /\ outstanding'[i] = outstanding[i]
          BY <2>h
        <4> QED BY <4>1, <2>d, <2>e, <1>a DEF EntriesKept
      <3>4. new.entry.nth = n /\ new.answer.for = n /\ new.entry = entry /\ new.answer = Told(j)
        BY <2>1, <2>b
      <3>5. answered' = answered \cup {new}
        BY <2>g
      <3> HIDE DEF new
      <3>6. ASSUME NEW c \in answered'
            PROVE  /\ c.entry.nth = c.answer.for
                   /\ SurfaceOfRequest(c.entry.request.kind) \in SurfaceOfResponse(c.answer.response)
                   /\ \A d \in answered' : c.entry.nth = d.entry.nth => c = d
                   /\ \A i \in RequestIds : outstanding'[i] # NoRequest => outstanding'[i].nth # c.entry.nth
        <4>1. CASE c = new
          BY <4>1, <3>1, <3>2, <3>3, <3>4, <3>5
        <4>2. CASE c \in answered
          BY <4>2, <3>2, <3>3, <3>4, <3>5, <1>a DEF AnsweredByItsResponse
        <4> QED BY <4>1, <4>2, <3>5
      <3> QED BY <3>6 DEF AnsweredByItsResponse
    <2> QED BY <1>1, <1>h, <2>2, <2>3, <2>4, <2>5 DEF ChannelInv
  <1>4. UNCHANGED <<outstanding, answered>> \/
        /\ j \in Responses
        /\ LET entry == outstanding[Told(j).id]
           IN  /\ entry # NoRequest /\ Expected(entry, Told(j).response)
               /\ outstanding' = [outstanding EXCEPT ![Told(j).id] = NoRequest]
               /\ answered' = answered \cup {[entry |-> entry, answer |-> Told(j)]}
    BY <1>e DEF HostReceives, CompleteRequest, Responses
  <1> QED BY <1>2, <1>3, <1>4

-----------------------------------------------------------------------------
(* Every step of the endpoints and of the carrier keeps the invariant.     *)
LEMMA ChannelStep == ChannelInv /\ [ChannelNext]_channelVars => ChannelInv'
  <1> SUFFICES ASSUME ChannelInv, [ChannelNext]_channelVars PROVE ChannelInv'
    OBVIOUS
  <1>a. connection \in DOMAIN Carries
    BY DEF ChannelInv, ChannelTypes
  <1>1. ASSUME NEW id \in RequestIds, NEW q \in Carries[connection].requests, SendRequest(id, q)
        PROVE  ChannelInv'
    <2> DEFINE m == [form |-> "request", id |-> id, request |-> q]
    <2>1. q \in Requests
      BY <1>a DEF Requests
    <2>2. CASE Encodes("host", m, q.fits)
      <3>1. Encodes("host", m, TRUE) /\ Encode("host", m)
        BY <1>1, <2>2 DEF SendRequest, Encodes
      <3> QED BY <1>1, <2>1, <2>2, <3>1, SentRequest DEF SendRequest
    <2>3. CASE ~Encodes("host", m, q.fits)
      BY <1>1, <2>1, <2>3, RefusedRequest DEF SendRequest
    <2> QED BY <2>2, <2>3
  <1>2. ASSUME NEW q \in serving, NEW a \in Carries[connection].answers, BrokerAnswers(q, a)
        PROVE  ChannelInv'
    BY <1>a, <1>2, ResponseSent DEF Answers
  <1>3. CASE BrokerReports
    BY <1>3, EventSent
  <1>4. ASSUME NEW f \in AllFrames, BrokerReceives(f) \/ HostReceives(f)
        PROVE  ChannelInv'
    BY <1>4, RequestReceived, ResponseReceived
  <1>5. CASE UNCHANGED channelVars
    <2>1. ChannelTypes' /\ FramesNumbered' /\ FramesReceived'
      BY <1>5 DEF channelVars, ChannelInv, ChannelTypes, FramesNumbered, FramesReceived, SendKey, ValidFor
    <2>2. RequestsServed'
      BY <1>5 DEF channelVars, ChannelInv, RequestsServed, Responses, Asked, Told
    <2>3. EntriesKept'
      BY <1>5 DEF channelVars, ChannelInv, EntriesKept, Responses, Asked, Told
    <2>4. AnswersReceived'
      BY <1>5 DEF channelVars, ChannelInv, AnswersReceived, Responses, Told
    <2>5. AnsweredByItsResponse'
      BY <1>5 DEF channelVars, ChannelInv, AnsweredByItsResponse
    <2> QED BY <2>1, <2>2, <2>3, <2>4, <2>5 DEF ChannelInv
  <1> QED BY <1>1, <1>2, <1>3, <1>4, <1>5 DEF ChannelNext

(* The invariant says of the frames what DeliveredInOrder does.            *)
LEMMA InvDelivers == ChannelInv => DeliveredInOrder
  <1> SUFFICES ASSUME ChannelInv, NEW r \in Endpoints
               PROVE  IsPrefix(gotFrames[r], sentFrames[Peer(r)])
    BY DEF DeliveredInOrder
  <1>1. /\ gotFrames[r] \in Seq(Frames) /\ sentFrames[Peer(r)] \in Seq(Frames)
        /\ Len(gotFrames[r]) <= Len(sentFrames[Peer(r)])
        /\ \A k \in 1 .. Len(gotFrames[r]) : gotFrames[r][k] = sentFrames[Peer(r)][k]
    BY PeerIsEndpoint DEF ChannelInv, ChannelTypes, FramesReceived
  <1>2. SubSeq(gotFrames[r], 1, Len(gotFrames[r])) = SubSeq(sentFrames[Peer(r)], 1, Len(gotFrames[r]))
    BY <1>1
  <1> QED BY <1>1, <1>2 DEF IsPrefix

(* For every set of ids, every bound on the sequence numbers and every     *)
(* sort of connection: requests and answers arrive in order and once, and  *)
(* a request is completed by its own answer (decode, insert,               *)
(* validate_and_complete).                                                 *)
THEOREM ChannelIsSound == ChannelSpec => []ChannelSound
  <1>1. ChannelInv => ChannelSound
    BY InvDelivers DEF ChannelSound, ChannelInv
  <1> QED BY <1>1, InitChannel, ChannelStep, PTL DEF ChannelSpec

(* An endpoint sends no more than its connection carries, and the host     *)
(* waits for requests that the connection may see.                         *)
ChannelBounds ==
    /\ \A r \in Endpoints : Len(sentFrames[r]) <= Carries[connection].messages
    /\ \A id \in RequestIds :
          outstanding[id] # NoRequest => outstanding[id].request \in Carries[connection].requests

(* Every step keeps to them.                                               *)
LEMMA ChannelBoundsKept ==
    ASSUME ChannelInv, ChannelBounds, [ChannelNext]_channelVars
    PROVE  ChannelBounds'
  <1>1. /\ connection \in DOMAIN Carries /\ Carries[connection].messages \in Nat
        /\ sentFrames \in [Endpoints -> Seq(Frames)] /\ \A r \in Endpoints : Len(sentFrames[r]) \in Nat
        /\ outstanding \in [RequestIds -> ChannelEntries \cup {NoRequest}]
    BY ChannelAssumption DEF ChannelInv, ChannelTypes
  <1>2. ASSUME NEW r \in Endpoints, NEW message, MaySend(r), Encode(r, message)
        PROVE  \A e \in Endpoints : Len(sentFrames'[e]) <= Carries[connection].messages
    <2>1. Len(sentFrames[r]) < Carries[connection].messages
      BY <1>2 DEF MaySend
    <2>2. Len(Append(sentFrames[r], Frame(r, message))) = Len(sentFrames[r]) + 1
      <3> DEFINE f == Frame(r, message)
      <3>1. sentFrames[r] \in Seq(Frames)
        BY <1>1
      <3> HIDE DEF f
      <3> QED BY <3>1
    <2>3. sentFrames' = [sentFrames EXCEPT ![r] = Append(sentFrames[r], Frame(r, message))]
      BY <1>2 DEF Encode
    <2> QED BY <1>1, <2>1, <2>2, <2>3 DEF ChannelBounds
  <1>3. ASSUME NEW id \in RequestIds, NEW q \in Carries[connection].requests, SendRequest(id, q)
        PROVE  ChannelBounds'
    <2>1. connection' = connection
      BY <1>3 DEF SendRequest
    <2>2. \A e \in Endpoints : Len(sentFrames'[e]) <= Carries[connection].messages
      <3>1. MaySend("host") /\ "host" \in Endpoints
        BY <1>3 DEF SendRequest, Endpoints
      <3>2. sentFrames' = sentFrames \/ Encode("host", [form |-> "request", id |-> id, request |-> q])
        BY <1>3 DEF SendRequest
      <3>3. CASE sentFrames' = sentFrames
        BY <3>3 DEF ChannelBounds
      <3>4. CASE Encode("host", [form |-> "request", id |-> id, request |-> q])
        BY <3>1, <3>4, <1>2
      <3> QED BY <3>2, <3>3, <3>4
    <2>3. PICK n : outstanding' = [outstanding EXCEPT ![id] = [request |-> q, nth |-> n]]
      BY <1>3 DEF SendRequest
    <2>4. \A i \in RequestIds : outstanding'[i] = outstanding[i] \/ outstanding'[i].request = q
      BY <1>1, <2>3
    <2> QED BY <2>1, <2>2, <2>4 DEF ChannelBounds
  <1>4. CASE /\ connection' = connection /\ outstanding' = outstanding
             /\ \A e \in Endpoints : Len(sentFrames'[e]) <= Carries[connection].messages
    BY <1>4 DEF ChannelBounds
  <1>5. ASSUME NEW q \in serving, NEW a \in Carries[connection].answers, BrokerAnswers(q, a)
        PROVE  ChannelBounds'
    <2>1. MaySend("broker") /\ "broker" \in Endpoints
          /\ Encode("broker", [form |-> "response", id |-> q.id, response |-> a, for |-> q.nth])
      BY <1>5 DEF BrokerAnswers, Endpoints
    <2> QED BY <1>5, <2>1, <1>2, <1>4 DEF BrokerAnswers
  <1>6. CASE BrokerReports
    <2>1. MaySend("broker") /\ "broker" \in Endpoints /\ Encode("broker", [form |-> "event"])
      BY <1>6 DEF BrokerReports, Endpoints
    <2> QED BY <1>6, <2>1, <1>2, <1>4 DEF BrokerReports
  <1>7. ASSUME NEW f \in AllFrames, BrokerReceives(f) PROVE ChannelBounds'
    BY <1>7, <1>4 DEF BrokerReceives, ChannelBounds
  <1>8. ASSUME NEW f \in AllFrames, HostReceives(f) PROVE ChannelBounds'
    <2>1. connection' = connection /\ sentFrames' = sentFrames
      BY <1>8 DEF HostReceives
    <2>2. outstanding' = outstanding \/ outstanding' = [outstanding EXCEPT ![f.message.id] = NoRequest]
      BY <1>8 DEF HostReceives, CompleteRequest
    <2>3. \A i \in RequestIds : outstanding'[i] \in {outstanding[i], NoRequest}
      BY <1>1, <2>2
    <2> QED BY <2>1, <2>3 DEF ChannelBounds
  <1>9. CASE UNCHANGED channelVars
    BY <1>9, <1>4 DEF channelVars, ChannelBounds
  <1> QED BY <1>3, <1>5, <1>6, <1>7, <1>8, <1>9 DEF ChannelNext

(* ChannelTypeOK is invariant for every set of ids, every bound on the     *)
(* sequence numbers and every sort of connection.                          *)
THEOREM ChannelTypesKept == ChannelSpec => []ChannelTypeOK
  <1>1. ChannelInit => ChannelBounds
    BY ChannelAssumption DEF ChannelInit, ChannelBounds
  <1>2. ChannelInv /\ ChannelBounds => ChannelTypeOK
    <2> SUFFICES ASSUME ChannelInv, ChannelBounds PROVE ChannelTypeOK
      OBVIOUS
    <2>1. ChannelTypes /\ FramesNumbered /\ MaxSequence \in Nat
      BY ChannelAssumption DEF ChannelInv
    <2>2. ASSUME NEW r \in Endpoints, NEW f \in Range(sentFrames[r]) PROVE f.sequence \in 0 .. MaxSequence
      <3>1. sentFrames[r] \in Seq(Frames) /\ nextSend[r] \in 0 .. MaxSequence
        BY <2>1 DEF ChannelTypes
      <3>2. PICK k \in 1 .. Len(sentFrames[r]) : f = sentFrames[r][k]
        BY <3>1 DEF Range
      <3>3. f.sequence = k - 1 /\ nextSend[r] = Len(sentFrames[r])
        BY <2>1, <3>2 DEF FramesNumbered
      <3> QED BY <2>1, <3>1, <3>2, <3>3
    <2> QED BY <2>1, <2>2 DEF ChannelTypes, ChannelBounds, ChannelTypeOK
  <1> QED BY <1>1, <1>2, InitChannel, ChannelStep, ChannelBoundsKept, PTL DEF ChannelSpec

-----------------------------------------------------------------------------
(***************************************************************************)
(* Dynamic modules, for any number of modules and of nested imports.       *)
(***************************************************************************)

(* A frame is an import or a call in progress.                             *)
ModuleFrames ==
    [word : {"import"}, spec : Specifiers, id : ModuleIds, caller : Languages]
        \cup [word : {"call"}, id : ModuleIds, caller : Languages, base : Nat]

(* The imports among the frames.                                           *)
ImportsIn(fs) == {i \in DOMAIN fs : fs[i].word = "import"}

(* The language states that the frames are in the middle of: the callers   *)
(* of the frames, from the outermost, and the current one.                 *)
Depths(fs) == 1 .. Len(fs) + 1
(* The serial number of the i-th of them.                                  *)
SerialAt(fs, lang, i) == IF i <= Len(fs) THEN fs[i].caller.serial ELSE lang.serial

(* They start at home, differ, and are among the n made so far.            *)
FramesNest(fs, lang, start, n) ==
    /\ SerialAt(fs, lang, 1) = start
    /\ \A i, j \in Depths(fs) : SerialAt(fs, lang, i) = SerialAt(fs, lang, j) => i = j
    /\ \A i \in Depths(fs) : SerialAt(fs, lang, i) \in 0 .. n

(* No module of the table is one of them, and no two modules are one.      *)
TableApart(fs, lang, mods, n) ==
    \A m \in ModuleIds : mods[m] # NotLoaded =>
        /\ mods[m].serial \in 0 .. n
        /\ \A i \in Depths(fs) : mods[m].serial # SerialAt(fs, lang, i)
        /\ \A k \in ModuleIds : mods[k] # NotLoaded /\ mods[k].serial = mods[m].serial => k = m

(* The marks that the imports set.                                         *)
MarksIn(fs) == UNION {{fs[i].spec, fs[i].id} : i \in ImportsIn(fs)}

(* The marks are the inherited ones and those of the imports, and each     *)
(* mark belongs to one of them.                                            *)
MarksNest(fs, marks, copied) ==
    /\ marks = copied \cup MarksIn(fs)
    /\ \A i \in ImportsIn(fs) : fs[i].spec \notin copied /\ fs[i].id \notin copied
    /\ \A i, j \in ImportsIn(fs) : fs[i].spec = fs[j].spec \/ fs[i].id = fs[j].id => i = j

(* A module that was loaded is in the table or in a call; one that is      *)
(* being imported is not in the table, and nothing inside the import       *)
(* touches it.                                                             *)
LoadedOnce(fs, mods, count) ==
    /\ \A m \in ModuleIds :
          /\ count[m] \in {0, 1}
          /\ count[m] = 1 => mods[m] # NotLoaded \/ \E i \in DOMAIN fs : fs[i].word = "call" /\ fs[i].id = m
    /\ \A i \in ImportsIn(fs) :
          /\ mods[fs[i].id] = NotLoaded
          /\ \A j \in DOMAIN fs : j > i => fs[j].id # fs[i].id

(* The inductive invariant, for one VM and for both.                       *)
VmInv(v) ==
    /\ frames[v] \in Seq(ModuleFrames)
    /\ FramesNest(frames[v], language[v], home[v], made)
    /\ TableApart(frames[v], language[v], modules[v], made)
    /\ MarksNest(frames[v], loading[v], inherited[v])
    /\ LoadedOnce(frames[v], modules[v], loads[v])

(* The inductive invariant.                                                *)
ModulesInv ==
    /\ ModuleTypeOK
    /\ frames \in [ModuleVMs -> Seq(ModuleFrames)] /\ home \in [ModuleVMs -> 0 .. MaxLanguages]
    /\ ~spawnedVm => frames["task"] = << >> /\ \A m \in ModuleIds : loads["task"][m] = 0
    /\ \A v \in ModuleVMs : VmInv(v)

-----------------------------------------------------------------------------
(* A new frame on top.                                                     *)
LEMMA PushedFrames ==
    ASSUME NEW fs \in Seq(ModuleFrames), NEW f \in ModuleFrames, NEW lang, NEW new, f.caller = lang
    PROVE  /\ Append(fs, f) \in Seq(ModuleFrames) /\ Len(Append(fs, f)) = Len(fs) + 1
           /\ Append(fs, f)[Len(fs) + 1] = f
           /\ \A i \in DOMAIN fs : Append(fs, f)[i] = fs[i]
           /\ DOMAIN Append(fs, f) = DOMAIN fs \cup {Len(fs) + 1} /\ Len(fs) + 1 \notin DOMAIN fs
           /\ Depths(Append(fs, f)) = Depths(fs) \cup {Len(fs) + 2} /\ Len(fs) + 2 \notin Depths(fs)
           /\ \A i \in Depths(fs) : SerialAt(Append(fs, f), new, i) = SerialAt(fs, lang, i)
           /\ SerialAt(Append(fs, f), new, Len(fs) + 2) = new.serial
           /\ 1 \in Depths(fs)
  <1>1. /\ Append(fs, f) \in Seq(ModuleFrames) /\ Len(Append(fs, f)) = Len(fs) + 1 /\ Len(fs) \in Nat
        /\ Append(fs, f)[Len(fs) + 1] = f
        /\ \A i \in 1 .. Len(fs) : Append(fs, f)[i] = fs[i]
        /\ DOMAIN fs = 1 .. Len(fs) /\ DOMAIN Append(fs, f) = 1 .. Len(fs) + 1
    OBVIOUS
  <1>2. \A i \in Depths(fs) : SerialAt(Append(fs, f), new, i) = SerialAt(fs, lang, i)
    <2> SUFFICES ASSUME NEW i \in Depths(fs) PROVE SerialAt(Append(fs, f), new, i) = SerialAt(fs, lang, i)
      OBVIOUS
    <2>1. CASE i <= Len(fs)
      BY <1>1, <2>1 DEF SerialAt, Depths
    <2>2. CASE i = Len(fs) + 1
      BY <1>1, <2>2 DEF SerialAt
    <2> QED BY <1>1, <2>1, <2>2 DEF Depths
  <1>3. SerialAt(Append(fs, f), new, Len(fs) + 2) = new.serial
    BY <1>1 DEF SerialAt
  <1> QED BY <1>1, <1>2, <1>3 DEF Depths

(* The top frame goes, and its caller is the current state again.          *)
LEMMA PoppedFrames ==
    ASSUME NEW fs \in Seq(ModuleFrames), fs # << >>, NEW lang
    PROVE  /\ Front(fs) \in Seq(ModuleFrames) /\ Last(fs) \in ModuleFrames
           /\ Len(fs) \in DOMAIN fs /\ Last(fs) = fs[Len(fs)]
           /\ DOMAIN Front(fs) = DOMAIN fs \ {Len(fs)}
           /\ \A i \in DOMAIN Front(fs) : Front(fs)[i] = fs[i] /\ i < Len(fs)
           /\ Depths(Front(fs)) = Depths(fs) \ {Len(fs) + 1} /\ 1 \in Depths(Front(fs))
           /\ Len(fs) + 1 \in Depths(fs) /\ SerialAt(fs, lang, Len(fs) + 1) = lang.serial
           /\ \A i \in Depths(Front(fs)) :
                 SerialAt(Front(fs), Last(fs).caller, i) = SerialAt(fs, lang, i)
  <1>1. /\ Front(fs) \in Seq(ModuleFrames) /\ Last(fs) \in ModuleFrames /\ Last(fs) = fs[Len(fs)]
        /\ Len(fs) \in Nat \ {0} /\ Len(Front(fs)) = Len(fs) - 1 /\ DOMAIN fs = 1 .. Len(fs)
        /\ DOMAIN Front(fs) = 1 .. Len(fs) - 1
        /\ \A i \in 1 .. Len(fs) - 1 : Front(fs)[i] = fs[i]
    <2>1. Len(fs) \in Nat \ {0} /\ DOMAIN fs = 1 .. Len(fs)
      OBVIOUS
    <2>2. Front(fs) = SubSeq(fs, 1, Len(fs) - 1) /\ Last(fs) = fs[Len(fs)]
      BY DEF Front, Last
    <2>3. Last(fs) \in ModuleFrames
      BY <2>1, <2>2
    <2>4. SubSeq(fs, 1, Len(fs) - 1) \in Seq(ModuleFrames)
      BY <2>1
    <2>5. /\ Len(SubSeq(fs, 1, Len(fs) - 1)) = Len(fs) - 1
          /\ \A i \in 1 .. Len(fs) - 1 : SubSeq(fs, 1, Len(fs) - 1)[i] = fs[i]
      BY <2>1
    <2> QED BY <2>1, <2>2, <2>3, <2>4, <2>5
  <1>2. \A i \in Depths(Front(fs)) : SerialAt(Front(fs), Last(fs).caller, i) = SerialAt(fs, lang, i)
    <2> SUFFICES ASSUME NEW i \in Depths(Front(fs))
                 PROVE  SerialAt(Front(fs), Last(fs).caller, i) = SerialAt(fs, lang, i)
      OBVIOUS
    <2>1. CASE i <= Len(fs) - 1
      BY <1>1, <2>1 DEF SerialAt, Depths
    <2>2. CASE i = Len(fs)
      BY <1>1, <2>2 DEF SerialAt
    <2> QED BY <1>1, <2>1, <2>2 DEF Depths
  <1>3. SerialAt(fs, lang, Len(fs) + 1) = lang.serial
    BY <1>1 DEF SerialAt
  <1> QED BY <1>1, <1>2, <1>3 DEF Depths

(* The invariant of a VM gives what ModulesSound says of it.               *)
LEMMA ModulesInvSound == ModulesInv => ModulesSound
  <1> SUFFICES ASSUME ModulesInv PROVE ModulesSound
    OBVIOUS
  <1>1. ModulesNest
    <2> SUFFICES ASSUME NEW v \in ModuleVMs
                 PROVE  /\ Active(v)[1] = home[v]
                        /\ IsInjective(Active(v))
                        /\ \A m \in ModuleIds : Loaded(v, m) => modules[v][m].serial \notin Range(Active(v))
                        /\ loading[v] = inherited[v] \cup
                             UNION {{f.spec, f.id} : f \in {g \in Range(frames[v]) : g.word = "import"}}
      BY DEF ModulesNest
    <2>a. VmInv(v) /\ frames[v] \in Seq(ModuleFrames)
      BY DEF ModulesInv, VmInv
    <2> DEFINE callers == [i \in 1 .. Len(frames[v]) |-> frames[v][i].caller.serial]
               n == Len(frames[v])
    <2>b. n \in Nat /\ DOMAIN frames[v] = 1 .. n
      BY <2>a
    <2>c. callers \in Seq(Int) /\ Len(callers) = n /\ language[v].serial \in Int
      <3>1. \A i \in 1 .. n : frames[v][i].caller.serial \in Int
        BY <2>a, <2>b DEF ModuleFrames, Languages
      <3>2. language[v].serial \in Int
        BY DEF ModulesInv, ModuleTypeOK, Languages
      <3> QED BY <2>b, <3>1, <3>2
    <2>d. /\ DOMAIN Active(v) = 1 .. n + 1
          /\ \A i \in 1 .. n + 1 : Active(v)[i] = SerialAt(frames[v], language[v], i)
      <3>1. Active(v) = callers \o << language[v].serial >>
        BY DEF Active
      <3> HIDE DEF callers
      <3>2. /\ DOMAIN Active(v) = 1 .. n + 1
            /\ \A i \in 1 .. n : Active(v)[i] = callers[i]
            /\ Active(v)[n + 1] = language[v].serial
        BY <2>b, <2>c, <3>1
      <3>3. \A i \in 1 .. n : callers[i] = frames[v][i].caller.serial
        BY DEF callers
      <3> QED BY <2>b, <3>2, <3>3 DEF SerialAt
    <2> HIDE DEF callers
    <2>1. Active(v)[1] = home[v] /\ IsInjective(Active(v))
      BY <2>a, <2>b, <2>d DEF VmInv, FramesNest, Depths, IsInjective
    <2>2. \A m \in ModuleIds : Loaded(v, m) => modules[v][m].serial \notin Range(Active(v))
      BY <2>a, <2>b, <2>d DEF VmInv, TableApart, Depths, Range, Loaded
    <2>3. loading[v] = inherited[v] \cup
              UNION {{f.spec, f.id} : f \in {g \in Range(frames[v]) : g.word = "import"}}
      <3>1. {g \in Range(frames[v]) : g.word = "import"} = {frames[v][i] : i \in ImportsIn(frames[v])}
        BY DEF ImportsIn, Range
      <3>2. loading[v] = inherited[v] \cup
                UNION {{frames[v][i].spec, frames[v][i].id} : i \in ImportsIn(frames[v])}
        BY <2>a DEF VmInv, MarksNest, MarksIn
      <3> QED BY <3>1, <3>2
    <2> QED BY <2>1, <2>2, <2>3
  <1>2. ModulesCached
    BY DEF ModulesCached, ModulesInv, VmInv, LoadedOnce
  <1> QED BY <1>1, <1>2 DEF ModulesSound

-----------------------------------------------------------------------------
(* Nothing is loaded before the program starts.                            *)
LEMMA InitModules == ModuleInit => ModulesInv
  <1> SUFFICES ASSUME ModuleInit PROVE ModulesInv
    OBVIOUS
  <1> USE ModuleAssumption
  <1>1. ModuleTypeOK
    <2>1. 0 \in 0 .. MaxLanguages /\ [serial |-> 0, height |-> 0] \in Languages
      BY DEF Languages
    <2>2. modules \in [ModuleVMs -> [ModuleIds -> Languages \cup {NotLoaded}]]
      BY DEF ModuleInit
    <2>3. aliases \in [ModuleVMs -> [Specifiers -> ModuleIds \cup {NotLoaded}]]
      BY DEF ModuleInit
    <2>4. loads \in [ModuleVMs -> [ModuleIds -> Nat]]
      BY DEF ModuleInit
    <2> QED BY <2>1, <2>2, <2>3, <2>4 DEF ModuleInit, ModuleTypeOK
  <1>2. frames \in [ModuleVMs -> Seq(ModuleFrames)] /\ home \in [ModuleVMs -> 0 .. MaxLanguages]
    BY DEF ModuleInit
  <1>3. frames["task"] = << >> /\ \A m \in ModuleIds : loads["task"][m] = 0
    BY DEF ModuleInit, ModuleVMs
  <1>4. ASSUME NEW v \in ModuleVMs PROVE VmInv(v)
    <2>1. /\ frames[v] = << >> /\ language[v].serial = 0 /\ home[v] = 0 /\ made = 0 /\ loading[v] = {}
          /\ inherited[v] = {} /\ \A m \in ModuleIds : modules[v][m] = NotLoaded /\ loads[v][m] = 0
      BY DEF ModuleInit
    <2>2. ImportsIn(frames[v]) = {} /\ Depths(frames[v]) = {1} /\ SerialAt(frames[v], language[v], 1) = 0
      BY <2>1 DEF ImportsIn, Depths, SerialAt
    <2>3. frames[v] \in Seq(ModuleFrames)
      BY <1>2
    <2> QED BY <2>1, <2>2, <2>3 DEF VmInv, FramesNest, TableApart, MarksNest, MarksIn, LoadedOnce
  <1> QED BY <1>1, <1>2, <1>3, <1>4 DEF ModulesInv

-----------------------------------------------------------------------------
(* A new language state on top is nested if none below is the same.        *)
LEMMA PushNests ==
    ASSUME NEW fs \in Seq(ModuleFrames), NEW f \in ModuleFrames, NEW lang, NEW new, f.caller = lang,
           NEW start, NEW n \in Nat, NEW n2 \in Nat, n <= n2, FramesNest(fs, lang, start, n),
           new.serial \in 0 .. n2, \A i \in Depths(fs) : new.serial # SerialAt(fs, lang, i)
    PROVE  FramesNest(Append(fs, f), new, start, n2)
  <1>1. /\ Depths(Append(fs, f)) = Depths(fs) \cup {Len(fs) + 2} /\ Len(fs) + 2 \notin Depths(fs)
        /\ \A i \in Depths(fs) : SerialAt(Append(fs, f), new, i) = SerialAt(fs, lang, i)
        /\ SerialAt(Append(fs, f), new, Len(fs) + 2) = new.serial
        /\ 1 \in Depths(fs)
    BY PushedFrames
  <1>2. \A i \in Depths(fs) : SerialAt(fs, lang, i) \in 0 .. n2
    BY DEF FramesNest
  <1> QED BY <1>1, <1>2 DEF FramesNest

(* What a table has left when the state with this number was taken out.    *)
TableWithout(mods2, mods, serial) ==
    \A m \in ModuleIds : mods2[m] # NotLoaded => mods2[m] = mods[m] /\ mods2[m].serial # serial

(* The table stays apart if it lost the module that is entered.            *)
LEMMA PushApart ==
    ASSUME NEW fs \in Seq(ModuleFrames), NEW f \in ModuleFrames, NEW lang, NEW new, f.caller = lang,
           NEW mods, NEW mods2, NEW n \in Nat, NEW n2 \in Nat, n <= n2, TableApart(fs, lang, mods, n),
           TableWithout(mods2, mods, new.serial)
    PROVE  TableApart(Append(fs, f), new, mods2, n2)
  <1>1. /\ Depths(Append(fs, f)) = Depths(fs) \cup {Len(fs) + 2} /\ Len(fs) + 2 \notin Depths(fs)
        /\ \A i \in Depths(fs) : SerialAt(Append(fs, f), new, i) = SerialAt(fs, lang, i)
        /\ SerialAt(Append(fs, f), new, Len(fs) + 2) = new.serial
        /\ 1 \in Depths(fs)
    BY PushedFrames
  <1> QED BY <1>1 DEF TableApart, TableWithout

(* Going back leaves what was below.                                       *)
LEMMA PopNests ==
    ASSUME NEW fs \in Seq(ModuleFrames), fs # << >>, NEW lang, NEW start, NEW n,
           FramesNest(fs, lang, start, n)
    PROVE  FramesNest(Front(fs), Last(fs).caller, start, n)
  <1>1. /\ Depths(Front(fs)) = Depths(fs) \ {Len(fs) + 1} /\ 1 \in Depths(Front(fs))
        /\ \A i \in Depths(Front(fs)) :
              SerialAt(Front(fs), Last(fs).caller, i) = SerialAt(fs, lang, i)
    BY PoppedFrames
  <1> QED BY <1>1 DEF FramesNest

(* A table in which the state with this number, and no other, may be new.  *)
TableWith(mods2, mods, id, serial) ==
    \A m \in ModuleIds : mods2[m] # NotLoaded =>
        \/ mods2[m] = mods[m] /\ m # id
        \/ mods2[m].serial = serial /\ m = id

(* The state that was left may go to the table: nothing else is it.        *)
LEMMA PopApart ==
    ASSUME NEW fs \in Seq(ModuleFrames), fs # << >>, NEW lang, NEW start, NEW mods, NEW mods2,
           NEW n, NEW id, FramesNest(fs, lang, start, n), TableApart(fs, lang, mods, n),
           TableWith(mods2, mods, id, lang.serial)
    PROVE  TableApart(Front(fs), Last(fs).caller, mods2, n)
  <1>1. /\ Depths(Front(fs)) = Depths(fs) \ {Len(fs) + 1} /\ Len(fs) + 1 \in Depths(fs)
        /\ SerialAt(fs, lang, Len(fs) + 1) = lang.serial
        /\ \A i \in Depths(Front(fs)) :
              SerialAt(Front(fs), Last(fs).caller, i) = SerialAt(fs, lang, i)
    BY PoppedFrames
  <1>2. lang.serial \in 0 .. n /\ \A i \in Depths(Front(fs)) : lang.serial # SerialAt(fs, lang, i)
    BY <1>1 DEF FramesNest
  <1>3. \A m \in ModuleIds : mods[m] # NotLoaded => mods[m].serial # lang.serial
    BY <1>1 DEF TableApart
  <1> QED BY <1>1, <1>2, <1>3 DEF TableApart, TableWith

(* A VM that a step leaves alone.                                          *)
LEMMA OtherVm ==
    ASSUME ModulesInv, NEW w \in ModuleVMs, made \in Nat, made' \in Nat, made <= made',
           frames'[w] = frames[w], language'[w] = language[w], modules'[w] = modules[w],
           loading'[w] = loading[w], inherited'[w] = inherited[w], home'[w] = home[w],
           loads'[w] = loads[w]
    PROVE  VmInv(w)'
  <1>1. VmInv(w) /\ 0 .. made \subseteq 0 .. made'
    BY DEF ModulesInv
  <1>2. FramesNest(frames[w], language[w], home[w], made')
    BY <1>1 DEF VmInv, FramesNest
  <1>3. TableApart(frames[w], language[w], modules[w], made')
    BY <1>1 DEF VmInv, TableApart
  <1> QED BY <1>1, <1>2, <1>3 DEF VmInv

(* A mark is the specifier or the id of an import.                         *)
LEMMA MarkOf ==
    ASSUME NEW fs, NEW x
    PROVE  x \in MarksIn(fs) <=> \E i \in ImportsIn(fs) : x = fs[i].spec \/ x = fs[i].id
  BY DEF MarksIn

(* What the type invariant and the invariant of its VM say at a step.      *)
LEMMA VmParts ==
    ASSUME ModulesInv, NEW v \in ModuleVMs
    PROVE  /\ frames[v] \in Seq(ModuleFrames) /\ Len(frames[v]) \in Nat
           /\ language[v] \in Languages /\ made \in Nat /\ home[v] \in 0 .. MaxLanguages
           /\ modules[v] \in [ModuleIds -> Languages \cup {NotLoaded}]
           /\ loads[v] \in [ModuleIds -> Nat]
           /\ FramesNest(frames[v], language[v], home[v], made)
           /\ TableApart(frames[v], language[v], modules[v], made)
           /\ MarksNest(frames[v], loading[v], inherited[v])
           /\ LoadedOnce(frames[v], modules[v], loads[v])
  BY ModuleAssumption DEF ModulesInv, VmInv, ModuleTypeOK

(* A second name for a loaded module.                                      *)
LEMMA ImportLoadedKeeps ==
    ASSUME ModulesInv, NEW v \in ModuleVMs, NEW s \in Specifiers, ImportLoaded(v, s)
    PROVE  ModulesInv'
  <1>1. /\ aliases' = [aliases EXCEPT ![v][s] = Resolves[s]]
        /\ UNCHANGED <<modules, loading, language, frames, made, spawnedVm, inherited, home, loads>>
    BY DEF ImportLoaded
  <1>2. ModuleTypeOK'
    <2>1. aliases \in [ModuleVMs -> [Specifiers -> ModuleIds \cup {NotLoaded}]] /\ Resolves[s] \in ModuleIds
      BY ModuleAssumption DEF ModulesInv, ModuleTypeOK
    <2>2. aliases' \in [ModuleVMs -> [Specifiers -> ModuleIds \cup {NotLoaded}]]
      BY <1>1, <2>1
    <2> QED BY <1>1, <2>2 DEF ModulesInv, ModuleTypeOK
  <1>3. \A w \in ModuleVMs : VmInv(w)'
    BY <1>1, VmParts, OtherVm
  <1> QED BY <1>1, <1>2, <1>3 DEF ModulesInv

(* An import begins: its marks were free, and its state is new.            *)
LEMMA ImportStartsKeeps ==
    ASSUME ModulesInv, NEW v \in ModuleVMs, NEW s \in Specifiers, ImportStarts(v, s)
    PROVE  ModulesInv'
  <1> DEFINE m == Resolves[s]
             f == [word |-> "import", spec |-> s, id |-> m, caller |-> language[v]]
             new == [serial |-> made + 1, height |-> 0]
             fs == frames[v]
             fs2 == Append(fs, f)
  <1>a. /\ RunsCode(v) /\ ~Loaded(v, m) /\ {s, m} \cap loading[v] = {} /\ made < MaxLanguages
        /\ loading' = [loading EXCEPT ![v] = @ \cup {s, m}]
        /\ frames' = [frames EXCEPT ![v] = fs2]
        /\ language' = [language EXCEPT ![v] = new] /\ made' = made + 1
        /\ UNCHANGED <<modules, aliases, spawnedVm, inherited, home, loads>>
    BY DEF ImportStarts
  <1>b. m \in ModuleIds /\ m # s /\ m \notin loading[v] /\ s \notin loading[v] /\ modules[v][m] = NotLoaded
    BY <1>a, ModuleAssumption DEF Loaded
  <1>c. /\ ModuleTypeOK /\ frames \in [ModuleVMs -> Seq(ModuleFrames)]
        /\ home \in [ModuleVMs -> 0 .. MaxLanguages]
    BY DEF ModulesInv
  <1>d. /\ fs \in Seq(ModuleFrames) /\ language[v] \in Languages /\ made \in Nat /\ made' \in Nat
        /\ made <= made' /\ made' \in 0 .. MaxLanguages
        /\ FramesNest(fs, language[v], home[v], made)
        /\ TableApart(fs, language[v], modules[v], made)
        /\ MarksNest(fs, loading[v], inherited[v])
        /\ LoadedOnce(fs, modules[v], loads[v])
    <2>1. made \in Nat
      BY VmParts
    <2> QED BY <1>a, <2>1, VmParts, ModuleAssumption
  <1>e. f \in ModuleFrames /\ f.caller = language[v] /\ f.word = "import" /\ f.spec = s /\ f.id = m
    BY <1>b, <1>d DEF ModuleFrames
  <1>f. new \in Languages /\ new.serial = made + 1
    BY <1>a, <1>d, ModuleAssumption DEF Languages
  <1>g. /\ frames'[v] = fs2 /\ language'[v] = new /\ loading'[v] = loading[v] \cup {s, m}
        /\ modules'[v] = modules[v] /\ home'[v] = home[v] /\ inherited'[v] = inherited[v]
        /\ loads'[v] = loads[v]
        /\ \A w \in ModuleVMs \ {v} :
              frames'[w] = frames[w] /\ language'[w] = language[w] /\ loading'[w] = loading[w]
    BY <1>a, <1>c DEF ModuleTypeOK
  <1> HIDE DEF m, f, new, fs, fs2
  <1>h. /\ fs2 \in Seq(ModuleFrames) /\ fs2[Len(fs) + 1] = f
        /\ \A i \in DOMAIN fs : fs2[i] = fs[i] /\ i < Len(fs) + 1
        /\ DOMAIN fs2 = DOMAIN fs \cup {Len(fs) + 1} /\ Len(fs) + 1 \notin DOMAIN fs
    <2>1. \A i \in DOMAIN fs : i < Len(fs) + 1
      BY <1>d
    <2> QED BY <2>1, <1>d, <1>e, PushedFrames DEF fs2
  <1>i. ImportsIn(fs2) = ImportsIn(fs) \cup {Len(fs) + 1}
    BY <1>e, <1>h DEF ImportsIn
  <1>1. FramesNest(fs2, new, home[v], made')
    <2>1. \A i \in Depths(fs) : new.serial # SerialAt(fs, language[v], i)
      BY <1>d, <1>f DEF FramesNest
    <2>2. new.serial \in 0 .. made'
      BY <1>a, <1>d, <1>f
    <2> QED BY <1>d, <1>e, <2>1, <2>2, PushNests DEF fs2
  <1>2. TableApart(fs2, new, modules[v], made')
    <2>1. TableWithout(modules[v], modules[v], new.serial)
      BY <1>d, <1>f DEF TableApart, TableWithout
    <2> QED BY <1>d, <1>e, <2>1, PushApart DEF fs2
  <1>3. MarksNest(fs2, loading'[v], inherited[v])
    <2>1. MarksIn(fs2) = MarksIn(fs) \cup {s, m}
      <3>1. \A i \in ImportsIn(fs) : fs2[i] = fs[i]
        BY <1>h DEF ImportsIn
      <3>2. ASSUME NEW x PROVE x \in MarksIn(fs2) <=> x \in MarksIn(fs) \cup {s, m}
        <4>1. x \in MarksIn(fs2) <=> \E i \in ImportsIn(fs2) : x = fs2[i].spec \/ x = fs2[i].id
          BY MarkOf
        <4>2. x \in MarksIn(fs) <=> \E i \in ImportsIn(fs) : x = fs[i].spec \/ x = fs[i].id
          BY MarkOf
        <4> QED BY <3>1, <1>e, <1>h, <1>i, <4>1, <4>2
      <3> QED BY <3>2
    <2>2. \A i \in ImportsIn(fs) : fs[i].spec \in loading[v] /\ fs[i].id \in loading[v] /\ fs2[i] = fs[i]
      BY <1>d, <1>h, MarkOf DEF MarksNest, ImportsIn
    <2>3. s \notin inherited[v] /\ m \notin inherited[v]
      BY <1>b, <1>d DEF MarksNest
    <2>4. loading'[v] = inherited[v] \cup MarksIn(fs2)
      BY <1>d, <1>g, <2>1 DEF MarksNest
    <2>5. \A i \in ImportsIn(fs2) : fs2[i].spec \notin inherited[v] /\ fs2[i].id \notin inherited[v]
      BY <1>d, <1>e, <1>h, <1>i, <2>2, <2>3 DEF MarksNest
    <2>6. \A i, j \in ImportsIn(fs2) : fs2[i].spec = fs2[j].spec \/ fs2[i].id = fs2[j].id => i = j
      BY <1>b, <1>d, <1>e, <1>h, <1>i, <2>2 DEF MarksNest
    <2> QED BY <2>4, <2>5, <2>6 DEF MarksNest
  <1>4. LoadedOnce(fs2, modules[v], loads[v])
    <2>1. \A k \in ModuleIds :
            /\ loads[v][k] \in {0, 1}
            /\ loads[v][k] = 1 => \/ modules[v][k] # NotLoaded
                                  \/ \E i \in DOMAIN fs2 : fs2[i].word = "call" /\ fs2[i].id = k
      BY <1>d, <1>h DEF LoadedOnce
    <2>2. \A i \in ImportsIn(fs) : fs[i].id # m /\ fs2[i] = fs[i] /\ i \in DOMAIN fs
      BY <1>b, <1>d, <1>h, MarkOf DEF MarksNest, ImportsIn
    <2>3. \A i \in ImportsIn(fs2) :
            /\ modules[v][fs2[i].id] = NotLoaded
            /\ \A j \in DOMAIN fs2 : j > i => fs2[j].id # fs2[i].id
      <3> SUFFICES ASSUME NEW i \in ImportsIn(fs2)
                   PROVE  /\ modules[v][fs2[i].id] = NotLoaded
                          /\ \A j \in DOMAIN fs2 : j > i => fs2[j].id # fs2[i].id
        OBVIOUS
      <3>1. CASE i = Len(fs) + 1
        <4>1. \A j \in DOMAIN fs2 : ~(j > i)
          BY <1>d, <1>h, <3>1
        <4> QED BY <1>b, <1>e, <1>h, <3>1, <4>1
      <3>2. CASE i \in ImportsIn(fs)
        <4>1. modules[v][fs[i].id] = NotLoaded /\ \A j \in DOMAIN fs : j > i => fs[j].id # fs[i].id
          BY <1>d, <3>2 DEF LoadedOnce
        <4> QED BY <1>e, <1>h, <2>2, <3>2, <4>1
      <3> QED BY <1>i, <3>1, <3>2
    <2> QED BY <2>1, <2>3 DEF LoadedOnce
  <1>5. ModuleTypeOK'
    <2>1. loading' \in [ModuleVMs -> SUBSET (Specifiers \cup ModuleIds)]
      BY <1>a, <1>b, <1>c DEF ModuleTypeOK
    <2>2. language' \in [ModuleVMs -> Languages]
      BY <1>a, <1>c, <1>f DEF ModuleTypeOK
    <2> QED BY <1>a, <1>c, <1>d, <2>1, <2>2 DEF ModuleTypeOK
  <1>6. frames' \in [ModuleVMs -> Seq(ModuleFrames)] /\ home' \in [ModuleVMs -> 0 .. MaxLanguages]
    BY <1>a, <1>c, <1>h
  <1>7. ~spawnedVm' => frames'["task"] = << >> /\ \A k \in ModuleIds : loads'["task"][k] = 0
    BY <1>a, <1>g DEF ModulesInv, RunsCode, ModuleVMs
  <1>8. VmInv(v)'
    BY <1>1, <1>2, <1>3, <1>4, <1>g, <1>h DEF VmInv
  <1>9. \A w \in ModuleVMs \ {v} : VmInv(w)'
    BY <1>a, <1>d, <1>g, OtherVm
  <1> QED BY <1>5, <1>6, <1>7, <1>8, <1>9 DEF ModulesInv

(* An import ends, with its marks and whatever its code came to.           *)
LEMMA ImportEndsKeeps ==
    ASSUME ModulesInv, NEW v \in ModuleVMs, NEW ok \in BOOLEAN, ImportEnds(v, ok)
    PROVE  ModulesInv'
  <1> DEFINE fs == frames[v]
             f == Last(fs)
             fs2 == Front(fs)
             n == Len(fs)
  <1>a. /\ fs # << >> /\ f.word = "import"
        /\ frames' = [frames EXCEPT ![v] = fs2]
        /\ language' = [language EXCEPT ![v] = f.caller]
        /\ loading' = [loading EXCEPT ![v] = loading[v] \ {f.spec, f.id}]
        /\ modules' = IF ok THEN [modules EXCEPT ![v][f.id] = language[v]] ELSE modules
        /\ aliases' = IF ok THEN [aliases EXCEPT ![v][f.spec] = f.id] ELSE aliases
        /\ loads' = IF ok /\ ~InOwnCall(v, f.id) THEN [loads EXCEPT ![v][f.id] = @ + 1] ELSE loads
        /\ UNCHANGED <<made, spawnedVm, inherited, home>>
    BY DEF ImportEnds, ReturnsTo, MarksAfter
  <1>c. /\ ModuleTypeOK /\ frames \in [ModuleVMs -> Seq(ModuleFrames)]
        /\ home \in [ModuleVMs -> 0 .. MaxLanguages]
    BY DEF ModulesInv
  <1>d. /\ fs \in Seq(ModuleFrames) /\ language[v] \in Languages /\ made \in Nat /\ n \in Nat
        /\ modules[v] \in [ModuleIds -> Languages \cup {NotLoaded}]
        /\ loads[v] \in [ModuleIds -> Nat]
        /\ FramesNest(fs, language[v], home[v], made)
        /\ TableApart(fs, language[v], modules[v], made)
        /\ MarksNest(fs, loading[v], inherited[v])
        /\ LoadedOnce(fs, modules[v], loads[v])
    BY VmParts
  <1>e. /\ fs2 \in Seq(ModuleFrames) /\ f \in ModuleFrames /\ n \in DOMAIN fs /\ f = fs[n]
        /\ DOMAIN fs2 = DOMAIN fs \ {n}
        /\ \A i \in DOMAIN fs2 : fs2[i] = fs[i] /\ i < n
    BY <1>a, <1>d, PoppedFrames
  <1>f. f.spec \in Specifiers /\ f.id \in ModuleIds /\ f.caller \in Languages /\ f.spec # f.id
    BY <1>a, <1>e, ModuleAssumption DEF ModuleFrames
  <1>g. /\ frames'[v] = fs2 /\ language'[v] = f.caller /\ loading'[v] = loading[v] \ {f.spec, f.id}
        /\ \A m \in ModuleIds : modules'[v][m] = IF ok /\ m = f.id THEN language[v] ELSE modules[v][m]
        /\ \A m \in ModuleIds : loads'[v][m] = IF ok /\ ~InOwnCall(v, f.id) /\ m = f.id
                                                THEN loads[v][m] + 1 ELSE loads[v][m]
        /\ \A w \in ModuleVMs \ {v} :
              /\ frames'[w] = frames[w] /\ language'[w] = language[w] /\ loading'[w] = loading[w]
              /\ modules'[w] = modules[w] /\ loads'[w] = loads[w]
    <2>1. frames'[v] = fs2 /\ language'[v] = f.caller /\ loading'[v] = loading[v] \ {f.spec, f.id}
      BY <1>a, <1>c DEF ModuleTypeOK
    <2>2. \A m \in ModuleIds : modules'[v][m] = IF ok /\ m = f.id THEN language[v] ELSE modules[v][m]
      BY <1>a, <1>c DEF ModuleTypeOK
    <2>3. \A m \in ModuleIds : loads'[v][m] = IF ok /\ ~InOwnCall(v, f.id) /\ m = f.id
                                              THEN loads[v][m] + 1 ELSE loads[v][m]
      BY <1>a, <1>c DEF ModuleTypeOK
    <2>4. \A w \in ModuleVMs \ {v} :
            /\ frames'[w] = frames[w] /\ language'[w] = language[w] /\ loading'[w] = loading[w]
            /\ modules'[w] = modules[w] /\ loads'[w] = loads[w]
      BY <1>a, <1>c DEF ModuleTypeOK
    <2> QED BY <2>1, <2>2, <2>3, <2>4
  <1>h. ModuleTypeOK'
    <2>1. loading' \in [ModuleVMs -> SUBSET (Specifiers \cup ModuleIds)]
      BY <1>a, <1>c DEF ModuleTypeOK
    <2>2. language' \in [ModuleVMs -> Languages]
      BY <1>a, <1>c, <1>f DEF ModuleTypeOK
    <2>3. modules' \in [ModuleVMs -> [ModuleIds -> Languages \cup {NotLoaded}]]
      BY <1>a, <1>c, <1>d, <1>f DEF ModuleTypeOK
    <2>4. aliases' \in [ModuleVMs -> [Specifiers -> ModuleIds \cup {NotLoaded}]]
      BY <1>a, <1>c, <1>f DEF ModuleTypeOK
    <2>5. loads' \in [ModuleVMs -> [ModuleIds -> Nat]]
      BY <1>a, <1>c, <1>d, <1>f DEF ModuleTypeOK
    <2> QED BY <1>a, <1>c, <2>1, <2>2, <2>3, <2>4, <2>5 DEF ModuleTypeOK
  <1>i. frames' \in [ModuleVMs -> Seq(ModuleFrames)] /\ home' \in [ModuleVMs -> 0 .. MaxLanguages]
    BY <1>a, <1>c, <1>e
  <1>j. ~spawnedVm' => frames'["task"] = << >> /\ \A k \in ModuleIds : loads'["task"][k] = 0
    <2>1. ~spawnedVm => v # "task"
      BY <1>a DEF ModulesInv
    <2> QED BY <1>a, <1>g, <2>1 DEF ModulesInv, ModuleVMs
  <1>1. FramesNest(fs2, f.caller, home[v], made)
    BY <1>a, <1>d, PopNests
  <1>2. TableApart(fs2, f.caller, modules'[v], made)
    <2>1. TableWith(modules'[v], modules[v], f.id, language[v].serial)
      <3>1. modules[v][f.id] = NotLoaded
        BY <1>a, <1>d, <1>e DEF LoadedOnce, ImportsIn
      <3> QED BY <1>g, <3>1 DEF TableWith
    <2> QED BY <1>a, <1>d, <2>1, PopApart
  <1> HIDE DEF fs, f, fs2, n
  <1>3. MarksNest(fs2, loading'[v], inherited[v])
    <2>1. n \in ImportsIn(fs) /\ ImportsIn(fs2) = ImportsIn(fs) \ {n}
      BY <1>a, <1>e DEF ImportsIn
    <2>2. \A i \in ImportsIn(fs2) :
            /\ fs2[i] = fs[i] /\ fs[i].spec # f.spec /\ fs[i].id # f.id
            /\ fs[i].spec \in Specifiers /\ fs[i].id \in ModuleIds
      <3> SUFFICES ASSUME NEW i \in ImportsIn(fs2)
                   PROVE  /\ fs2[i] = fs[i] /\ fs[i].spec # f.spec /\ fs[i].id # f.id
                          /\ fs[i].spec \in Specifiers /\ fs[i].id \in ModuleIds
        OBVIOUS
      <3>1. i \in ImportsIn(fs) /\ i # n /\ fs2[i] = fs[i] /\ i \in DOMAIN fs /\ fs[i].word = "import"
        BY <1>e, <2>1 DEF ImportsIn
      <3>2. fs[i] \in ModuleFrames
        BY <1>d, <3>1
      <3>3. fs[i].spec \in Specifiers /\ fs[i].id \in ModuleIds
        BY <3>1, <3>2 DEF ModuleFrames
      <3> QED BY <1>d, <1>e, <2>1, <3>1, <3>3 DEF MarksNest
    <2>3. f.spec \notin inherited[v] /\ f.id \notin inherited[v]
      BY <1>d, <1>e, <2>1 DEF MarksNest
    <2>4. ASSUME NEW x PROVE x \in MarksIn(fs2) <=> x \in MarksIn(fs) /\ x # f.spec /\ x # f.id
      <3>1. x \in MarksIn(fs2) <=> \E i \in ImportsIn(fs2) : x = fs2[i].spec \/ x = fs2[i].id
        BY MarkOf
      <3>2. x \in MarksIn(fs) <=> \E i \in ImportsIn(fs) : x = fs[i].spec \/ x = fs[i].id
        BY MarkOf
      <3>3. Specifiers \cap ModuleIds = {}
        BY ModuleAssumption
      <3> QED BY <1>e, <1>f, <2>1, <2>2, <3>1, <3>2, <3>3
    <2>5. loading'[v] = inherited[v] \cup MarksIn(fs2)
      BY <1>d, <1>g, <2>3, <2>4 DEF MarksNest
    <2> QED BY <1>d, <2>1, <2>2, <2>5 DEF MarksNest
  <1>4. LoadedOnce(fs2, modules'[v], loads'[v])
    <2>1. modules[v][f.id] = NotLoaded
      BY <1>a, <1>d, <1>e DEF LoadedOnce, ImportsIn
    <2>2. ~InOwnCall(v, f.id) => loads[v][f.id] = 0
      <3>1. SUFFICES ASSUME ~InOwnCall(v, f.id) PROVE ~(loads[v][f.id] = 1)
        BY <1>d, <1>f DEF LoadedOnce
      <3>2. \A i \in DOMAIN fs : ~(fs[i].word = "call" /\ fs[i].id = f.id)
        BY <3>1 DEF InOwnCall, Range, fs
      <3> QED BY <1>d, <1>f, <2>1, <3>2 DEF LoadedOnce
    <2>3. \A k \in ModuleIds : loads'[v][k] \in {0, 1}
      BY <1>d, <1>g, <2>2 DEF LoadedOnce
    <2>4. language[v] # NotLoaded
      BY <1>d, ModuleAssumption
    <2>5. \A k \in ModuleIds : loads'[v][k] = 1 =>
            \/ modules'[v][k] # NotLoaded
            \/ \E i \in DOMAIN fs2 : fs2[i].word = "call" /\ fs2[i].id = k
      <3> SUFFICES ASSUME NEW k \in ModuleIds, loads'[v][k] = 1
                   PROVE  \/ modules'[v][k] # NotLoaded
                          \/ \E i \in DOMAIN fs2 : fs2[i].word = "call" /\ fs2[i].id = k
        OBVIOUS
      <3>1. CASE ok /\ k = f.id
        BY <1>g, <2>4, <3>1
      <3>2. CASE ~(ok /\ k = f.id)
        <4>1. loads[v][k] = 1 /\ modules'[v][k] = modules[v][k]
          BY <1>g, <3>2
        <4>2. modules[v][k] # NotLoaded \/ \E i \in DOMAIN fs : fs[i].word = "call" /\ fs[i].id = k
          BY <1>d, <4>1 DEF LoadedOnce
        <4> QED BY <1>a, <1>e, <4>1, <4>2
      <3> QED BY <3>1, <3>2
    <2>6. \A i \in ImportsIn(fs2) :
            /\ modules'[v][fs2[i].id] = NotLoaded
            /\ \A j \in DOMAIN fs2 : j > i => fs2[j].id # fs2[i].id
      <3> SUFFICES ASSUME NEW i \in ImportsIn(fs2)
                   PROVE  /\ modules'[v][fs2[i].id] = NotLoaded
                          /\ \A j \in DOMAIN fs2 : j > i => fs2[j].id # fs2[i].id
        OBVIOUS
      <3>1. i \in ImportsIn(fs) /\ fs2[i] = fs[i] /\ i < n /\ i \in DOMAIN fs /\ n > i
        BY <1>d, <1>e DEF ImportsIn
      <3>2. modules[v][fs[i].id] = NotLoaded /\ \A j \in DOMAIN fs : j > i => fs[j].id # fs[i].id
        BY <1>d, <3>1 DEF LoadedOnce
      <3>3. fs[i].id # f.id /\ fs[i].id \in ModuleIds
        <4>1. fs[i] \in ModuleFrames
          BY <1>d, <3>1
        <4> QED BY <1>e, <3>1, <3>2, <4>1 DEF ModuleFrames
      <3> QED BY <1>e, <1>g, <3>1, <3>2, <3>3
    <2> QED BY <2>3, <2>5, <2>6 DEF LoadedOnce
  <1>5. VmInv(v)'
    BY <1>1, <1>2, <1>3, <1>4, <1>a, <1>e, <1>g DEF VmInv
  <1>6. \A w \in ModuleVMs \ {v} : VmInv(w)'
    <2>1. made' \in Nat /\ made <= made' /\ home' = home /\ inherited' = inherited
      BY <1>a, <1>d
    <2> QED BY <1>d, <1>g, <2>1, OtherVm
  <1> QED BY <1>h, <1>i, <1>j, <1>5, <1>6 DEF ModulesInv

(* A call begins: the module's state leaves the table for the VM.          *)
LEMMA CallStartsKeeps ==
    ASSUME ModulesInv, NEW v \in ModuleVMs, NEW m \in ModuleIds, NEW args \in 0 .. MaxHeight,
           NEW inputs \in Arities, CallStarts(v, m, args, inputs)
    PROVE  ModulesInv'
  <1> DEFINE height == modules[v][m].height + args
             f == [word |-> "call", id |-> m, caller |-> language[v], base |-> height - inputs]
             new == [modules[v][m] EXCEPT !.height = height]
             fs == frames[v]
             fs2 == Append(fs, f)
  <1>a. /\ RunsCode(v) /\ Loaded(v, m) /\ height <= MaxHeight /\ inputs <= height
        /\ frames' = [frames EXCEPT ![v] = fs2]
        /\ modules' = [modules EXCEPT ![v][m] = NotLoaded]
        /\ language' = [language EXCEPT ![v] = new]
        /\ UNCHANGED <<aliases, loading, made, spawnedVm, inherited, home, loads>>
    BY DEF CallStarts
  <1>c. /\ ModuleTypeOK /\ frames \in [ModuleVMs -> Seq(ModuleFrames)]
        /\ home \in [ModuleVMs -> 0 .. MaxLanguages]
    BY DEF ModulesInv
  <1>d. /\ fs \in Seq(ModuleFrames) /\ language[v] \in Languages /\ made \in Nat
        /\ modules[v] \in [ModuleIds -> Languages \cup {NotLoaded}]
        /\ FramesNest(fs, language[v], home[v], made)
        /\ TableApart(fs, language[v], modules[v], made)
        /\ MarksNest(fs, loading[v], inherited[v])
        /\ LoadedOnce(fs, modules[v], loads[v])
    BY VmParts
  <1>e. modules[v][m] \in Languages /\ modules[v][m] # NotLoaded
    BY <1>a, <1>d DEF Loaded
  <1>f. new \in Languages /\ new.serial = modules[v][m].serial /\ height - inputs \in Nat
    <2>1. modules[v][m].height \in Nat /\ inputs \in Nat /\ args \in Nat /\ MaxHeight \in Nat
      BY <1>e, ModuleAssumption DEF Languages
    <2>2. height \in 0 .. MaxHeight /\ height - inputs \in Nat
      BY <1>a, <2>1
    <2> QED BY <1>e, <2>2 DEF Languages
  <1>g. f \in ModuleFrames /\ f.caller = language[v] /\ f.word = "call" /\ f.id = m
    BY <1>d, <1>f DEF ModuleFrames
  <1> HIDE DEF height, f, new
  <1>h. /\ frames'[v] = fs2 /\ language'[v] = new
        /\ modules'[v][m] = NotLoaded
        /\ \A k \in ModuleIds : k # m => modules'[v][k] = modules[v][k]
        /\ \A w \in ModuleVMs \ {v} :
              frames'[w] = frames[w] /\ language'[w] = language[w] /\ modules'[w] = modules[w]
    <2>1. frames'[v] = fs2 /\ language'[v] = new
      BY <1>a, <1>c DEF ModuleTypeOK
    <2>2. modules'[v][m] = NotLoaded /\ \A k \in ModuleIds : k # m => modules'[v][k] = modules[v][k]
      BY <1>a, <1>c DEF ModuleTypeOK
    <2>3. \A w \in ModuleVMs \ {v} :
            frames'[w] = frames[w] /\ language'[w] = language[w] /\ modules'[w] = modules[w]
      BY <1>a, <1>c DEF ModuleTypeOK
    <2> QED BY <2>1, <2>2, <2>3
  <1> HIDE DEF fs, fs2
  <1>i. /\ fs2 \in Seq(ModuleFrames) /\ fs2[Len(fs) + 1] = f
        /\ \A i \in DOMAIN fs : fs2[i] = fs[i] /\ i < Len(fs) + 1
        /\ DOMAIN fs2 = DOMAIN fs \cup {Len(fs) + 1} /\ Len(fs) + 1 \notin DOMAIN fs
    <2>1. \A i \in DOMAIN fs : i < Len(fs) + 1
      BY <1>d
    <2> QED BY <2>1, <1>d, <1>g, PushedFrames DEF fs2
  <1>j. ImportsIn(fs2) = ImportsIn(fs)
    BY <1>g, <1>i DEF ImportsIn
  <1>1. FramesNest(fs2, new, home[v], made)
    <2>1. \A i \in Depths(fs) : new.serial # SerialAt(fs, language[v], i)
      BY <1>d, <1>e, <1>f DEF TableApart
    <2>2. new.serial \in 0 .. made
      BY <1>d, <1>e, <1>f DEF TableApart
    <2> QED BY <1>d, <1>g, <2>1, <2>2, PushNests DEF fs2
  <1>2. TableApart(fs2, new, modules'[v], made)
    <2>1. TableWithout(modules'[v], modules[v], new.serial)
      BY <1>d, <1>e, <1>f, <1>h DEF TableApart, TableWithout
    <2> QED BY <1>d, <1>g, <2>1, PushApart DEF fs2
  <1>k. \A i \in ImportsIn(fs) : fs2[i] = fs[i] /\ i \in DOMAIN fs
    BY <1>i DEF ImportsIn
  <1>3. MarksNest(fs2, loading[v], inherited[v])
    <2>1. MarksIn(fs2) = MarksIn(fs)
      BY <1>j, <1>k DEF MarksIn
    <2> QED BY <1>d, <1>j, <1>k, <2>1 DEF MarksNest
  <1>4. LoadedOnce(fs2, modules'[v], loads[v])
    <2>1. \A k \in ModuleIds :
            /\ loads[v][k] \in {0, 1}
            /\ loads[v][k] = 1 => \/ modules'[v][k] # NotLoaded
                                  \/ \E i \in DOMAIN fs2 : fs2[i].word = "call" /\ fs2[i].id = k
      <3> SUFFICES ASSUME NEW k \in ModuleIds
                   PROVE  /\ loads[v][k] \in {0, 1}
                          /\ loads[v][k] = 1 =>
                                \/ modules'[v][k] # NotLoaded
                                \/ \E i \in DOMAIN fs2 : fs2[i].word = "call" /\ fs2[i].id = k
        OBVIOUS
      <3>1. /\ loads[v][k] \in {0, 1}
            /\ loads[v][k] = 1 => \/ modules[v][k] # NotLoaded
                                  \/ \E i \in DOMAIN fs : fs[i].word = "call" /\ fs[i].id = k
        BY <1>d DEF LoadedOnce
      <3>2. CASE k = m
        BY <1>g, <1>i, <3>1, <3>2
      <3>3. CASE k # m
        BY <1>h, <1>i, <3>1, <3>3
      <3> QED BY <3>2, <3>3
    <2>2. \A i \in ImportsIn(fs2) :
            /\ modules'[v][fs2[i].id] = NotLoaded
            /\ \A j \in DOMAIN fs2 : j > i => fs2[j].id # fs2[i].id
      <3> SUFFICES ASSUME NEW i \in ImportsIn(fs2)
                   PROVE  /\ modules'[v][fs2[i].id] = NotLoaded
                          /\ \A j \in DOMAIN fs2 : j > i => fs2[j].id # fs2[i].id
        OBVIOUS
      <3>1. i \in ImportsIn(fs) /\ fs2[i] = fs[i] /\ i \in DOMAIN fs
        BY <1>j, <1>k
      <3>2. modules[v][fs[i].id] = NotLoaded /\ \A j \in DOMAIN fs : j > i => fs[j].id # fs[i].id
        BY <1>d, <3>1 DEF LoadedOnce
      <3>3. fs[i].id # m /\ fs[i].id \in ModuleIds
        <4>1. fs[i] \in ModuleFrames
          BY <1>d, <3>1
        <4> QED BY <1>e, <3>2, <4>1 DEF ModuleFrames
      <3> QED BY <1>g, <1>h, <1>i, <3>1, <3>2, <3>3
    <2> QED BY <2>1, <2>2 DEF LoadedOnce
  <1>5. ModuleTypeOK'
    <2>1. modules' \in [ModuleVMs -> [ModuleIds -> Languages \cup {NotLoaded}]]
      BY <1>a, <1>c DEF ModuleTypeOK
    <2>2. language' \in [ModuleVMs -> Languages]
      BY <1>a, <1>c, <1>f DEF ModuleTypeOK
    <2> QED BY <1>a, <1>c, <2>1, <2>2 DEF ModuleTypeOK
  <1>6. frames' \in [ModuleVMs -> Seq(ModuleFrames)] /\ home' \in [ModuleVMs -> 0 .. MaxLanguages]
    BY <1>a, <1>c, <1>i
  <1>7. ~spawnedVm' => frames'["task"] = << >> /\ \A k \in ModuleIds : loads'["task"][k] = 0
    BY <1>a, <1>h DEF ModulesInv, RunsCode, ModuleVMs
  <1>8. VmInv(v)'
    BY <1>1, <1>2, <1>3, <1>4, <1>a, <1>h, <1>i DEF VmInv
  <1>9. \A w \in ModuleVMs \ {v} : VmInv(w)'
    <2>1. made' \in Nat /\ made <= made'
      BY <1>a, <1>d
    <2> QED BY <1>a, <1>d, <1>h, <2>1, OtherVm
  <1> QED BY <1>5, <1>6, <1>7, <1>8, <1>9 DEF ModulesInv

(* A call ends: the state goes back to the table, its stack cut.           *)
LEMMA CallEndsKeeps ==
    ASSUME ModulesInv, NEW v \in ModuleVMs, CallEnds(v)
    PROVE  ModulesInv'
  <1> DEFINE fs == frames[v]
             f == Last(fs)
             fs2 == Front(fs)
             n == Len(fs)
             returned == IF language[v].height > f.base THEN f.base ELSE language[v].height
             back == [language[v] EXCEPT !.height = returned]
  <1>a. /\ fs # << >> /\ f.word = "call"
        /\ frames' = [frames EXCEPT ![v] = fs2]
        /\ language' = [language EXCEPT ![v] = f.caller]
        /\ modules' = [modules EXCEPT ![v][f.id] = back]
        /\ UNCHANGED <<aliases, loading, made, spawnedVm, inherited, home, loads>>
    BY DEF CallEnds, ReturnsTo
  <1>c. /\ ModuleTypeOK /\ frames \in [ModuleVMs -> Seq(ModuleFrames)]
        /\ home \in [ModuleVMs -> 0 .. MaxLanguages]
    BY DEF ModulesInv
  <1>d. /\ fs \in Seq(ModuleFrames) /\ language[v] \in Languages /\ made \in Nat /\ n \in Nat
        /\ modules[v] \in [ModuleIds -> Languages \cup {NotLoaded}]
        /\ FramesNest(fs, language[v], home[v], made)
        /\ TableApart(fs, language[v], modules[v], made)
        /\ MarksNest(fs, loading[v], inherited[v])
        /\ LoadedOnce(fs, modules[v], loads[v])
    BY VmParts
  <1>e. /\ fs2 \in Seq(ModuleFrames) /\ f \in ModuleFrames /\ n \in DOMAIN fs /\ f = fs[n]
        /\ DOMAIN fs2 = DOMAIN fs \ {n}
        /\ \A i \in DOMAIN fs2 : fs2[i] = fs[i] /\ i < n
    BY <1>a, <1>d, PoppedFrames
  <1>f. f.id \in ModuleIds /\ f.caller \in Languages /\ f.base \in Nat
    BY <1>a, <1>e DEF ModuleFrames
  <1>g. back \in Languages /\ back.serial = language[v].serial /\ back # NotLoaded
    <2>1. language[v].height \in 0 .. MaxHeight
      BY <1>d DEF Languages
    <2>2. returned \in 0 .. MaxHeight
      BY <1>f, <2>1, ModuleAssumption
    <2> HIDE DEF returned
    <2>3. back \in Languages /\ back.serial = language[v].serial
      BY <1>d, <2>2 DEF Languages
    <2> QED BY <2>3, ModuleAssumption
  <1> HIDE DEF returned, back
  <1>h. /\ frames'[v] = fs2 /\ language'[v] = f.caller /\ modules'[v][f.id] = back
        /\ \A k \in ModuleIds : k # f.id => modules'[v][k] = modules[v][k]
        /\ \A w \in ModuleVMs \ {v} :
              frames'[w] = frames[w] /\ language'[w] = language[w] /\ modules'[w] = modules[w]
    <2>1. frames'[v] = fs2 /\ language'[v] = f.caller
      BY <1>a, <1>c DEF ModuleTypeOK
    <2>2. modules'[v][f.id] = back /\ \A k \in ModuleIds : k # f.id => modules'[v][k] = modules[v][k]
      BY <1>a, <1>c, <1>f DEF ModuleTypeOK
    <2>3. \A w \in ModuleVMs \ {v} :
            frames'[w] = frames[w] /\ language'[w] = language[w] /\ modules'[w] = modules[w]
      BY <1>a, <1>c DEF ModuleTypeOK
    <2> QED BY <2>1, <2>2, <2>3
  <1>i. ModuleTypeOK'
    <2>1. modules' \in [ModuleVMs -> [ModuleIds -> Languages \cup {NotLoaded}]]
      BY <1>a, <1>c, <1>g DEF ModuleTypeOK
    <2>2. language' \in [ModuleVMs -> Languages]
      BY <1>a, <1>c, <1>f DEF ModuleTypeOK
    <2> QED BY <1>a, <1>c, <2>1, <2>2 DEF ModuleTypeOK
  <1>j. frames' \in [ModuleVMs -> Seq(ModuleFrames)] /\ home' \in [ModuleVMs -> 0 .. MaxLanguages]
    BY <1>a, <1>c, <1>e
  <1>k. ~spawnedVm' => frames'["task"] = << >> /\ \A k \in ModuleIds : loads'["task"][k] = 0
    <2>1. ~spawnedVm => v # "task"
      BY <1>a DEF ModulesInv
    <2> QED BY <1>a, <1>h, <2>1 DEF ModulesInv, ModuleVMs
  <1>1. FramesNest(fs2, f.caller, home[v], made)
    BY <1>a, <1>d, PopNests
  <1>2. TableApart(fs2, f.caller, modules'[v], made)
    <2>1. TableWith(modules'[v], modules[v], f.id, language[v].serial)
      BY <1>g, <1>h DEF TableWith
    <2> QED BY <1>a, <1>d, <2>1, PopApart
  <1> HIDE DEF fs, f, fs2, n
  <1>l. ImportsIn(fs2) = ImportsIn(fs) /\ \A i \in ImportsIn(fs) : fs2[i] = fs[i] /\ i < n /\ i \in DOMAIN fs
    BY <1>a, <1>e DEF ImportsIn
  <1>3. MarksNest(fs2, loading[v], inherited[v])
    <2>1. MarksIn(fs2) = MarksIn(fs)
      BY <1>l DEF MarksIn
    <2> QED BY <1>d, <1>l, <2>1 DEF MarksNest
  <1>4. LoadedOnce(fs2, modules'[v], loads[v])
    <2>1. \A k \in ModuleIds :
            /\ loads[v][k] \in {0, 1}
            /\ loads[v][k] = 1 => \/ modules'[v][k] # NotLoaded
                                  \/ \E i \in DOMAIN fs2 : fs2[i].word = "call" /\ fs2[i].id = k
      <3> SUFFICES ASSUME NEW k \in ModuleIds
                   PROVE  /\ loads[v][k] \in {0, 1}
                          /\ loads[v][k] = 1 =>
                                \/ modules'[v][k] # NotLoaded
                                \/ \E i \in DOMAIN fs2 : fs2[i].word = "call" /\ fs2[i].id = k
        OBVIOUS
      <3>1. /\ loads[v][k] \in {0, 1}
            /\ loads[v][k] = 1 => \/ modules[v][k] # NotLoaded
                                  \/ \E i \in DOMAIN fs : fs[i].word = "call" /\ fs[i].id = k
        BY <1>d DEF LoadedOnce
      <3>2. CASE k = f.id
        BY <1>g, <1>h, <3>1, <3>2
      <3>3. CASE k # f.id
        BY <1>e, <1>h, <3>1, <3>3
      <3> QED BY <3>2, <3>3
    <2>2. \A i \in ImportsIn(fs2) :
            /\ modules'[v][fs2[i].id] = NotLoaded
            /\ \A j \in DOMAIN fs2 : j > i => fs2[j].id # fs2[i].id
      <3> SUFFICES ASSUME NEW i \in ImportsIn(fs2)
                   PROVE  /\ modules'[v][fs2[i].id] = NotLoaded
                          /\ \A j \in DOMAIN fs2 : j > i => fs2[j].id # fs2[i].id
        OBVIOUS
      <3>1. i \in ImportsIn(fs) /\ fs2[i] = fs[i] /\ i < n /\ i \in DOMAIN fs /\ n > i
        BY <1>d, <1>l
      <3>2. modules[v][fs[i].id] = NotLoaded /\ \A j \in DOMAIN fs : j > i => fs[j].id # fs[i].id
        BY <1>d, <3>1 DEF LoadedOnce
      <3>3. fs[i].id # f.id /\ fs[i].id \in ModuleIds
        <4>1. fs[i] \in ModuleFrames
          BY <1>d, <3>1
        <4> QED BY <1>e, <3>1, <3>2, <4>1 DEF ModuleFrames
      <3> QED BY <1>e, <1>h, <3>1, <3>2, <3>3
    <2> QED BY <2>1, <2>2 DEF LoadedOnce
  <1>5. VmInv(v)'
    BY <1>1, <1>2, <1>3, <1>4, <1>a, <1>e, <1>h DEF VmInv
  <1>6. \A w \in ModuleVMs \ {v} : VmInv(w)'
    <2>1. made' \in Nat /\ made <= made'
      BY <1>a, <1>d
    <2> QED BY <1>a, <1>d, <1>h, <2>1, OtherVm
  <1> QED BY <1>i, <1>j, <1>k, <1>5, <1>6 DEF ModulesInv

(* Too few arguments: they stay on the module's stack.                     *)
LEMMA CallUnderflowsKeeps ==
    ASSUME ModulesInv, NEW v \in ModuleVMs, NEW m \in ModuleIds, NEW args \in 0 .. MaxHeight,
           NEW inputs \in Arities, CallUnderflows(v, m, args, inputs)
    PROVE  ModulesInv'
  <1> DEFINE height == modules[v][m].height + args
             fuller == [modules[v][m] EXCEPT !.height = height]
  <1>a. /\ Loaded(v, m) /\ height <= MaxHeight
        /\ modules' = [modules EXCEPT ![v][m].height = height]
        /\ UNCHANGED <<aliases, loading, language, frames, made, spawnedVm, inherited, home, loads>>
    BY DEF CallUnderflows
  <1>b. ModuleTypeOK
    BY DEF ModulesInv
  <1>c. modules[v][m] \in Languages
    BY <1>a, <1>b DEF ModuleTypeOK, Loaded
  <1>d. fuller \in Languages /\ fuller.serial = modules[v][m].serial /\ fuller # NotLoaded
    <2>1. height \in 0 .. MaxHeight
      BY <1>a, <1>c, ModuleAssumption DEF Languages
    <2> HIDE DEF height
    <2>2. fuller \in Languages /\ fuller.serial = modules[v][m].serial
      BY <1>c, <2>1 DEF Languages
    <2> QED BY <2>2, ModuleAssumption
  <1>e. modules' = [modules EXCEPT ![v][m] = fuller]
    BY <1>a
  <1> HIDE DEF height, fuller
  <1>f. modules'[v][m] = fuller /\ \A k \in ModuleIds : k # m => modules'[v][k] = modules[v][k]
    BY <1>b, <1>e DEF ModuleTypeOK
  <1>1. ModuleTypeOK'
    <2>1. modules' \in [ModuleVMs -> [ModuleIds -> Languages \cup {NotLoaded}]]
      BY <1>b, <1>d, <1>e DEF ModuleTypeOK
    <2> QED BY <1>a, <1>b, <2>1 DEF ModuleTypeOK
  <1>2. VmInv(v)'
    <2>1. VmInv(v)
      BY DEF ModulesInv
    <2>2. \A k \in ModuleIds : modules'[v][k] # NotLoaded <=> modules[v][k] # NotLoaded
      BY <1>a, <1>d, <1>f DEF Loaded
    <2>3. \A k \in ModuleIds : modules'[v][k] # NotLoaded => modules'[v][k].serial = modules[v][k].serial
      BY <1>d, <1>f
    <2>4. TableApart(frames[v], language[v], modules'[v], made)
      BY <2>1, <2>2, <2>3 DEF VmInv, TableApart
    <2>5. \A i \in ImportsIn(frames[v]) : frames[v][i].id \in ModuleIds
      <3>1. \A i \in ImportsIn(frames[v]) : frames[v][i] \in ModuleFrames
        BY VmParts DEF ImportsIn
      <3> QED BY <3>1 DEF ModuleFrames
    <2>6. LoadedOnce(frames[v], modules'[v], loads[v])
      BY <2>1, <2>2, <2>5 DEF VmInv, LoadedOnce
    <2> QED BY <1>a, <2>1, <2>4, <2>6 DEF VmInv
  <1>3. \A w \in ModuleVMs \ {v} : VmInv(w)'
    <2>1. made \in Nat /\ made' \in Nat /\ made <= made'
      BY <1>a, VmParts
    <2>2. \A w \in ModuleVMs \ {v} : modules'[w] = modules[w]
      BY <1>b, <1>e DEF ModuleTypeOK
    <2> QED BY <1>a, <2>1, <2>2, OtherVm
  <1> QED BY <1>a, <1>1, <1>2, <1>3 DEF ModulesInv

(* Code of a module works on its stack.                                    *)
LEMMA WorkKeeps ==
    ASSUME ModulesInv, NEW v \in ModuleVMs, NEW height \in 0 .. MaxHeight, Work(v, height)
    PROVE  ModulesInv'
  <1>a. /\ language' = [language EXCEPT ![v].height = height]
        /\ UNCHANGED <<modules, aliases, loading, frames, made, spawnedVm, inherited, home, loads>>
    BY DEF Work
  <1>b. ModuleTypeOK /\ language[v] \in Languages
    BY DEF ModulesInv, ModuleTypeOK
  <1>c. language'[v] = [language[v] EXCEPT !.height = height]
    BY <1>a, <1>b DEF ModuleTypeOK
  <1>d. language'[v] \in Languages /\ language'[v].serial = language[v].serial
    BY <1>b, <1>c DEF Languages
  <1>1. ModuleTypeOK'
    <2>1. language' = [language EXCEPT ![v] = language'[v]]
      BY <1>a, <1>b, <1>c DEF ModuleTypeOK
    <2>2. language' \in [ModuleVMs -> Languages]
      BY <1>b, <1>d, <2>1 DEF ModuleTypeOK
    <2> QED BY <1>a, <1>b, <2>2 DEF ModuleTypeOK
  <1>2. VmInv(v)'
    <2>1. VmInv(v)
      BY DEF ModulesInv
    <2>2. \A i : SerialAt(frames[v], language'[v], i) = SerialAt(frames[v], language[v], i)
      BY <1>d DEF SerialAt
    <2>3. FramesNest(frames[v], language'[v], home[v], made)
      BY <2>1, <2>2 DEF VmInv, FramesNest
    <2>4. TableApart(frames[v], language'[v], modules[v], made)
      BY <2>1, <2>2 DEF VmInv, TableApart
    <2> QED BY <1>a, <2>1, <2>3, <2>4 DEF VmInv
  <1>3. \A w \in ModuleVMs \ {v} : VmInv(w)'
    <2>1. made \in Nat /\ made' \in Nat /\ made <= made'
      BY <1>a, VmParts
    <2>2. \A w \in ModuleVMs \ {v} : language'[w] = language[w]
      BY <1>a, <1>b DEF ModuleTypeOK
    <2> QED BY <1>a, <2>1, <2>2, OtherVm
  <1> QED BY <1>a, <1>1, <1>2, <1>3 DEF ModulesInv

(* A task's VM starts with the tables of the program, in a state of its    *)
(* own.                                                                    *)
LEMMA SpawnVmKeeps ==
    ASSUME ModulesInv, SpawnVm
    PROVE  ModulesInv'
  <1> DEFINE new == [serial |-> made + 1, height |-> 0]
             p == "program"
             t == "task"
  <1>a. /\ ~spawnedVm /\ made < MaxLanguages /\ spawnedVm' = TRUE /\ made' = made + 1
        /\ modules' = [modules EXCEPT ![t] = modules[p]]
        /\ aliases' = [aliases EXCEPT ![t] = aliases[p]]
        /\ loading' = [loading EXCEPT ![t] = loading[p]]
        /\ inherited' = [inherited EXCEPT ![t] = loading[p]]
        /\ home' = [home EXCEPT ![t] = made + 1]
        /\ language' = [language EXCEPT ![t] = new]
        /\ UNCHANGED <<frames, loads>>
    BY DEF SpawnVm
  <1>b. p \in ModuleVMs /\ t \in ModuleVMs /\ p # t
    BY DEF ModuleVMs
  <1>c. /\ ModuleTypeOK /\ frames \in [ModuleVMs -> Seq(ModuleFrames)]
        /\ home \in [ModuleVMs -> 0 .. MaxLanguages]
        /\ frames[t] = << >> /\ \A k \in ModuleIds : loads[t][k] = 0
    BY <1>a DEF ModulesInv
  <1>d. made \in Nat /\ made' \in Nat /\ made <= made' /\ made + 1 \in 0 .. MaxLanguages
    BY <1>a, <1>b, VmParts, ModuleAssumption
  <1>e. new \in Languages /\ new.serial = made + 1
    BY <1>d, ModuleAssumption DEF Languages
  <1> HIDE DEF new, p, t
  <1>f. /\ modules'[t] = modules[p] /\ loading'[t] = loading[p] /\ inherited'[t] = loading[p]
        /\ home'[t] = made + 1 /\ language'[t] = new
        /\ modules'[p] = modules[p] /\ loading'[p] = loading[p] /\ inherited'[p] = inherited[p]
        /\ home'[p] = home[p] /\ language'[p] = language[p]
    BY <1>a, <1>b, <1>c DEF ModuleTypeOK
  <1>1. ModuleTypeOK'
    <2>1. modules' \in [ModuleVMs -> [ModuleIds -> Languages \cup {NotLoaded}]]
      BY <1>a, <1>b, <1>c DEF ModuleTypeOK
    <2>2. aliases' \in [ModuleVMs -> [Specifiers -> ModuleIds \cup {NotLoaded}]]
      BY <1>a, <1>b, <1>c DEF ModuleTypeOK
    <2>3. /\ loading' \in [ModuleVMs -> SUBSET (Specifiers \cup ModuleIds)]
          /\ inherited' \in [ModuleVMs -> SUBSET (Specifiers \cup ModuleIds)]
      BY <1>a, <1>b, <1>c DEF ModuleTypeOK
    <2>4. language' \in [ModuleVMs -> Languages]
      BY <1>a, <1>c, <1>e DEF ModuleTypeOK
    <2> QED BY <1>a, <1>c, <1>d, <2>1, <2>2, <2>3, <2>4 DEF ModuleTypeOK
  <1>2. frames' \in [ModuleVMs -> Seq(ModuleFrames)] /\ home' \in [ModuleVMs -> 0 .. MaxLanguages]
    BY <1>a, <1>c, <1>d
  <1>3. VmInv(p)'
    BY <1>a, <1>b, <1>d, <1>f, OtherVm
  <1>4. VmInv(t)'
    <2>1. /\ ImportsIn(frames[t]) = {} /\ Depths(frames[t]) = {1}
          /\ SerialAt(frames[t], new, 1) = made + 1 /\ DOMAIN frames[t] = {}
      BY <1>c, <1>e DEF ImportsIn, Depths, SerialAt
    <2>2. FramesNest(frames[t], new, made + 1, made + 1)
      BY <1>d, <2>1 DEF FramesNest
    <2>3. TableApart(frames[t], new, modules[p], made + 1)
      <3>1. TableApart(frames[p], language[p], modules[p], made)
        BY <1>b, VmParts
      <3> QED BY <1>d, <2>1, <3>1 DEF TableApart
    <2>4. MarksNest(frames[t], loading[p], loading[p])
      BY <2>1 DEF MarksNest, MarksIn
    <2>5. LoadedOnce(frames[t], modules[p], loads[t])
      BY <1>c, <2>1 DEF LoadedOnce
    <2>6. frames[t] \in Seq(ModuleFrames)
      BY <1>b, <1>c
    <2> QED BY <1>a, <1>f, <2>2, <2>3, <2>4, <2>5, <2>6 DEF VmInv
  <1>5. \A v \in ModuleVMs : v = p \/ v = t
    BY DEF ModuleVMs, p, t
  <1> QED BY <1>a, <1>1, <1>2, <1>3, <1>4, <1>5 DEF ModulesInv

(* Every step of both VMs keeps the invariant.                             *)
LEMMA ModuleStep == ModulesInv /\ [ModuleNext]_moduleVars => ModulesInv'
  <1> SUFFICES ASSUME ModulesInv, [ModuleNext]_moduleVars PROVE ModulesInv'
    OBVIOUS
  <1>1. CASE UNCHANGED moduleVars
    <2>1. UNCHANGED <<modules, aliases, loading, language, frames, made, spawnedVm, inherited, home, loads>>
      BY <1>1 DEF moduleVars
    <2>2. ModuleTypeOK'
      BY <2>1 DEF ModulesInv, ModuleTypeOK
    <2>3. \A w \in ModuleVMs : VmInv(w)'
      BY <2>1, VmParts, OtherVm
    <2> QED BY <2>1, <2>2, <2>3 DEF ModulesInv
  <1> QED BY <1>1, ImportLoadedKeeps, ImportStartsKeeps, ImportEndsKeeps, CallStartsKeeps,
             CallUnderflowsKeeps, CallEndsKeeps, WorkKeeps, SpawnVmKeeps DEF ModuleNext

(* For any modules, names and depth of nesting: the swaps of language      *)
(* states nest, marks are cleared, and a VM runs the code of a module once *)
(* but for an import of a module by its own function (import_dynamic,      *)
(* module_call).                                                           *)
THEOREM ModulesAreSound == ModuleSpec => []ModulesSound
  <1> QED BY ModulesInvSound, InitModules, ModuleStep, PTL DEF ModuleSpec

(* ModuleTypeOK is invariant for any number of modules and nested imports. *)
THEOREM ModuleTypesKept == ModuleSpec => []ModuleTypeOK
  <1>1. ModulesInv => ModuleTypeOK
    BY DEF ModulesInv
  <1> QED BY <1>1, InitModules, ModuleStep, PTL DEF ModuleSpec

-----------------------------------------------------------------------------
(***************************************************************************)
(* The watched server, for any number of requests, contents and saves.     *)
(***************************************************************************)

(* The contents of the files so far: every save adds at most one.          *)
Pasts == UNION {{f} \X past[f] : f \in WatchedFiles}
(* There are no more of them than saves, and the files have the last ones. *)
PastInv ==
    /\ past \in [WatchedFiles -> SUBSET FileContents]
    /\ IsFiniteSet(Pasts) /\ Cardinality(Pasts) <= edits + 3
    /\ \A f \in WatchedFiles : watchedFiles[f] \in past[f]

(* The first n contents of a signature were once in the files, or are.     *)
WasSigned(s, n) == \A i \in 1 .. n : s[i] \in past[SignatureOrder[i]]
(* They still are.                                                         *)
AsSigned(s, n) == \A i \in 1 .. n : s[i] = watchedFiles[SignatureOrder[i]]

(* What a request has read at each step.  It is what the files hold if     *)
(* nothing was saved since the request began; and if no file got earlier   *)
(* contents back, a signature that still holds was not followed by a save, *)
(* so that the routes that were read after it are those on disk.           *)
RequestInv(b, st, rd, tk) ==
    /\ st \in {"idle", "lock"} => rd = << >>
    /\ st = "sign" => /\ Len(rd) <= 2 /\ WasSigned(rd, Len(rd))
                      /\ edits = b.edits => AsSigned(rd, Len(rd))
    /\ st \in {"lock", "build"} => /\ tk \in Signatures /\ WasSigned(tk, 3)
                                   /\ edits = b.edits => AsSigned(tk, 3)
    /\ st = "build" => Len(rd) <= 1
    /\ st = "build" /\ Len(rd) = 1 =>
          /\ edits = b.edits => rd[1] = watchedFiles["routes"]
          /\ ~Returned /\ tk[3] = watchedFiles["routes"] => rd[1] = watchedFiles["routes"]

(* The same of the stored signature and the runtime.                       *)
StoredInv ==
    /\ current \in Runtimes /\ signature \in Signatures /\ WasSigned(signature, 3)
    /\ ~startEdited /\ ~Returned =>
          /\ signature[3] = watchedFiles["routes"] => current.routes = watchedFiles["routes"]
          /\ signature[1] = watchedFiles["controller"] => current.controller = watchedFiles["controller"]

(* What start-up has read.                                                 *)
StartupInv(st, rd) ==
    /\ st = "build" =>
          /\ Len(rd) <= 1
          /\ ~startEdited => \A i \in 1 .. Len(rd) : rd[i] = watchedFiles[BuildOrder[i]]
    /\ st = "sign" =>
          /\ Len(rd) <= 2 /\ current \in Runtimes /\ WasSigned(rd, Len(rd))
          /\ ~startEdited => ~Outdated(current) /\ AsSigned(rd, Len(rd))
    /\ st = "serving" => StoredInv

(* The runtime carries the number of its revision, and a request has the   *)
(* runtime of the revision that it was given.                              *)
ServedInv(r) ==
    served[r] # Unread =>
        /\ step[r] \in {"body", "done"}
        /\ served[r].runtime.number = served[r].revision
        /\ begun[r].revision <= served[r].revision /\ served[r].revision <= revision
        /\ served[r].revision = revision => served[r].runtime = current
(* The same of all requests, with those that share a revision.             *)
RevisionsInv ==
    /\ step["startup"] = "build" => revision = 0
    /\ step["startup"] \in {"sign", "serving"} => current.number = revision
    /\ \A r \in WebRequests : begun[r].edits <= edits /\ begun[r].revision <= revision
    /\ \A r \in WebRequests : ServedInv(r)
    /\ \A r, q \in WebRequests :
          served[r] # Unread /\ served[q] # Unread /\ served[r].revision = served[q].revision
              => served[r].runtime = served[q].runtime

(* The types of the values that ReloadTypeOK does not name.                *)
ReloadShapes ==
    /\ read \in [Readers -> Seq(FileContents)]
    /\ begun \in [WebRequests -> [edits : Nat, revision : Nat]]

(* The inductive invariant.                                                *)
ReloadInv ==
    /\ ReloadTypeOK /\ ReloadShapes /\ PastInv
    /\ StartupInv(step["startup"], read["startup"])
    /\ \A r \in WebRequests : step[r] # "idle" => step["startup"] = "serving"
    /\ \A r \in WebRequests : RequestInv(begun[r], step[r], read[r], taken[r])
    /\ RevisionsInv /\ ServedAsSaved

-----------------------------------------------------------------------------
(* The files in the order in which they are read.                          *)
LEMMA Orders ==
    /\ SignatureOrder[1] = "controller" /\ SignatureOrder[2] = "view" /\ SignatureOrder[3] = "routes"
    /\ Len(SignatureOrder) = 3 /\ BuildOrder[1] = "routes" /\ BuildOrder[2] = "controller"
    /\ Len(BuildOrder) = 2
    /\ \A i \in 1 .. 3 : SignatureOrder[i] \in WatchedFiles
    /\ "routes" \in WatchedFiles /\ "controller" \in WatchedFiles /\ "view" \in WatchedFiles
  <1>1. /\ SignatureOrder[1] = "controller" /\ SignatureOrder[2] = "view" /\ SignatureOrder[3] = "routes"
        /\ Len(SignatureOrder) = 3
    BY DEF SignatureOrder
  <1>2. BuildOrder[1] = "routes" /\ BuildOrder[2] = "controller" /\ Len(BuildOrder) = 2
    BY DEF BuildOrder
  <1>3. \A i \in 1 .. 3 : i = 1 \/ i = 2 \/ i = 3
    OBVIOUS
  <1> QED BY <1>1, <1>2, <1>3 DEF WatchedFiles

(* There are three of them.                                                *)
LEMMA ThreeFiles == IsFiniteSet(WatchedFiles) /\ Cardinality(WatchedFiles) = 3
  <1>1. IsFiniteSet({"view"}) /\ Cardinality({"view"}) = 1
    BY FS_Singleton
  <1>2. IsFiniteSet({"view"} \cup {"routes"}) /\ Cardinality({"view"} \cup {"routes"}) = 2
    BY <1>1, FS_AddElement
  <1>3. /\ IsFiniteSet({"view"} \cup {"routes"} \cup {"controller"})
        /\ Cardinality({"view"} \cup {"routes"} \cup {"controller"}) = 3
    BY <1>2, FS_AddElement
  <1>4. WatchedFiles = {"view"} \cup {"routes"} \cup {"controller"}
    BY DEF WatchedFiles
  <1> QED BY <1>3, <1>4

(* What a reader has once it read one more file.                           *)
LEMMA OneMoreFile ==
    ASSUME NEW p, read[p] \in Seq(FileContents), NEW order, NEW f \in WatchedFiles,
           watchedFiles \in [WatchedFiles -> FileContents], order[Len(read[p]) + 1] = f
    PROVE  /\ WithNext(p, order) \in Seq(FileContents)
           /\ Len(WithNext(p, order)) = Len(read[p]) + 1 /\ Len(read[p]) \in Nat
           /\ Last(WithNext(p, order)) = watchedFiles[f]
           /\ WithNext(p, order)[Len(read[p]) + 1] = watchedFiles[f]
           /\ \A i \in 1 .. Len(read[p]) : WithNext(p, order)[i] = read[p][i]
  <1>1. WithNext(p, order) = Append(read[p], watchedFiles[f]) /\ watchedFiles[f] \in FileContents
    BY DEF WithNext, NextFile
  <1> QED BY <1>1 DEF Last

(* A sequence of three contents is a signature.                            *)
LEMMA ThreeContents ==
    ASSUME NEW s \in Seq(FileContents), Len(s) = 3
    PROVE  s \in Signatures
  BY DEF Signatures

(* The invariant gives both parts of the property.                         *)
LEMMA ReloadInvCoherent == ReloadInv => ReloadCoherent
  <1> SUFFICES ASSUME ReloadInv PROVE ReloadCoherent
    OBVIOUS
  <1>1. RevisionsNameRuntimes
    <2>1. \A r \in WebRequests : served[r] # Unread =>
            /\ served[r].runtime.number = served[r].revision
            /\ begun[r].revision <= served[r].revision
      BY DEF ReloadInv, RevisionsInv, ServedInv
    <2>2. \A r, q \in WebRequests :
            served[r] # Unread /\ served[q] # Unread =>
                ((served[r].revision = served[q].revision) <=> (served[r].runtime = served[q].runtime))
      BY <2>1 DEF ReloadInv, RevisionsInv
    <2>3. \A r \in WebRequests : served[r] # Unread =>
            served[r].revision \in Nat /\ begun[r].revision \in Nat
      BY DEF ReloadInv, ReloadTypeOK, ReloadShapes
    <2> QED BY <2>1, <2>2, <2>3 DEF RevisionsNameRuntimes
  <1> QED BY <1>1 DEF ReloadCoherent, ReloadInv

-----------------------------------------------------------------------------
(* Before start-up read anything, every file has had its first contents.   *)
LEMMA InitReload == ReloadInit => ReloadInv
  <1> SUFFICES ASSUME ReloadInit PROVE ReloadInv
    OBVIOUS
  <1> USE ReloadAssumption
  <1>a. watchedFiles \in [WatchedFiles -> FileContents]
    <2>1. (CHOOSE c \in FileContents : c # BrokenCode) \in FileContents
      <3>1. \E c \in FileContents : c # BrokenCode
        OBVIOUS
      <3> QED BY <3>1
    <2> QED BY <2>1 DEF ReloadInit
  <1>b. /\ \A r \in WebRequests : step[r] = "idle" /\ read[r] = << >> /\ served[r] = Unread
        /\ \A r \in WebRequests : begun[r].edits = 0 /\ begun[r].revision = 0
        /\ step["startup"] = "build" /\ read["startup"] = << >>
        /\ edits = 0 /\ revision = 0 /\ stale = {}
    BY DEF ReloadInit, Readers
  <1>1. ReloadTypeOK
    <2>1. step \in [Readers -> {"idle", "sign", "lock", "build", "serving", "body", "done", "failed"}]
      BY DEF ReloadInit
    <2>2. /\ taken \in [WebRequests -> Signatures \cup {Unread}]
          /\ served \in [WebRequests -> [runtime : Runtimes, revision : Nat] \cup {Unread}]
          /\ rendered \in [WebRequests -> FileContents \cup {Unread}]
      BY DEF ReloadInit
    <2>3. /\ current \in Runtimes \cup {Unread} /\ signature \in Signatures \cup {Unread}
          /\ signatureLock \in WebRequests \cup {Unread} /\ startEdited \in BOOLEAN
      BY DEF ReloadInit
    <2>4. edits \in 0 .. MaxEdits /\ revision \in Nat /\ stale \subseteq WebRequests
      BY <1>b
    <2> QED BY <1>a, <2>1, <2>2, <2>3, <2>4 DEF ReloadTypeOK
  <1>2. ReloadShapes
    BY DEF ReloadInit, ReloadShapes
  <1>3. PastInv
    <2>1. past = [f \in WatchedFiles |-> {watchedFiles[f]}]
      BY DEF ReloadInit
    <2>2. past \in [WatchedFiles -> SUBSET FileContents] /\ \A f \in WatchedFiles : watchedFiles[f] \in past[f]
      BY <1>a, <2>1
    <2>3. IsFiniteSet(Pasts) /\ Cardinality(Pasts) <= 3
      <3> DEFINE P(f) == <<f, watchedFiles[f]>>
      <3>1. Pasts = {P("view")} \cup {P("routes")} \cup {P("controller")}
        BY <2>1 DEF Pasts, WatchedFiles
      <3> HIDE DEF P
      <3>2. IsFiniteSet({P("view")}) /\ Cardinality({P("view")}) = 1
        BY FS_Singleton
      <3>3. /\ IsFiniteSet({P("view")} \cup {P("routes")})
            /\ Cardinality({P("view")} \cup {P("routes")}) \in {1, 2}
        BY <3>2, FS_AddElement
      <3>4. /\ IsFiniteSet({P("view")} \cup {P("routes")} \cup {P("controller")})
            /\ Cardinality({P("view")} \cup {P("routes")} \cup {P("controller")}) \in {1, 2, 3}
        BY <3>3, FS_AddElement
      <3> QED BY <3>1, <3>4
    <2>4. Cardinality(Pasts) \in Nat
      BY <2>3, FS_CardinalityType
    <2> QED BY <1>b, <2>2, <2>3, <2>4 DEF PastInv
  <1>4. StartupInv(step["startup"], read["startup"])
    BY <1>b DEF StartupInv
  <1>5. \A r \in WebRequests : RequestInv(begun[r], step[r], read[r], taken[r])
    BY <1>b DEF RequestInv
  <1>6. RevisionsInv /\ ServedAsSaved
    BY <1>b DEF RevisionsInv, ServedInv, ServedAsSaved
  <1> QED BY <1>b, <1>1, <1>2, <1>3, <1>4, <1>5, <1>6 DEF ReloadInv

-----------------------------------------------------------------------------
(* A save that is followed by no return of earlier contents brought new    *)
(* ones, and there was none before.                                        *)
LEMMA SavesCounted ==
    ASSUME ReloadInv, NEW f \in WatchedFiles, NEW c \in FileContents, Edit(f, c)
    PROVE  /\ PastInv'
           /\ Returned => Returned'
           /\ ~Returned' => c \notin past[f]
  <1>a. /\ edits \in Nat /\ edits' = edits + 1
        /\ past' = [past EXCEPT ![f] = past[f] \cup {c}]
        /\ watchedFiles' = [watchedFiles EXCEPT ![f] = c]
        /\ watchedFiles \in [WatchedFiles -> FileContents]
    BY ReloadAssumption DEF Edit, ReloadInv, ReloadTypeOK
  <1>b. PastInv /\ past \in [WatchedFiles -> SUBSET FileContents]
    BY DEF ReloadInv, PastInv
  <1>c. Pasts' = Pasts \cup {<<f, c>>}
    <2>1. \A g \in WatchedFiles : past'[g] = IF g = f THEN past[f] \cup {c} ELSE past[g]
      BY <1>a, <1>b
    <2>2. ASSUME NEW x PROVE x \in Pasts' <=> x \in Pasts \/ x = <<f, c>>
      <3>1. x \in Pasts' <=> \E g \in WatchedFiles : x \in {g} \X past'[g]
        BY DEF Pasts
      <3>2. x \in Pasts <=> \E g \in WatchedFiles : x \in {g} \X past[g]
        BY DEF Pasts
      <3> QED BY <2>1, <3>1, <3>2
    <2> QED BY <2>2
  <1>d. <<f, c>> \in Pasts <=> c \in past[f]
    BY DEF Pasts
  <1>e. /\ IsFiniteSet(Pasts) /\ Cardinality(Pasts) \in Nat /\ IsFiniteSet(Pasts')
        /\ Cardinality(Pasts') = IF c \in past[f] THEN Cardinality(Pasts) ELSE Cardinality(Pasts) + 1
    <2>1. IsFiniteSet(Pasts)
      BY <1>b DEF PastInv
    <2> QED BY <1>c, <1>d, <2>1, FS_CardinalityType, FS_AddElement
  <1>f. /\ Returned <=> edits > Cardinality(Pasts) - 3
        /\ Returned' <=> edits' > Cardinality(Pasts') - 3
    BY ThreeFiles DEF Returned, Pasts
  <1>g. Cardinality(Pasts) <= edits + 3
    BY <1>b DEF PastInv
  <1>1. PastInv'
    <2>1. past' \in [WatchedFiles -> SUBSET FileContents]
      BY <1>a, <1>b
    <2>2. \A g \in WatchedFiles : watchedFiles'[g] \in past'[g]
      BY <1>a, <1>b DEF PastInv
    <2>3. Cardinality(Pasts') <= edits' + 3
      BY <1>a, <1>e, <1>g
    <2> QED BY <1>e, <2>1, <2>2, <2>3 DEF PastInv
  <1>2. Returned => Returned'
    BY <1>a, <1>e, <1>f, <1>g
  <1>3. ~Returned' => c \notin past[f]
    BY <1>a, <1>e, <1>f, <1>g
  <1> QED BY <1>1, <1>2, <1>3

(* The developer saves a file.                                             *)
LEMMA EditKeeps ==
    ASSUME ReloadInv, NEW f \in WatchedFiles, NEW c \in FileContents, Edit(f, c)
    PROVE  ReloadInv'
  <1>a. /\ ReloadTypeOK /\ ReloadShapes /\ PastInv /\ RevisionsInv /\ ServedAsSaved
        /\ StartupInv(step["startup"], read["startup"])
    BY DEF ReloadInv
  <1>b. /\ edits < MaxEdits /\ edits' = edits + 1
        /\ watchedFiles' = [watchedFiles EXCEPT ![f] = c]
        /\ past' = [past EXCEPT ![f] = past[f] \cup {c}]
        /\ startEdited' = (startEdited \/ step["startup"] \in {"build", "sign"})
        /\ UNCHANGED <<current, signature, signatureLock, revision, step, read, taken, served,
                       rendered, begun, stale>>
    BY DEF Edit
  <1>c. PastInv' /\ (~Returned' => ~Returned /\ c \notin past[f])
    BY SavesCounted
  <1>d. edits \in Nat /\ edits' \in 0 .. MaxEdits /\ startEdited \in BOOLEAN /\ startEdited' \in BOOLEAN
    BY <1>a, <1>b, ReloadAssumption DEF ReloadTypeOK
  <1>e. /\ watchedFiles' \in [WatchedFiles -> FileContents]
        /\ \A g \in WatchedFiles : past[g] \subseteq past'[g]
        /\ \A g \in WatchedFiles : watchedFiles'[g] = IF g = f THEN c ELSE watchedFiles[g]
    BY <1>a, <1>b DEF ReloadTypeOK, PastInv
  <1>f. \A s, n : n \in {0, 1, 2, 3} /\ WasSigned(s, n) => WasSigned(s, n)'
    BY <1>e, Orders DEF WasSigned
  <1>g. \A g \in WatchedFiles : \A x : ~Returned' /\ x \in past[g] /\ x = watchedFiles'[g] =>
            watchedFiles'[g] = watchedFiles[g]
    BY <1>c, <1>e
  <1>1. ReloadTypeOK' /\ ReloadShapes'
    <2>1. ReloadTypeOK'
      BY <1>a, <1>b, <1>d, <1>e DEF ReloadTypeOK
    <2> QED BY <1>a, <1>b, <2>1 DEF ReloadShapes
  <1>2. StartupInv(step["startup"], read["startup"])'
    <2>1. CASE step["startup"] = "build"
      BY <1>a, <1>b, <2>1 DEF StartupInv
    <2>2. CASE step["startup"] = "sign"
      <3>1. Len(read["startup"]) \in {0, 1, 2}
        <4>1. read["startup"] \in Seq(FileContents)
          BY <1>a DEF ReloadShapes, Readers
        <4>2. Len(read["startup"]) \in Nat /\ Len(read["startup"]) <= 2
          BY <1>a, <2>2, <4>1 DEF StartupInv
        <4>3. \A n \in Nat : n <= 2 => n \in {0, 1, 2}
          OBVIOUS
        <4> QED BY <4>2, <4>3
      <3> QED BY <1>a, <1>b, <1>f, <2>2, <3>1 DEF StartupInv
    <2>3. CASE step["startup"] = "serving"
      <3>1. StoredInv
        BY <1>a, <2>3 DEF StartupInv
      <3>2. signature[3] \in past["routes"] /\ signature[1] \in past["controller"]
        BY <3>1, Orders DEF StoredInv, WasSigned
      <3>3. WasSigned(signature, 3)'
        BY <1>b, <1>f, <3>1 DEF StoredInv, WasSigned
      <3>4. startEdited' = startEdited
        BY <1>b, <1>d, <2>3
      <3>5. StoredInv'
        BY <1>b, <1>c, <1>g, <3>1, <3>2, <3>3, <3>4, Orders DEF StoredInv
      <3> QED BY <1>b, <2>3, <3>5 DEF StartupInv
    <2>4. CASE step["startup"] \notin {"build", "sign", "serving"}
      BY <1>b, <2>4 DEF StartupInv
    <2> QED BY <2>1, <2>2, <2>3, <2>4
  <1>3. ASSUME NEW r \in WebRequests
        PROVE  RequestInv(begun[r], step[r], read[r], taken[r])'
    <2>1. RequestInv(begun[r], step[r], read[r], taken[r]) /\ edits' # begun[r].edits
      <3>1. begun[r].edits <= edits /\ begun[r].edits \in Nat
        BY <1>a DEF RevisionsInv, ReloadShapes
      <3> QED BY <1>b, <1>d, <3>1 DEF ReloadInv
    <2>2. step[r] = "sign" => Len(read[r]) \in {0, 1, 2}
      <3>1. read[r] \in Seq(FileContents)
        BY <1>a DEF ReloadShapes, Readers
      <3>2. Len(read[r]) \in Nat /\ (step[r] = "sign" => Len(read[r]) <= 2)
        BY <2>1, <3>1 DEF RequestInv
      <3>3. \A n \in Nat : n <= 2 => n \in {0, 1, 2}
        OBVIOUS
      <3> QED BY <3>2, <3>3
    <2>3. step[r] = "sign" => WasSigned(read[r], Len(read[r]))'
      BY <1>b, <1>f, <2>1, <2>2 DEF RequestInv, WasSigned
    <2>4. step[r] \in {"lock", "build"} => WasSigned(taken[r], 3)'
      BY <1>b, <1>f, <2>1 DEF RequestInv, WasSigned
    <2>5. step[r] = "build" => taken[r][3] \in past["routes"]
      BY <2>1, Orders DEF RequestInv, WasSigned
    <2>6. step[r] = "build" /\ Len(read[r]) = 1 /\ ~Returned' /\ taken[r][3] = watchedFiles'["routes"]
            => read[r][1] = watchedFiles'["routes"]
      BY <1>c, <1>g, <2>1, <2>5, Orders DEF RequestInv
    <2> QED BY <1>b, <2>1, <2>3, <2>4, <2>6 DEF RequestInv
  <1>4. RevisionsInv'
    <2>1. \A r \in WebRequests : begun[r].edits \in Nat /\ begun[r].edits <= edits'
      BY <1>a, <1>b, <1>d DEF RevisionsInv, ReloadShapes
    <2> QED BY <1>a, <1>b, <2>1 DEF RevisionsInv, ServedInv
  <1>5. ServedAsSaved'
    BY <1>a, <1>b, <1>c DEF ServedAsSaved
  <1>6. \A r \in WebRequests : step'[r] # "idle" => step'["startup"] = "serving"
    BY <1>b DEF ReloadInv
  <1> QED BY <1>c, <1>1, <1>2, <1>3, <1>4, <1>5, <1>6 DEF ReloadInv

-----------------------------------------------------------------------------
(* A step of start-up leaves the requests, which have not begun, alone.    *)
StartOnly ==
    /\ step' \in [Readers -> {"idle", "sign", "lock", "build", "serving", "body", "done", "failed"}]
    /\ read' \in [Readers -> Seq(FileContents)]
    /\ \A r \in WebRequests : step'[r] = step[r] /\ read'[r] = read[r]
    /\ current' \in Runtimes \cup {Unread} /\ signature' \in Signatures \cup {Unread}
    /\ UNCHANGED <<watchedFiles, signatureLock, revision, taken, served, rendered, edits, past,
                   begun, startEdited, stale>>

(* Such a step keeps the invariant if it keeps what start-up has read.     *)
LEMMA StartKeeps ==
    ASSUME ReloadInv, step["startup"] # "serving", StartOnly,
           StartupInv(step["startup"], read["startup"])',
           step'["startup"] = "build" => revision = 0,
           step'["startup"] \in {"sign", "serving"} => current'.number = revision
    PROVE  ReloadInv'
  <1>a. /\ ReloadTypeOK /\ ReloadShapes /\ PastInv /\ RevisionsInv /\ ServedAsSaved
        /\ \A r \in WebRequests : step[r] = "idle"
        /\ \A r \in WebRequests : RequestInv(begun[r], step[r], read[r], taken[r])
    BY DEF ReloadInv
  <1>b. /\ UNCHANGED <<watchedFiles, signatureLock, revision, taken, served, rendered, edits, past,
                        begun, startEdited, stale>>
        /\ \A r \in WebRequests : step'[r] = step[r] /\ read'[r] = read[r]
    BY DEF StartOnly
  <1>1. ReloadTypeOK'
    BY <1>a, StartOnly DEF StartOnly, ReloadTypeOK
  <1>2. ReloadShapes'
    BY <1>a, StartOnly DEF StartOnly, ReloadShapes
  <1>3. PastInv'
    BY <1>a, <1>b DEF PastInv, Pasts
  <1>4. ASSUME NEW r \in WebRequests
        PROVE  RequestInv(begun[r], step[r], read[r], taken[r])'
    BY <1>a, <1>b DEF RequestInv
  <1>5. RevisionsInv'
    <2>1. \A r \in WebRequests : served[r] = Unread
      BY <1>a DEF RevisionsInv, ServedInv
    <2> QED BY <1>a, <1>b, <2>1 DEF RevisionsInv, ServedInv
  <1>6. ServedAsSaved'
    BY <1>a, <1>b DEF ServedAsSaved, Returned
  <1> QED BY <1>a, <1>b, <1>1, <1>2, <1>3, <1>4, <1>5, <1>6 DEF ReloadInv

(* What the builder has once it read one more file.                        *)
LEMMA BuildOne ==
    ASSUME ReloadInv, NEW p \in Readers, Len(read[p]) <= 1
    PROVE  /\ Len(read[p]) \in {0, 1} /\ WithNext(p, BuildOrder) \in Seq(FileContents)
           /\ LastFile(p, BuildOrder) <=> Len(read[p]) = 1
           /\ Len(read[p]) = 0 => /\ Len(WithNext(p, BuildOrder)) = 1
                                  /\ WithNext(p, BuildOrder)[1] = watchedFiles["routes"]
           /\ Len(read[p]) = 1 => /\ WithNext(p, BuildOrder)[1] = read[p][1]
                                  /\ WithNext(p, BuildOrder)[2] = watchedFiles["controller"]
                                  /\ read[p][1] \in FileContents
                                  /\ watchedFiles["controller"] \in FileContents
  <1>1. read[p] \in Seq(FileContents) /\ watchedFiles \in [WatchedFiles -> FileContents]
    BY DEF ReloadInv, ReloadTypeOK, ReloadShapes
  <1>2. Len(read[p]) \in {0, 1}
    <2>1. Len(read[p]) \in Nat
      BY <1>1
    <2>2. \A n \in Nat : n <= 1 => n \in {0, 1}
      OBVIOUS
    <2> QED BY <2>1, <2>2
  <1>3. CASE Len(read[p]) = 0
    <2>1. Len(read[p]) + 1 = 1
      BY <1>3
    <2>2. BuildOrder[Len(read[p]) + 1] = "routes" /\ "routes" \in WatchedFiles
      BY <2>1, Orders
    <2>3. /\ WithNext(p, BuildOrder) \in Seq(FileContents)
          /\ Len(WithNext(p, BuildOrder)) = 1
          /\ WithNext(p, BuildOrder)[1] = watchedFiles["routes"]
      <3>1. /\ WithNext(p, BuildOrder) \in Seq(FileContents)
            /\ Len(WithNext(p, BuildOrder)) = Len(read[p]) + 1
            /\ WithNext(p, BuildOrder)[Len(read[p]) + 1] = watchedFiles["routes"]
        BY <1>1, <2>2, OneMoreFile
      <3> QED BY <2>1, <3>1
    <2>4. ~LastFile(p, BuildOrder)
      BY <2>1, Orders DEF LastFile
    <2> QED BY <1>2, <1>3, <2>3, <2>4
  <1>4. CASE Len(read[p]) = 1
    <2>1. Len(read[p]) + 1 = 2 /\ 1 \in 1 .. Len(read[p])
      BY <1>4
    <2>2. BuildOrder[Len(read[p]) + 1] = "controller" /\ "controller" \in WatchedFiles
      BY <2>1, Orders
    <2>3. /\ WithNext(p, BuildOrder) \in Seq(FileContents)
          /\ WithNext(p, BuildOrder)[2] = watchedFiles["controller"]
          /\ WithNext(p, BuildOrder)[1] = read[p][1]
      <3>1. /\ WithNext(p, BuildOrder) \in Seq(FileContents)
            /\ WithNext(p, BuildOrder)[Len(read[p]) + 1] = watchedFiles["controller"]
            /\ \A i \in 1 .. Len(read[p]) : WithNext(p, BuildOrder)[i] = read[p][i]
        BY <1>1, <2>2, OneMoreFile
      <3> QED BY <2>1, <3>1
    <2>4. LastFile(p, BuildOrder)
      BY <2>1, Orders DEF LastFile
    <2>5. read[p][1] \in FileContents /\ watchedFiles["controller"] \in FileContents
      BY <1>1, <2>1, <2>2
    <2> QED BY <1>2, <1>4, <2>3, <2>4, <2>5
  <1> QED BY <1>2, <1>3, <1>4

(* What the signature holds once one more file was read.                   *)
LEMMA SignOne ==
    ASSUME ReloadInv, NEW p \in Readers, Len(read[p]) <= 2
    PROVE  /\ Len(read[p]) \in {0, 1, 2} /\ WithNext(p, SignatureOrder) \in Seq(FileContents)
           /\ Len(WithNext(p, SignatureOrder)) = Len(read[p]) + 1
           /\ LastFile(p, SignatureOrder) <=> Len(read[p]) = 2
           /\ WasSigned(read[p], Len(read[p]))
                => WasSigned(WithNext(p, SignatureOrder), Len(read[p]) + 1)
           /\ AsSigned(read[p], Len(read[p]))
                => AsSigned(WithNext(p, SignatureOrder), Len(read[p]) + 1)
  <1> DEFINE n == Len(read[p])
             s == WithNext(p, SignatureOrder)
  <1>1. read[p] \in Seq(FileContents) /\ watchedFiles \in [WatchedFiles -> FileContents]
    BY DEF ReloadInv, ReloadTypeOK, ReloadShapes
  <1>2. n \in {0, 1, 2}
    <2>1. n \in Nat
      BY <1>1
    <2>2. \A k \in Nat : k <= 2 => k \in {0, 1, 2}
      OBVIOUS
    <2> QED BY <2>1, <2>2
  <1>3. n + 1 \in 1 .. 3 /\ (n + 1 = 3 <=> n = 2)
    <2>1. \A k \in {0, 1, 2} : k + 1 \in 1 .. 3 /\ (k + 1 = 3 <=> k = 2)
      OBVIOUS
    <2> QED BY <1>2, <2>1
  <1>4. SignatureOrder[n + 1] \in WatchedFiles
    BY <1>3, Orders
  <1>5. /\ s \in Seq(FileContents) /\ Len(s) = n + 1 /\ n \in Nat
        /\ s[n + 1] = watchedFiles[SignatureOrder[n + 1]]
        /\ \A i \in 1 .. n : s[i] = read[p][i]
    BY <1>1, <1>4, OneMoreFile
  <1>6. LastFile(p, SignatureOrder) <=> n = 2
    BY <1>3, Orders DEF LastFile
  <1>7. \A g \in WatchedFiles : watchedFiles[g] \in past[g]
    BY DEF ReloadInv, PastInv
  <1> HIDE DEF n, s
  <1>8. \A i \in 1 .. n + 1 : i \in 1 .. n \/ i = n + 1
    BY <1>5
  <1>9. WasSigned(read[p], n) => WasSigned(s, n + 1)
    BY <1>4, <1>5, <1>7, <1>8 DEF WasSigned
  <1>10. AsSigned(read[p], n) => AsSigned(s, n + 1)
    BY <1>5, <1>8 DEF AsSigned
  <1> QED BY <1>2, <1>5, <1>6, <1>9, <1>10 DEF n, s

(* The first build reads the routes and then the controllers.              *)
LEMMA StartBuildKeeps == ReloadInv /\ StartBuild => ReloadInv'
  <1> SUFFICES ASSUME ReloadInv, StartBuild PROVE ReloadInv'
    OBVIOUS
  <1> DEFINE rd == read["startup"]
             contents == WithNext("startup", BuildOrder)
  <1>a. /\ ReloadTypeOK /\ ReloadShapes
        /\ StartupInv("build", rd) /\ step["startup"] = "build" /\ revision = 0
    BY DEF ReloadInv, StartBuild, RevisionsInv
  <1>b. /\ UNCHANGED <<watchedFiles, signature, signatureLock, revision, taken, served, rendered,
                        edits, past, begun, startEdited, stale>>
        /\ \/ /\ step' = [step EXCEPT !["startup"] = "failed"]
              /\ UNCHANGED <<read, current>>
           \/ /\ LastFile("startup", BuildOrder)
              /\ current' = CompiledFrom(contents, 0)
              /\ step' = [step EXCEPT !["startup"] = "sign"]
              /\ read' = [read EXCEPT !["startup"] = << >>]
           \/ /\ ~LastFile("startup", BuildOrder)
              /\ read' = [read EXCEPT !["startup"] = contents]
              /\ UNCHANGED <<step, current>>
    BY DEF StartBuild
  <1>c. "startup" \in Readers /\ Len(rd) <= 1
    BY <1>a DEF StartupInv, Readers
  <1>d. /\ Len(rd) \in {0, 1} /\ contents \in Seq(FileContents)
        /\ LastFile("startup", BuildOrder) <=> Len(rd) = 1
        /\ Len(rd) = 0 => Len(contents) = 1 /\ contents[1] = watchedFiles["routes"]
        /\ Len(rd) = 1 => /\ contents[1] = rd[1] /\ contents[2] = watchedFiles["controller"]
                          /\ rd[1] \in FileContents /\ watchedFiles["controller"] \in FileContents
    BY <1>c, BuildOne
  <1>f. \A r \in WebRequests : r # "startup" /\ r \in Readers
    BY ReloadAssumption DEF Readers
  <1>g. step \in [Readers -> {"idle", "sign", "lock", "build", "serving", "body", "done", "failed"}]
        /\ read \in [Readers -> Seq(FileContents)]
        /\ current \in Runtimes \cup {Unread} /\ signature \in Signatures \cup {Unread}
    BY <1>a DEF ReloadTypeOK, ReloadShapes
  <1>h. ~startEdited => \A i \in 1 .. Len(rd) : rd[i] = watchedFiles[BuildOrder[i]]
    BY <1>a DEF StartupInv
  <1> HIDE DEF rd, contents
  <1>1. CASE /\ step' = [step EXCEPT !["startup"] = "failed"]
             /\ UNCHANGED <<read, current>>
    <2>1. StartOnly
      BY <1>b, <1>f, <1>g, <1>1 DEF StartOnly
    <2>2. step'["startup"] = "failed"
      BY <1>c, <1>g, <1>1
    <2>3. StartupInv(step["startup"], read["startup"])'
      BY <2>2 DEF StartupInv
    <2> QED BY <1>a, <2>1, <2>2, <2>3, StartKeeps
  <1>2. CASE /\ LastFile("startup", BuildOrder)
             /\ current' = CompiledFrom(contents, 0)
             /\ step' = [step EXCEPT !["startup"] = "sign"]
             /\ read' = [read EXCEPT !["startup"] = << >>]
    <2>1. Len(rd) = 1
      BY <1>d, <1>2
    <2>2. /\ contents[1] = rd[1] /\ contents[2] = watchedFiles["controller"]
          /\ contents[1] \in FileContents /\ contents[2] \in FileContents
      BY <1>d, <2>1
    <2>3. /\ current' \in Runtimes /\ current'.number = 0 /\ current'.routes = contents[1]
          /\ current'.controller = contents[2]
      BY <1>2, <2>2 DEF CompiledFrom, Runtimes
    <2>4. StartOnly
      <3>1. read' \in [Readers -> Seq(FileContents)] /\ \A r \in WebRequests : read'[r] = read[r]
        <4>1. << >> \in Seq(FileContents)
          OBVIOUS
        <4> QED BY <1>f, <1>g, <1>2, <4>1
      <3>2. /\ step' \in [Readers -> {"idle", "sign", "lock", "build", "serving", "body", "done", "failed"}]
            /\ \A r \in WebRequests : step'[r] = step[r]
        BY <1>f, <1>g, <1>2
      <3>3. current' \in Runtimes \cup {Unread} /\ signature' \in Signatures \cup {Unread}
        BY <1>b, <1>g, <2>3
      <3> QED BY <1>b, <3>1, <3>2, <3>3 DEF StartOnly
    <2>5. step'["startup"] = "sign" /\ read'["startup"] = << >>
      BY <1>c, <1>g, <1>2
    <2>6. ~startEdited => contents[1] = watchedFiles["routes"]
      BY <1>h, <2>1, <2>2, Orders
    <2>7. StartupInv(step["startup"], read["startup"])'
      <3>1. ~startEdited' => ~Outdated(current)'
        BY <1>b, <2>2, <2>3, <2>6 DEF Outdated
      <3>2. Len(read'["startup"]) = 0
        BY <2>5
      <3> QED BY <2>3, <2>5, <3>1, <3>2 DEF StartupInv, WasSigned, AsSigned
    <2> QED BY <1>a, <2>3, <2>4, <2>5, <2>7, StartKeeps
  <1>3. CASE /\ ~LastFile("startup", BuildOrder)
             /\ read' = [read EXCEPT !["startup"] = contents]
             /\ UNCHANGED <<step, current>>
    <2>1. Len(rd) = 0 /\ Len(contents) = 1 /\ contents[1] = watchedFiles["routes"]
      BY <1>d, <1>3
    <2>2. StartOnly
      BY <1>b, <1>d, <1>f, <1>g, <1>3 DEF StartOnly
    <2>3. step'["startup"] = "build" /\ read'["startup"] = contents
      BY <1>a, <1>c, <1>g, <1>3
    <2>4. StartupInv(step["startup"], read["startup"])'
      <3>1. \A i \in 1 .. 1 : contents[i] = watchedFiles'[BuildOrder[i]]
        <4>1. \A i \in 1 .. 1 : i = 1
          OBVIOUS
        <4> QED BY <1>b, <2>1, <4>1, Orders
      <3>2. Len(contents) <= 1
        BY <2>1
      <3> QED BY <2>1, <2>3, <3>1, <3>2 DEF StartupInv
    <2> QED BY <1>a, <2>2, <2>3, <2>4, StartKeeps
  <1> QED BY <1>b, <1>1, <1>2, <1>3

(* The first signature is read of the files as they are after that.        *)
LEMMA StartSignKeeps == ReloadInv /\ StartSign => ReloadInv'
  <1> SUFFICES ASSUME ReloadInv, StartSign PROVE ReloadInv'
    OBVIOUS
  <1> DEFINE rd == read["startup"]
             contents == WithNext("startup", SignatureOrder)
  <1>a. /\ ReloadTypeOK /\ ReloadShapes /\ current.number = revision
        /\ StartupInv("sign", rd) /\ step["startup"] = "sign"
    BY DEF ReloadInv, StartSign, RevisionsInv
  <1>b. /\ UNCHANGED <<watchedFiles, current, signatureLock, revision, taken, served, rendered,
                        edits, past, begun, startEdited, stale>>
        /\ read' = [read EXCEPT !["startup"] = contents]
        /\ \/ /\ LastFile("startup", SignatureOrder)
              /\ signature' = contents /\ step' = [step EXCEPT !["startup"] = "serving"]
           \/ /\ ~LastFile("startup", SignatureOrder)
              /\ UNCHANGED <<signature, step>>
    BY DEF StartSign
  <1>c. /\ "startup" \in Readers /\ Len(rd) <= 2 /\ current \in Runtimes
        /\ WasSigned(rd, Len(rd)) /\ (~startEdited => ~Outdated(current) /\ AsSigned(rd, Len(rd)))
    BY <1>a DEF StartupInv, Readers
  <1>d. /\ Len(rd) \in {0, 1, 2} /\ contents \in Seq(FileContents) /\ Len(contents) = Len(rd) + 1
        /\ LastFile("startup", SignatureOrder) <=> Len(rd) = 2
        /\ WasSigned(contents, Len(contents))
        /\ ~startEdited => AsSigned(contents, Len(contents))
    BY <1>c, SignOne
  <1>f. \A r \in WebRequests : r # "startup" /\ r \in Readers
    BY ReloadAssumption DEF Readers
  <1>g. step \in [Readers -> {"idle", "sign", "lock", "build", "serving", "body", "done", "failed"}]
        /\ read \in [Readers -> Seq(FileContents)]
        /\ current \in Runtimes \cup {Unread} /\ signature \in Signatures \cup {Unread}
    BY <1>a DEF ReloadTypeOK, ReloadShapes
  <1>h. read'["startup"] = contents
    BY <1>b, <1>c, <1>g
  <1>i. /\ WasSigned(read["startup"], Len(read["startup"]))'
        /\ ~startEdited' => ~Outdated(current)' /\ AsSigned(read["startup"], Len(read["startup"]))'
    <2> HIDE DEF contents
    <2>1. WasSigned(read["startup"], Len(read["startup"]))'
      BY <1>b, <1>d, <1>h DEF WasSigned
    <2>2. ~startEdited => AsSigned(read["startup"], Len(read["startup"]))'
      BY <1>b, <1>d, <1>h DEF AsSigned
    <2>3. ~startEdited => ~Outdated(current)'
      BY <1>b, <1>c DEF Outdated
    <2> QED BY <1>b, <2>1, <2>2, <2>3
  <1> HIDE DEF rd, contents
  <1>1. CASE /\ LastFile("startup", SignatureOrder)
             /\ signature' = contents /\ step' = [step EXCEPT !["startup"] = "serving"]
    <2>1. Len(contents) = 3
      <3>1. Len(rd) = 2 /\ Len(contents) = Len(rd) + 1
        BY <1>d, <1>1
      <3> QED BY <3>1
    <2>2. signature' \in Signatures
      BY <1>d, <1>1, <2>1, ThreeContents
    <2>3. StartOnly
      <3>1. read' \in [Readers -> Seq(FileContents)] /\ \A r \in WebRequests : read'[r] = read[r]
        BY <1>b, <1>d, <1>f, <1>g
      <3>2. /\ step' \in [Readers -> {"idle", "sign", "lock", "build", "serving", "body", "done", "failed"}]
            /\ \A r \in WebRequests : step'[r] = step[r]
        BY <1>f, <1>g, <1>1
      <3>3. current' \in Runtimes \cup {Unread} /\ signature' \in Signatures \cup {Unread}
        BY <1>b, <1>g, <2>2
      <3> QED BY <1>b, <3>1, <3>2, <3>3 DEF StartOnly
    <2>4. step'["startup"] = "serving"
      BY <1>c, <1>g, <1>1
    <2>5. WasSigned(signature, 3)' /\ (~startEdited' => ~Outdated(current)')
      BY <1>h, <1>i, <1>1, <2>1 DEF WasSigned
    <2>6. StoredInv'
      BY <1>b, <1>c, <2>2, <2>5 DEF StoredInv, Outdated
    <2>7. StartupInv(step["startup"], read["startup"])'
      BY <2>4, <2>6 DEF StartupInv
    <2> QED BY <1>a, <1>b, <2>3, <2>4, <2>7, StartKeeps
  <1>2. CASE ~LastFile("startup", SignatureOrder) /\ UNCHANGED <<signature, step>>
    <2>1. Len(contents) <= 2
      <3>1. \A n \in {0, 1, 2} : n # 2 => n + 1 <= 2
        OBVIOUS
      <3> QED BY <1>d, <1>2, <3>1
    <2>2. StartOnly
      <3>1. read' \in [Readers -> Seq(FileContents)] /\ \A r \in WebRequests : read'[r] = read[r]
        BY <1>b, <1>d, <1>f, <1>g
      <3> QED BY <1>b, <1>g, <1>2, <3>1 DEF StartOnly
    <2>3. step'["startup"] = "sign"
      BY <1>a, <1>2
    <2>4. StartupInv(step["startup"], read["startup"])'
      BY <1>b, <1>c, <1>h, <1>i, <2>1, <2>3 DEF StartupInv
    <2> QED BY <1>a, <1>b, <2>2, <2>3, <2>4, StartKeeps
  <1> QED BY <1>b, <1>1, <1>2

-----------------------------------------------------------------------------
(* A step of one request leaves the files and the others alone.            *)
RequestOnly(r) ==
    /\ \A p \in Readers \ {r} : step'[p] = step[p] /\ read'[p] = read[p]
    /\ \A q \in WebRequests \ {r} : taken'[q] = taken[q] /\ begun'[q] = begun[q]
    /\ UNCHANGED <<watchedFiles, edits, past, startEdited>>

(* Such a step keeps the invariant if it keeps what concerns the request   *)
(* and the server.                                                         *)
LEMMA RequestKeeps ==
    ASSUME ReloadInv, NEW r \in WebRequests, step["startup"] = "serving",
           ReloadTypeOK', ReloadShapes', RequestOnly(r), StoredInv', RevisionsInv', ServedAsSaved',
           RequestInv(begun[r], step[r], read[r], taken[r])'
    PROVE  ReloadInv'
  <1>a. /\ UNCHANGED <<watchedFiles, edits, past, startEdited>>
        /\ \A q \in WebRequests \ {r} : /\ step'[q] = step[q] /\ read'[q] = read[q]
                                        /\ taken'[q] = taken[q] /\ begun'[q] = begun[q]
        /\ step'["startup"] = "serving" /\ read'["startup"] = read["startup"]
    BY RequestOnly(r), ReloadAssumption DEF RequestOnly, Readers
  <1>1. PastInv'
    BY <1>a DEF ReloadInv, PastInv, Pasts
  <1>2. StartupInv(step["startup"], read["startup"])'
    BY <1>a DEF StartupInv
  <1>3. ASSUME NEW q \in WebRequests
        PROVE  RequestInv(begun[q], step[q], read[q], taken[q])'
    <2>1. CASE q = r
      BY <2>1
    <2>2. CASE q # r
      <3>1. RequestInv(begun[q], step[q], read[q], taken[q])
        BY DEF ReloadInv
      <3> QED BY <1>a, <2>2, <3>1 DEF RequestInv, WasSigned, AsSigned, Returned
    <2> QED BY <2>1, <2>2
  <1> QED BY <1>a, <1>1, <1>2, <1>3 DEF ReloadInv

(* A request that is served nothing in this step.                          *)
LEMMA UnservedKeeps ==
    ASSUME ReloadInv, NEW r \in WebRequests, step["startup"] = "serving",
           ReloadTypeOK', ReloadShapes', RequestOnly(r),
           UNCHANGED <<current, signature, revision, served, stale>>,
           RequestInv(begun[r], step[r], read[r], taken[r])',
           begun'[r].edits <= edits, begun'[r].revision <= revision,
           served[r] # Unread => step'[r] \in {"body", "done"} /\ begun'[r] = begun[r]
    PROVE  ReloadInv'
  <1>a. /\ UNCHANGED <<watchedFiles, edits, past, startEdited>>
        /\ \A q \in WebRequests \ {r} : step'[q] = step[q] /\ begun'[q] = begun[q]
        /\ step'["startup"] = "serving"
    BY RequestOnly(r), ReloadAssumption DEF RequestOnly, Readers
  <1>b. StoredInv /\ RevisionsInv /\ ServedAsSaved
    BY DEF ReloadInv, StartupInv
  <1>1. StoredInv'
    BY <1>a, <1>b DEF StoredInv, WasSigned, Returned
  <1>2. ServedAsSaved'
    BY <1>a, <1>b DEF ServedAsSaved, Returned
  <1>3. RevisionsInv'
    <2>1. ASSUME NEW q \in WebRequests PROVE ServedInv(q)'
      <3>1. ServedInv(q)
        BY <1>b DEF RevisionsInv
      <3>2. served[q] # Unread => begun'[q] = begun[q] /\ step'[q] \in {"body", "done"}
        BY <1>a, <3>1 DEF ServedInv
      <3> QED BY <3>1, <3>2 DEF ServedInv
    <2>2. \A q \in WebRequests : begun'[q].edits <= edits' /\ begun'[q].revision <= revision'
      BY <1>a, <1>b DEF RevisionsInv
    <2>3. current'.number = revision'
      BY <1>b DEF RevisionsInv
    <2> QED BY <1>a, <1>b, <2>1, <2>2, <2>3 DEF RevisionsInv
  <1> QED BY <1>1, <1>2, <1>3, RequestKeeps

(* What is known of a request that takes a step.                           *)
LEMMA RequestFacts ==
    ASSUME ReloadInv, NEW r \in WebRequests
    PROVE  /\ ReloadTypeOK /\ ReloadShapes /\ RevisionsInv /\ ServedAsSaved
           /\ r \in Readers /\ r # "startup" /\ read[r] \in Seq(FileContents)
           /\ step[r] # "idle" => step["startup"] = "serving"
           /\ step["startup"] = "serving" => StoredInv /\ current.number = revision
           /\ RequestInv(begun[r], step[r], read[r], taken[r])
           /\ begun[r] \in [edits : Nat, revision : Nat]
           /\ begun[r].edits <= edits /\ begun[r].revision <= revision
           /\ step[r] \notin {"body", "done"} => served[r] = Unread
  <1>1. /\ ReloadTypeOK /\ ReloadShapes /\ RevisionsInv /\ ServedAsSaved
        /\ step[r] # "idle" => step["startup"] = "serving"
        /\ step["startup"] = "serving" => StoredInv
        /\ RequestInv(begun[r], step[r], read[r], taken[r])
    BY DEF ReloadInv, StartupInv
  <1>2. r \in Readers /\ r # "startup"
    BY ReloadAssumption DEF Readers
  <1> QED BY <1>1, <1>2 DEF ReloadShapes, RevisionsInv, ServedInv

(* A request begins.                                                       *)
LEMMA BeginRequestKeeps ==
    ASSUME ReloadInv, NEW r \in WebRequests, BeginRequest(r)
    PROVE  ReloadInv'
  <1>a. /\ ReloadTypeOK /\ ReloadShapes /\ r \in Readers /\ served[r] = Unread
        /\ RequestInv(begun[r], "idle", read[r], taken[r]) /\ step["startup"] = "serving"
    BY RequestFacts DEF BeginRequest
  <1>b. /\ step' = [step EXCEPT ![r] = "sign"]
        /\ begun' = [begun EXCEPT ![r] = [edits |-> edits, revision |-> revision]]
        /\ UNCHANGED <<watchedFiles, current, signature, signatureLock, revision, read, taken, served,
                       rendered, edits, past, startEdited, stale>>
    BY DEF BeginRequest
  <1>c. edits \in Nat /\ revision \in Nat
    BY <1>a, ReloadAssumption DEF ReloadTypeOK
  <1>1. ReloadTypeOK'
    <2>1. step' \in [Readers -> {"idle", "sign", "lock", "build", "serving", "body", "done", "failed"}]
      BY <1>a, <1>b DEF ReloadTypeOK
    <2> QED BY <1>a, <1>b, <2>1 DEF ReloadTypeOK
  <1>2. ReloadShapes' /\ begun'[r] = [edits |-> edits, revision |-> revision]
    BY <1>a, <1>b, <1>c DEF ReloadShapes
  <1>3. RequestOnly(r) /\ step'[r] = "sign" /\ read'[r] = << >>
    BY <1>a, <1>b DEF RequestOnly, ReloadTypeOK, ReloadShapes, RequestInv
  <1>4. RequestInv(begun[r], step[r], read[r], taken[r])'
    <2>1. Len(read'[r]) = 0
      BY <1>3
    <2> QED BY <1>3, <2>1 DEF RequestInv, WasSigned, AsSigned
  <1>5. begun'[r].edits <= edits /\ begun'[r].revision <= revision
    BY <1>2, <1>c
  <1> QED BY <1>a, <1>b, <1>1, <1>2, <1>3, <1>4, <1>5, UnservedKeeps

(* It reads a file for its signature.                                      *)
LEMMA SignKeeps ==
    ASSUME ReloadInv, NEW r \in WebRequests, Sign(r)
    PROVE  ReloadInv'
  <1> DEFINE contents == WithNext(r, SignatureOrder)
  <1>a. /\ ReloadTypeOK /\ ReloadShapes /\ r \in Readers /\ served[r] = Unread
        /\ RequestInv(begun[r], "sign", read[r], taken[r]) /\ step["startup"] = "serving"
        /\ begun[r].edits <= edits /\ begun[r].revision <= revision /\ step[r] = "sign"
    BY RequestFacts DEF Sign
  <1>b. /\ UNCHANGED <<watchedFiles, current, signature, signatureLock, revision, served, rendered,
                       edits, past, begun, startEdited, stale>>
        /\ \/ /\ LastFile(r, SignatureOrder)
              /\ taken' = [taken EXCEPT ![r] = contents]
              /\ read' = [read EXCEPT ![r] = << >>]
              /\ step' = [step EXCEPT ![r] = "lock"]
           \/ /\ ~LastFile(r, SignatureOrder)
              /\ read' = [read EXCEPT ![r] = contents]
              /\ UNCHANGED <<taken, step>>
    BY DEF Sign
  <1>c. /\ Len(read[r]) <= 2 /\ WasSigned(read[r], Len(read[r]))
        /\ edits = begun[r].edits => AsSigned(read[r], Len(read[r]))
    BY <1>a DEF RequestInv
  <1>d. /\ Len(read[r]) \in {0, 1, 2} /\ contents \in Seq(FileContents)
        /\ Len(contents) = Len(read[r]) + 1
        /\ LastFile(r, SignatureOrder) <=> Len(read[r]) = 2
        /\ WasSigned(contents, Len(contents))
        /\ edits = begun[r].edits => AsSigned(contents, Len(contents))
    BY <1>a, <1>c, SignOne
  <1> HIDE DEF contents
  <1>1. CASE /\ LastFile(r, SignatureOrder)
             /\ taken' = [taken EXCEPT ![r] = contents]
             /\ read' = [read EXCEPT ![r] = << >>]
             /\ step' = [step EXCEPT ![r] = "lock"]
    <2>1. Len(contents) = 3
      <3>1. Len(read[r]) = 2 /\ Len(contents) = Len(read[r]) + 1
        BY <1>d, <1>1
      <3> QED BY <3>1
    <2>2. contents \in Signatures
      BY <1>d, <2>1, ThreeContents
    <2>3. ReloadTypeOK'
      <3>1. step' \in [Readers -> {"idle", "sign", "lock", "build", "serving", "body", "done", "failed"}]
        BY <1>a, <1>1 DEF ReloadTypeOK
      <3>2. taken' \in [WebRequests -> Signatures \cup {Unread}]
        BY <1>a, <1>1, <2>2 DEF ReloadTypeOK
      <3> QED BY <1>a, <1>b, <3>1, <3>2 DEF ReloadTypeOK
    <2>4. ReloadShapes'
      <3>1. << >> \in Seq(FileContents)
        OBVIOUS
      <3> QED BY <1>a, <1>b, <1>1, <3>1 DEF ReloadShapes
    <2>5. RequestOnly(r) /\ step'[r] = "lock" /\ read'[r] = << >> /\ taken'[r] = contents
      BY <1>a, <1>b, <1>1 DEF RequestOnly, ReloadTypeOK, ReloadShapes
    <2>6. WasSigned(taken[r], 3)' /\ (edits = begun[r].edits => AsSigned(taken[r], 3)')
      BY <1>b, <1>d, <2>1, <2>5 DEF WasSigned, AsSigned
    <2>7. RequestInv(begun[r], step[r], read[r], taken[r])'
      BY <1>b, <2>2, <2>5, <2>6 DEF RequestInv
    <2> QED BY <1>a, <1>b, <2>3, <2>4, <2>5, <2>7, UnservedKeeps
  <1>2. CASE /\ ~LastFile(r, SignatureOrder)
             /\ read' = [read EXCEPT ![r] = contents]
             /\ UNCHANGED <<taken, step>>
    <2>1. Len(contents) <= 2
      <3>1. \A n \in {0, 1, 2} : n # 2 => n + 1 <= 2
        OBVIOUS
      <3> QED BY <1>d, <1>2, <3>1
    <2>2. ReloadTypeOK' /\ ReloadShapes'
      <3>1. ReloadTypeOK'
        BY <1>a, <1>b, <1>2 DEF ReloadTypeOK
      <3> QED BY <1>a, <1>b, <1>d, <1>2, <3>1 DEF ReloadShapes
    <2>3. RequestOnly(r) /\ step'[r] = "sign" /\ read'[r] = contents
      BY <1>a, <1>b, <1>2 DEF RequestOnly, ReloadTypeOK, ReloadShapes
    <2>4. /\ WasSigned(read[r], Len(read[r]))'
          /\ edits = begun[r].edits => AsSigned(read[r], Len(read[r]))'
      BY <1>b, <1>d, <2>3 DEF WasSigned, AsSigned
    <2>5. RequestInv(begun[r], step[r], read[r], taken[r])'
      BY <1>b, <2>1, <2>3, <2>4 DEF RequestInv
    <2> QED BY <1>a, <1>b, <2>2, <2>3, <2>5, UnservedKeeps
  <1> QED BY <1>b, <1>1, <1>2

(* The signatures differ and it begins to build.                           *)
LEMMA LockToBuildKeeps ==
    ASSUME ReloadInv, NEW r \in WebRequests, LockToBuild(r)
    PROVE  ReloadInv'
  <1>a. /\ ReloadTypeOK /\ ReloadShapes /\ r \in Readers /\ served[r] = Unread
        /\ RequestInv(begun[r], "lock", read[r], taken[r]) /\ step["startup"] = "serving"
        /\ begun[r].edits <= edits /\ begun[r].revision <= revision
    BY RequestFacts DEF LockToBuild
  <1>b. /\ signatureLock' = r /\ step' = [step EXCEPT ![r] = "build"]
        /\ UNCHANGED <<watchedFiles, current, signature, revision, read, taken, served, rendered,
                       edits, past, begun, startEdited, stale>>
    BY DEF LockToBuild
  <1>1. ReloadTypeOK' /\ ReloadShapes'
    <2>1. step' \in [Readers -> {"idle", "sign", "lock", "build", "serving", "body", "done", "failed"}]
      BY <1>a, <1>b DEF ReloadTypeOK
    <2>2. ReloadTypeOK'
      BY <1>a, <1>b, <2>1 DEF ReloadTypeOK
    <2> QED BY <1>a, <1>b, <2>2 DEF ReloadShapes
  <1>2. RequestOnly(r) /\ step'[r] = "build" /\ read'[r] = << >>
    BY <1>a, <1>b DEF RequestOnly, ReloadTypeOK, ReloadShapes, RequestInv
  <1>3. RequestInv(begun[r], step[r], read[r], taken[r])'
    <2>1. Len(read'[r]) = 0
      BY <1>2
    <2> QED BY <1>a, <1>b, <1>2, <2>1 DEF RequestInv, WasSigned, AsSigned
  <1> QED BY <1>a, <1>b, <1>1, <1>2, <1>3, UnservedKeeps

(* The builder reads the routes.                                           *)
LEMMA BuildReadKeeps ==
    ASSUME ReloadInv, NEW r \in WebRequests, BuildRead(r)
    PROVE  ReloadInv'
  <1> DEFINE contents == WithNext(r, BuildOrder)
  <1>a. /\ ReloadTypeOK /\ ReloadShapes /\ r \in Readers /\ served[r] = Unread
        /\ RequestInv(begun[r], "build", read[r], taken[r]) /\ step["startup"] = "serving"
        /\ begun[r].edits <= edits /\ begun[r].revision <= revision /\ step[r] = "build"
    BY RequestFacts DEF BuildRead
  <1>b. /\ ~LastFile(r, BuildOrder) /\ read' = [read EXCEPT ![r] = contents]
        /\ UNCHANGED <<watchedFiles, current, signature, signatureLock, revision, step, taken, served,
                       rendered, edits, past, begun, startEdited, stale>>
    BY DEF BuildRead
  <1>c. /\ contents \in Seq(FileContents) /\ Len(contents) = 1
        /\ contents[1] = watchedFiles["routes"]
    <2>1. Len(read[r]) <= 1
      BY <1>a DEF RequestInv
    <2> QED BY <1>a, <1>b, <2>1, BuildOne
  <1> HIDE DEF contents
  <1>1. ReloadTypeOK' /\ ReloadShapes'
    <2>1. ReloadTypeOK'
      BY <1>a, <1>b DEF ReloadTypeOK
    <2> QED BY <1>a, <1>b, <1>c, <2>1 DEF ReloadShapes
  <1>2. RequestOnly(r) /\ step'[r] = "build" /\ read'[r] = contents
    BY <1>a, <1>b DEF RequestOnly, ReloadTypeOK, ReloadShapes
  <1>3. RequestInv(begun[r], step[r], read[r], taken[r])'
    <2>1. /\ taken[r] \in Signatures /\ WasSigned(taken[r], 3)
          /\ edits = begun[r].edits => AsSigned(taken[r], 3)
      BY <1>a DEF RequestInv
    <2>2. WasSigned(taken[r], 3)' /\ (edits = begun[r].edits => AsSigned(taken[r], 3)')
      BY <1>b, <2>1 DEF WasSigned, AsSigned
    <2>3. Len(read'[r]) = 1 /\ read'[r][1] = watchedFiles'["routes"]
      BY <1>b, <1>c, <1>2
    <2>4. Len(read'[r]) <= 1
      BY <2>3
    <2> QED BY <1>b, <1>2, <2>1, <2>2, <2>3, <2>4 DEF RequestInv
  <1> QED BY <1>a, <1>b, <1>1, <1>2, <1>3, UnservedKeeps

(* The code does not compile.                                              *)
LEMMA BuildFailsKeeps ==
    ASSUME ReloadInv, NEW r \in WebRequests, BuildFails(r)
    PROVE  ReloadInv'
  <1>a. /\ ReloadTypeOK /\ ReloadShapes /\ r \in Readers /\ served[r] = Unread
        /\ step["startup"] = "serving"
        /\ begun[r].edits <= edits /\ begun[r].revision <= revision
    BY RequestFacts DEF BuildFails
  <1>b. /\ signatureLock' = Unread /\ step' = [step EXCEPT ![r] = "failed"]
        /\ UNCHANGED <<watchedFiles, current, signature, revision, read, taken, served, rendered,
                       edits, past, begun, startEdited, stale>>
    BY DEF BuildFails
  <1>1. ReloadTypeOK' /\ ReloadShapes'
    <2>1. step' \in [Readers -> {"idle", "sign", "lock", "build", "serving", "body", "done", "failed"}]
      BY <1>a, <1>b DEF ReloadTypeOK
    <2>2. ReloadTypeOK'
      BY <1>a, <1>b, <2>1 DEF ReloadTypeOK
    <2> QED BY <1>a, <1>b, <2>2 DEF ReloadShapes
  <1>2. RequestOnly(r) /\ step'[r] = "failed"
    BY <1>a, <1>b DEF RequestOnly, ReloadTypeOK, ReloadShapes
  <1>3. RequestInv(begun[r], step[r], read[r], taken[r])'
    BY <1>2 DEF RequestInv
  <1> QED BY <1>a, <1>b, <1>1, <1>2, <1>3, UnservedKeeps

(* The view is read and rendered.                                          *)
LEMMA RenderKeeps ==
    ASSUME ReloadInv, NEW r \in WebRequests, Render(r)
    PROVE  ReloadInv'
  <1>a. /\ ReloadTypeOK /\ ReloadShapes /\ r \in Readers /\ step["startup"] = "serving"
        /\ begun[r].edits <= edits /\ begun[r].revision <= revision
    BY RequestFacts DEF Render
  <1>b. /\ rendered' = [rendered EXCEPT ![r] = watchedFiles["view"]]
        /\ step' = [step EXCEPT ![r] = "done"]
        /\ UNCHANGED <<watchedFiles, current, signature, signatureLock, revision, read, taken, served,
                       edits, past, begun, startEdited, stale>>
    BY DEF Render
  <1>1. ReloadTypeOK' /\ ReloadShapes'
    <2>1. step' \in [Readers -> {"idle", "sign", "lock", "build", "serving", "body", "done", "failed"}]
      BY <1>a, <1>b DEF ReloadTypeOK
    <2>2. rendered' \in [WebRequests -> FileContents \cup {Unread}]
      BY <1>a, <1>b, Orders DEF ReloadTypeOK
    <2>3. ReloadTypeOK'
      BY <1>a, <1>b, <2>1, <2>2 DEF ReloadTypeOK
    <2> QED BY <1>a, <1>b, <2>3 DEF ReloadShapes
  <1>2. RequestOnly(r) /\ step'[r] = "done"
    BY <1>a, <1>b DEF RequestOnly, ReloadTypeOK, ReloadShapes
  <1>3. RequestInv(begun[r], step[r], read[r], taken[r])'
    BY <1>2 DEF RequestInv
  <1> QED BY <1>a, <1>b, <1>1, <1>2, <1>3, UnservedKeeps

-----------------------------------------------------------------------------
(* The signature it took is the stored one, and nothing was saved since it *)
(* began: the files are those of the signature, and so is the runtime.     *)
LEMMA ReuseKeeps ==
    ASSUME ReloadInv, NEW r \in WebRequests, Reuse(r)
    PROVE  ReloadInv'
  <1> DEFINE mine == [runtime |-> current, revision |-> revision]
  <1>a. /\ ReloadTypeOK /\ ReloadShapes /\ RevisionsInv /\ ServedAsSaved /\ StoredInv
        /\ r \in Readers /\ step["startup"] = "serving" /\ current.number = revision
        /\ RequestInv(begun[r], "lock", read[r], taken[r])
        /\ begun[r].revision <= revision
    BY RequestFacts DEF Reuse
  <1>b. /\ signature = taken[r]
        /\ served' = [served EXCEPT ![r] = mine]
        /\ stale' = IF edits = begun[r].edits /\ Outdated(current) THEN stale \cup {r} ELSE stale
        /\ step' = [step EXCEPT ![r] = "body"]
        /\ UNCHANGED <<watchedFiles, current, signature, signatureLock, revision, read, taken, rendered,
                       edits, past, begun, startEdited>>
    BY DEF Reuse, Serve
  <1>c. current \in Runtimes /\ revision \in Nat
    BY <1>a DEF StoredInv, ReloadTypeOK
  <1>1. ReloadTypeOK' /\ ReloadShapes'
    <2>1. step' \in [Readers -> {"idle", "sign", "lock", "build", "serving", "body", "done", "failed"}]
      BY <1>a, <1>b DEF ReloadTypeOK
    <2>2. served' \in [WebRequests -> [runtime : Runtimes, revision : Nat] \cup {Unread}]
      BY <1>a, <1>b, <1>c DEF ReloadTypeOK
    <2>3. stale' \subseteq WebRequests
      BY <1>a, <1>b DEF ReloadTypeOK
    <2>4. ReloadTypeOK'
      BY <1>a, <1>b, <2>1, <2>2, <2>3 DEF ReloadTypeOK
    <2> QED BY <1>a, <1>b, <2>4 DEF ReloadShapes
  <1>2. RequestOnly(r) /\ step'[r] = "body" /\ step'["startup"] = "serving"
    BY <1>a, <1>b, RequestFacts DEF RequestOnly, ReloadTypeOK, ReloadShapes, Readers
  <1>3. RequestInv(begun[r], step[r], read[r], taken[r])'
    BY <1>2 DEF RequestInv
  <1>4. StoredInv'
    BY <1>a, <1>b DEF StoredInv, WasSigned, Returned
  <1>5. ServedAsSaved'
    <2>1. CASE edits = begun[r].edits /\ Outdated(current)
      <3>1. AsSigned(signature, 3)
        BY <1>a, <1>b, <2>1 DEF RequestInv
      <3>2. signature[1] = watchedFiles["controller"] /\ signature[3] = watchedFiles["routes"]
        BY <3>1, Orders DEF AsSigned
      <3>3. startEdited \/ Returned
        BY <1>a, <2>1, <3>2 DEF StoredInv, Outdated
      <3> QED BY <1>b, <3>3 DEF ServedAsSaved, Returned
    <2>2. CASE ~(edits = begun[r].edits /\ Outdated(current))
      BY <1>a, <1>b, <2>2 DEF ServedAsSaved, Returned
    <2> QED BY <2>1, <2>2
  <1>6. RevisionsInv'
    <2>1. /\ \A q \in WebRequests \ {r} : served'[q] = served[q] /\ step'[q] = step[q]
          /\ served'[r] = mine
      BY <1>a, <1>b, <1>2 DEF ReloadTypeOK, RequestOnly, Readers
    <2>2. \A q \in WebRequests : ServedInv(q)
      BY <1>a DEF RevisionsInv
    <2>3. ASSUME NEW q \in WebRequests PROVE ServedInv(q)'
      <3>1. CASE q = r
        BY <1>a, <1>b, <1>c, <1>2, <2>1, <3>1 DEF ServedInv
      <3>2. CASE q # r
        BY <1>b, <2>1, <2>2, <3>2 DEF ServedInv
      <3> QED BY <3>1, <3>2
    <2>4. ASSUME NEW p \in WebRequests, NEW q \in WebRequests, served'[p] # Unread,
                 served'[q] # Unread, served'[p].revision = served'[q].revision
          PROVE  served'[p].runtime = served'[q].runtime
      <3>1. CASE p # r /\ q # r
        BY <1>a, <2>1, <2>4, <3>1 DEF RevisionsInv
      <3>2. CASE p = r \/ q = r
        BY <2>1, <2>2, <2>4, <3>2 DEF ServedInv
      <3> QED BY <3>1, <3>2
    <2>5. \A q \in WebRequests : begun'[q].edits <= edits' /\ begun'[q].revision <= revision'
      BY <1>a, <1>b DEF RevisionsInv
    <2> QED BY <1>a, <1>b, <1>2, <2>3, <2>4, <2>5 DEF RevisionsInv
  <1> QED BY <1>a, <1>1, <1>2, <1>3, <1>4, <1>5, <1>6, RequestKeeps

(* The runtime it built is of the routes that were on disk when its        *)
(* signature held, and of the controllers that are there now.              *)
LEMMA ReloadKeeps ==
    ASSUME ReloadInv, NEW r \in WebRequests, Reload(r)
    PROVE  ReloadInv'
  <1> DEFINE built == CompiledFrom(WithNext(r, BuildOrder), current.number + 1)
             mine == [runtime |-> built, revision |-> revision + 1]
  <1>a. /\ ReloadTypeOK /\ ReloadShapes /\ RevisionsInv /\ ServedAsSaved
        /\ r \in Readers /\ r # "startup" /\ step["startup"] = "serving" /\ current.number = revision
        /\ RequestInv(begun[r], "build", read[r], taken[r])
        /\ begun[r] \in [edits : Nat, revision : Nat] /\ begun[r].revision <= revision
    BY RequestFacts DEF Reload
  <1>b. /\ LastFile(r, BuildOrder)
        /\ current' = built /\ signature' = taken[r] /\ revision' = revision + 1
        /\ served' = [served EXCEPT ![r] = mine]
        /\ stale' = IF edits = begun[r].edits /\ Outdated(built) THEN stale \cup {r} ELSE stale
        /\ signatureLock' = Unread
        /\ step' = [step EXCEPT ![r] = "body"]
        /\ UNCHANGED <<watchedFiles, read, taken, rendered, edits, past, begun, startEdited>>
    BY DEF Reload, Serve, NewRevision, SignatureOf
  <1>c. revision \in Nat
    BY <1>a DEF ReloadTypeOK
  <1>d. /\ Len(read[r]) = 1 /\ built \in Runtimes /\ built.number = revision + 1
        /\ built.routes = read[r][1] /\ built.controller = watchedFiles["controller"]
    <2>1. Len(read[r]) <= 1
      BY <1>a DEF RequestInv
    <2>2. /\ Len(read[r]) = 1 /\ WithNext(r, BuildOrder)[1] = read[r][1]
          /\ WithNext(r, BuildOrder)[2] = watchedFiles["controller"]
          /\ read[r][1] \in FileContents /\ watchedFiles["controller"] \in FileContents
      BY <1>a, <1>b, <2>1, BuildOne
    <2> QED BY <1>a, <1>c, <2>2 DEF CompiledFrom, Runtimes
  <1>e. /\ taken[r] \in Signatures /\ WasSigned(taken[r], 3)
        /\ edits = begun[r].edits => read[r][1] = watchedFiles["routes"]
        /\ ~Returned /\ taken[r][3] = watchedFiles["routes"] => read[r][1] = watchedFiles["routes"]
    BY <1>a, <1>d DEF RequestInv
  <1> HIDE DEF built
  <1>1. ReloadTypeOK' /\ ReloadShapes'
    <2>1. step' \in [Readers -> {"idle", "sign", "lock", "build", "serving", "body", "done", "failed"}]
      BY <1>a, <1>b DEF ReloadTypeOK
    <2>2. served' \in [WebRequests -> [runtime : Runtimes, revision : Nat] \cup {Unread}]
      BY <1>a, <1>b, <1>c, <1>d DEF ReloadTypeOK
    <2>3. stale' \subseteq WebRequests
      BY <1>a, <1>b DEF ReloadTypeOK
    <2>4. ReloadTypeOK'
      BY <1>a, <1>b, <1>c, <1>d, <1>e, <2>1, <2>2, <2>3 DEF ReloadTypeOK
    <2> QED BY <1>a, <1>b, <2>4 DEF ReloadShapes
  <1>2. RequestOnly(r) /\ step'[r] = "body" /\ step'["startup"] = "serving"
    BY <1>a, <1>b DEF RequestOnly, ReloadTypeOK, ReloadShapes, Readers
  <1>3. RequestInv(begun[r], step[r], read[r], taken[r])'
    BY <1>2 DEF RequestInv
  <1>4. StoredInv'
    BY <1>b, <1>d, <1>e DEF StoredInv, WasSigned, Returned
  <1>5. ServedAsSaved'
    <2>1. stale' = stale
      BY <1>b, <1>d, <1>e DEF Outdated
    <2> QED BY <1>a, <1>b, <2>1 DEF ServedAsSaved, Returned
  <1>6. RevisionsInv'
    <2>1. /\ \A q \in WebRequests \ {r} : served'[q] = served[q] /\ step'[q] = step[q]
          /\ served'[r] = mine
      BY <1>a, <1>b, <1>2 DEF ReloadTypeOK, RequestOnly, Readers
    <2>2. \A q \in WebRequests : ServedInv(q)
      BY <1>a DEF RevisionsInv
    <2>3. \A q \in WebRequests : served[q] # Unread =>
            served[q].revision \in Nat /\ served[q].revision <= revision
      BY <1>a, <2>2 DEF ServedInv, ReloadTypeOK
    <2>4. ASSUME NEW q \in WebRequests PROVE ServedInv(q)'
      <3>1. CASE q = r
        <4>1. begun[r].revision <= revision + 1 /\ revision + 1 <= revision + 1
          BY <1>a, <1>c
        <4> QED BY <1>b, <1>d, <1>2, <2>1, <3>1, <4>1 DEF ServedInv
      <3>2. CASE q # r
        <4>1. served[q] # Unread =>
                served[q].revision # revision + 1 /\ served[q].revision <= revision + 1
          BY <1>c, <2>3
        <4> QED BY <1>b, <2>1, <2>2, <3>2, <4>1 DEF ServedInv
      <3> QED BY <3>1, <3>2
    <2>5. ASSUME NEW p \in WebRequests, NEW q \in WebRequests, served'[p] # Unread,
                 served'[q] # Unread, served'[p].revision = served'[q].revision
          PROVE  served'[p].runtime = served'[q].runtime
      <3>1. CASE p # r /\ q # r
        BY <1>a, <2>1, <2>5, <3>1 DEF RevisionsInv
      <3>2. CASE p = r /\ q = r
        BY <3>2
      <3>3. CASE (p = r /\ q # r) \/ (p # r /\ q = r)
        <4>1. \A n \in Nat : n <= revision => n # revision + 1
          BY <1>c
        <4> QED BY <2>1, <2>3, <2>5, <3>3, <4>1
      <3> QED BY <3>1, <3>2, <3>3
    <2>6. ASSUME NEW q \in WebRequests
          PROVE  begun'[q].edits <= edits' /\ begun'[q].revision <= revision'
      <3>1. begun[q].revision \in Nat /\ begun[q].revision <= revision /\ begun[q].edits <= edits
        BY <1>a DEF RevisionsInv, ReloadShapes
      <3>2. begun[q].revision <= revision + 1
        BY <1>c, <3>1
      <3> QED BY <1>b, <3>1, <3>2
    <2> QED BY <1>b, <1>d, <1>2, <2>4, <2>5, <2>6 DEF RevisionsInv
  <1> QED BY <1>a, <1>1, <1>2, <1>3, <1>4, <1>5, <1>6, RequestKeeps

-----------------------------------------------------------------------------
(* Every step keeps the invariant.                                         *)
LEMMA ReloadStep == ReloadInv /\ [ReloadNext]_reloadVars => ReloadInv'
  <1> SUFFICES ASSUME ReloadInv, [ReloadNext]_reloadVars PROVE ReloadInv'
    OBVIOUS
  <1>1. CASE \E f \in WatchedFiles, c \in FileContents : Edit(f, c)
    BY <1>1, EditKeeps
  <1>2. CASE StartBuild
    BY <1>2, StartBuildKeeps
  <1>3. CASE StartSign
    BY <1>3, StartSignKeeps
  <1>4. ASSUME NEW r \in WebRequests,
               \/ BeginRequest(r) \/ Sign(r) \/ Reuse(r) \/ LockToBuild(r) \/ BuildRead(r)
               \/ BuildFails(r) \/ Reload(r) \/ Render(r)
        PROVE  ReloadInv'
    BY <1>4, BeginRequestKeeps, SignKeeps, ReuseKeeps, LockToBuildKeeps, BuildReadKeeps,
       BuildFailsKeeps, ReloadKeeps, RenderKeeps
  <1>5. CASE UNCHANGED reloadVars
    <2>1. /\ ReloadTypeOK' /\ ReloadShapes'
      BY <1>5 DEF ReloadInv, reloadVars, ReloadTypeOK, ReloadShapes
    <2>2. PastInv'
      BY <1>5 DEF ReloadInv, reloadVars, PastInv, Pasts
    <2>3. StartupInv(step["startup"], read["startup"])'
      BY <1>5 DEF ReloadInv, reloadVars, StartupInv, StoredInv, WasSigned, AsSigned, Outdated, Returned
    <2>4. \A r \in WebRequests : RequestInv(begun[r], step[r], read[r], taken[r])'
      BY <1>5 DEF ReloadInv, reloadVars, RequestInv, WasSigned, AsSigned, Returned
    <2>5. RevisionsInv'
      BY <1>5 DEF ReloadInv, reloadVars, RevisionsInv, ServedInv
    <2>6. ServedAsSaved'
      BY <1>5 DEF ReloadInv, reloadVars, ServedAsSaved, Returned
    <2>7. \A r \in WebRequests : step'[r] # "idle" => step'["startup"] = "serving"
      BY <1>5 DEF ReloadInv, reloadVars
    <2> QED BY <2>1, <2>2, <2>3, <2>4, <2>5, <2>6, <2>7 DEF ReloadInv
  <1> QED BY <1>1, <1>2, <1>3, <1>4, <1>5 DEF ReloadNext

(* Reloading is coherent (WatchedRuntime::snapshot): a request that began  *)
(* after the last save is served the code on disk, but for a save during   *)
(* start-up and for contents that return, and a revision names one         *)
(* runtime.                                                                *)
THEOREM ReloadIsCoherent == ReloadSpec => []ReloadCoherent
  <1>1. ReloadSpec => []ReloadInv
    BY InitReload, ReloadStep, PTL DEF ReloadSpec
  <1> QED BY <1>1, ReloadInvCoherent, PTL

(* ReloadTypeOK is invariant for any number of requests and saves.         *)
THEOREM ReloadTypesKept == ReloadSpec => []ReloadTypeOK
  <1>1. ReloadInv => ReloadTypeOK
    BY DEF ReloadInv
  <1> QED BY <1>1, InitReload, ReloadStep, PTL DEF ReloadSpec

-----------------------------------------------------------------------------
(***************************************************************************)
(* The interpreter, for any programs whose chunks are linked and whose     *)
(* blocks end in a return, any tapes and any budget.                       *)
(***************************************************************************)

(* A chunk in execution.                                                   *)
CallRecords == [chunk : Chunks, ip : Nat, before : Seq(Values), base : Nat]

(* The i-th call waits for the next one, or runs.                          *)
CallNests(i) ==
    /\ calls[i].ip < Len(calls[i].chunk.code)
    /\ calls[i - 1].ip < Len(calls[i - 1].chunk.code)
    /\ calls[i - 1].chunk.code[calls[i - 1].ip + 1] = <<"word", "call">>
    /\ calls[i].before # <<>>
    /\ Last(calls[i].before) = BlockValue(calls[i].chunk)
    /\ calls[i].base = Len(calls[i].before) - 1

(* What holds of the calls whatever the outcome.                           *)
CallsOK ==
    /\ calls # <<>>
    /\ calls \in Seq(CallRecords)
    /\ calls[1].chunk = chunk
    /\ calls[1].ip <= Len(chunk.code)
    /\ \A i \in 2 .. Len(calls) : CallNests(i)

(* How the program ended says where its calls stand.                       *)
OutcomeOK ==
    /\ outcome = "done" => AtMain /\ AtEnd
    /\ outcome \in {"error", "limit"} /\ ~AtMain => stack = calls[2].before
    /\ outcome = "limit" => used = InstructionLimit

(* The types of what is not a call.                                        *)
MachineTypes ==
    /\ program \in Programs /\ chunk \in Chunks
    /\ stack \in Seq(Values) /\ printed \in Seq(Values)
    /\ input \in Seq(BOOLEAN) /\ tapeRead \in Tapes
    /\ used \in 0 .. InstructionLimit
    /\ outcome \in {"running", "rejected", "done", "error", "limit"}

(* The inductive invariant.                                                *)
LanguageInv == MachineTypes /\ CallsOK /\ OutcomeOK

(* It is the type invariant and ExecutionSound.                                 *)
LEMMA LanguagePromises == LanguageInv => LanguageTypeOK /\ ExecutionSound
  <1> SUFFICES ASSUME LanguageInv PROVE LanguageTypeOK /\ ExecutionSound
    OBVIOUS
  <1>1. LanguageTypeOK
    BY DEF LanguageInv, MachineTypes, CallsOK, CallRecords, LanguageTypeOK
  <1>2. used <= InstructionLimit
    BY InterpreterAssumption DEF LanguageInv, MachineTypes
  <1>3. ExecutionSound
    BY <1>2 DEF LanguageInv, CallsOK, OutcomeOK, CallNests, ExecutionSound
  <1> QED BY <1>1, <1>3

(* The beginning and the end of a sequence that is not empty.              *)
LEMMA FrontAndLast ==
    ASSUME NEW S, NEW s \in Seq(S), s # <<>>
    PROVE  /\ Len(s) \in Nat /\ Len(s) > 0
           /\ Last(s) = s[Len(s)] /\ Last(s) \in S
           /\ Front(s) \in Seq(S)
           /\ Len(Front(s)) = Len(s) - 1
           /\ \A i \in 1 .. Len(s) - 1 : Front(s)[i] = s[i]
  <1>1. Len(s) \in Nat \ {0}
    OBVIOUS
  <1>2. Last(s) = s[Len(s)] /\ Front(s) = SubSeq(s, 1, Len(s) - 1)
    BY DEF Last, Front
  <1>3. SubSeq(s, 1, Len(s) - 1) \in Seq(S)
    BY <1>1
  <1>4. Len(SubSeq(s, 1, Len(s) - 1)) = Len(s) - 1
    <2>1. CASE Len(s) = 1
      BY <2>1
    <2>2. CASE Len(s) > 1
      BY <1>1, <2>2
    <2> QED BY <1>1, <2>1, <2>2
  <1>5. \A i \in 1 .. Len(s) - 1 : SubSeq(s, 1, Len(s) - 1)[i] = s[i]
    BY <1>1
  <1>6. Last(s) \in S
    BY <1>1, <1>2
  <1> QED BY <1>1, <1>2, <1>3, <1>4, <1>5, <1>6

(* The compiler linked every chunk.                                        *)
LEMMA ChunksLinked == \A ch \in Chunks : IsLinked(ch)
  BY InterpreterAssumption DEF Chunks

(* The chunk in execution is one of the program; in a call it is a block.  *)
LEMMA InnermostFacts ==
    ASSUME LanguageInv
    PROVE  /\ Len(calls) \in Nat /\ Len(calls) > 0
           /\ Innermost = calls[Len(calls)] /\ Innermost \in CallRecords
           /\ IsLinked(Innermost.chunk)
           /\ Innermost.ip \in Nat
           /\ ~AtMain => Innermost.chunk \in Blocks
  <1>1. calls \in Seq(CallRecords) /\ calls # <<>>
    BY DEF LanguageInv, CallsOK
  <1>2. /\ Len(calls) \in Nat /\ Len(calls) > 0
        /\ Innermost = calls[Len(calls)] /\ Innermost \in CallRecords
    BY <1>1, FrontAndLast DEF Innermost
  <1>3. Innermost.chunk \in Chunks /\ Innermost.ip \in Nat
    BY <1>2 DEF CallRecords
  <1>4. ASSUME ~AtMain PROVE Innermost.chunk \in Blocks
    <2>1. Len(calls) \in 2 .. Len(calls)
      BY <1>2, <1>4 DEF AtMain
    <2>2. CallNests(Len(calls))
      BY <2>1 DEF LanguageInv, CallsOK
    <2>3. Innermost.before \in Seq(Values) /\ Innermost.before # <<>>
      BY <1>2, <2>2 DEF CallRecords, CallNests
    <2>4. Last(Innermost.before) \in Values
      BY <2>3, FrontAndLast
    <2>5. <<"block", Innermost.chunk>> \in Values
      BY <1>2, <2>2, <2>4 DEF CallNests, BlockValue
    <2> QED BY <2>5 DEF Values, NilValue
  <1> QED BY <1>2, <1>3, <1>4, ChunksLinked

(* The instruction that is next, and where it may lead.                    *)
LEMMA InstructionFacts ==
    ASSUME LanguageInv, ~AtEnd
    PROVE  /\ Innermost.ip < Len(Innermost.chunk.code)
           /\ Len(Innermost.chunk.code) \in Nat
           /\ Instruction \in Operations
           /\ Instruction[1] \in {"jump", "jumpIfFalse"} => Instruction[2] <= Len(Innermost.chunk.code)
           /\ Instruction[1] = "block" => Instruction[2] \in 1 .. Len(Innermost.chunk.blocks)
           /\ ~AtMain /\ Instruction[1] \in {"jump", "jumpIfFalse"} => Instruction[2] < Len(Innermost.chunk.code)
           /\ ~AtMain /\ Instruction # <<"return">> => Innermost.ip + 1 < Len(Innermost.chunk.code)
  <1> DEFINE code == Innermost.chunk.code
             at == Innermost.ip + 1
  <1>1. IsLinked(Innermost.chunk) /\ Innermost.ip \in Nat
    BY InnermostFacts
  <1>2. code \in Seq(Operations) /\ Len(code) \in Nat
    BY <1>1 DEF IsLinked
  <1>3. Innermost.ip < Len(code) /\ at \in 1 .. Len(code)
    BY <1>1, <1>2 DEF AtEnd
  <1>4. Instruction = code[at]
    BY DEF Instruction
  <1>5. ASSUME ~AtMain
        PROVE  /\ Instruction[1] \in {"jump", "jumpIfFalse"} => Instruction[2] < Len(code)
               /\ Instruction # <<"return">> => at < Len(code)
    <2>1. EndsInReturn(Innermost.chunk)
      BY <1>5, InnermostFacts, InterpreterAssumption
    <2>2. code[Len(code)] = <<"return">>
      BY <2>1 DEF EndsInReturn, Last
    <2> QED BY <1>2, <1>3, <1>4, <2>1, <2>2 DEF EndsInReturn
  <1> HIDE DEF code, at
  <1>6. Instruction \in Operations
    BY <1>2, <1>3, <1>4
  <1>7. /\ Instruction[1] \in {"jump", "jumpIfFalse"} => Instruction[2] <= Len(code)
        /\ Instruction[1] = "block" => Instruction[2] \in 1 .. Len(Innermost.chunk.blocks)
    BY <1>1, <1>3, <1>4 DEF IsLinked, code
  <1> QED BY <1>2, <1>3, <1>5, <1>6, <1>7 DEF code, at

(* A call that goes on inside its chunk leaves the calls nested.           *)
LEMMA ContinueKeeps ==
    ASSUME LanguageInv, NEW ip \in Nat, ip <= Len(Innermost.chunk.code),
           ~AtMain => ip < Len(Innermost.chunk.code),
           Continue(ip), UNCHANGED chunk
    PROVE  CallsOK'
  <1> DEFINE n == Len(calls)
  <1>1. n \in Nat /\ n > 0 /\ Innermost = calls[n] /\ calls \in Seq(CallRecords)
    BY InnermostFacts DEF LanguageInv, CallsOK
  <1>2. calls' = [calls EXCEPT ![n] = [calls[n] EXCEPT !.ip = ip]]
    BY DEF Continue
  <1>3. calls[n] \in CallRecords
    BY <1>1
  <1>4. [calls[n] EXCEPT !.ip = ip] \in CallRecords
    BY <1>3 DEF CallRecords
  <1>5. calls' \in Seq(CallRecords) /\ Len(calls') = n
    BY <1>1, <1>2, <1>4
  <1>6. \A i \in 1 .. n : i # n => calls'[i] = calls[i]
    BY <1>1, <1>2
  <1>7. calls'[n] = [calls[n] EXCEPT !.ip = ip]
    BY <1>1, <1>2
  <1>8. calls'[n].ip = ip /\ calls'[n].chunk = calls[n].chunk /\ calls'[n].before = calls[n].before
        /\ calls'[n].base = calls[n].base
    BY <1>3, <1>7 DEF CallRecords
  <1>9. calls'[1].chunk = chunk /\ calls'[1].ip <= Len(chunk.code)
    BY <1>1, <1>6, <1>8 DEF LanguageInv, CallsOK
  <1>10. ASSUME NEW i \in 2 .. n PROVE CallNests(i)'
    <2>1. CallNests(i)
      BY <1>10 DEF LanguageInv, CallsOK
    <2>2. calls'[i - 1] = calls[i - 1]
      BY <1>1, <1>6, <1>10
    <2>3. calls'[i].chunk = calls[i].chunk /\ calls'[i].before = calls[i].before /\ calls'[i].base = calls[i].base
      BY <1>1, <1>6, <1>8, <1>10
    <2>4. calls'[i].ip < Len(calls[i].chunk.code)
      <3>1. CASE i = n
        BY <1>1, <1>8, <1>10, <3>1 DEF AtMain
      <3>2. CASE i # n
        BY <1>1, <1>6, <1>10, <2>1, <3>2 DEF CallNests
      <3> QED BY <3>1, <3>2
    <2> QED BY <2>1, <2>2, <2>3, <2>4 DEF CallNests
  <1>11. calls' # <<>>
    BY <1>1, <1>5
  <1> QED BY <1>5, <1>9, <1>10, <1>11 DEF CallsOK

(* Nothing but the calls is looked at in CallsOK.                          *)
LEMMA CallsStay == ASSUME CallsOK, UNCHANGED <<calls, chunk>> PROVE CallsOK'
  BY DEF CallsOK, CallNests

(* An error leaves the calls as they are, with the stack of the outermost. *)
LEMMA FailsKeeps ==
    ASSUME LanguageInv, NEW why \in {"error", "limit"}, Fails(why), used' \in 0 .. InstructionLimit,
           why = "limit" => used' = InstructionLimit
    PROVE  LanguageInv'
  <1>1. CallsOK'
    BY CallsStay DEF LanguageInv, Fails
  <1>2. stack' \in Seq(Values)
    <2>1. CASE AtMain
      BY <2>1 DEF Fails, LanguageInv, MachineTypes
    <2>2. CASE ~AtMain
      <3>1. Len(calls) \in Nat /\ Len(calls) > 0 /\ calls \in Seq(CallRecords)
        BY InnermostFacts DEF LanguageInv, CallsOK
      <3> DEFINE n == Len(calls)
      <3>2. n >= 2
        <4>1. n \in Nat /\ n > 0 /\ n # 1
          BY <2>2, <3>1 DEF AtMain
        <4> HIDE DEF n
        <4> QED BY <4>1
      <3>3. calls[2] \in CallRecords
        BY <3>1, <3>2
      <3> QED BY <2>2, <3>3 DEF Fails, CallRecords
    <2> QED BY <2>1, <2>2
  <1>3. MachineTypes'
    BY <1>2 DEF Fails, LanguageInv, MachineTypes
  <1>4. OutcomeOK'
    BY DEF Fails, OutcomeOK, AtMain
  <1> QED BY <1>1, <1>3, <1>4 DEF LanguageInv

(* The budget is never overdrawn.                                          *)
LEMMA FetchCounts == ASSUME LanguageInv, Fetch PROVE used' \in 0 .. InstructionLimit
  BY InterpreterAssumption DEF Fetch, BudgetLeft, LanguageInv, MachineTypes

(* An instruction that goes on in its chunk.                               *)
LEMMA GoesOnKeeps ==
    ASSUME LanguageInv, Fetch, NEW ip \in Nat, ip <= Len(Innermost.chunk.code),
           ~AtMain => ip < Len(Innermost.chunk.code),
           Continue(ip), UNCHANGED <<program, tapeRead, chunk, outcome>>,
           stack' \in Seq(Values), printed' \in Seq(Values), input' \in Seq(BOOLEAN)
    PROVE  LanguageInv'
  <1>1. CallsOK'
    BY ContinueKeeps
  <1>2. MachineTypes'
    BY FetchCounts DEF LanguageInv, MachineTypes
  <1>3. OutcomeOK'
    BY DEF Fetch, Running, OutcomeOK
  <1> QED BY <1>1, <1>2, <1>3 DEF LanguageInv

(* The next instruction, for one that neither jumps nor returns.           *)
LEMMA NextKeeps ==
    ASSUME LanguageInv, Fetch, Instruction # <<"return">>,
           Continue(Innermost.ip + 1), UNCHANGED <<program, tapeRead, chunk, outcome>>,
           stack' \in Seq(Values), printed' \in Seq(Values), input' \in Seq(BOOLEAN)
    PROVE  LanguageInv'
  <1>1. ~AtEnd
    BY DEF Fetch
  <1>2. Innermost.ip \in Nat
    BY InnermostFacts
  <1>3. /\ Innermost.ip + 1 \in Nat /\ Innermost.ip + 1 <= Len(Innermost.chunk.code)
        /\ ~AtMain => Innermost.ip + 1 < Len(Innermost.chunk.code)
    BY <1>1, <1>2, InstructionFacts
  <1> QED BY <1>3, GoesOnKeeps

(* What a value on the stack can be.                                       *)
LEMMA ValueFacts ==
    /\ \A b \in BOOLEAN : BoolValue(b) \in Values
    /\ \A b \in Blocks : BlockValue(b) \in Values
    /\ NilValue \in Values
    /\ \A v \in Values : IsBlock(v) => v[2] \in Blocks /\ v = BlockValue(v[2])
  BY DEF Values, BoolValue, BlockValue, NilValue, IsBlock

(* The instructions that push a value.                                     *)
LEMMA PushKeeps ==
    ASSUME LanguageInv, PushBool \/ PushBlock \/ Read PROVE LanguageInv'
  <1> USE DEF LanguageInv, MachineTypes
  <1>1. CASE PushBool
    <2>1. ~AtEnd /\ Fetch
      BY <1>1 DEF PushBool, Fetch
    <2>2. Instruction \in Operations /\ Instruction[1] = "bool"
      BY <1>1, <2>1, InstructionFacts DEF PushBool
    <2>3. Instruction[2] \in BOOLEAN /\ Instruction # <<"return">>
      BY <2>2 DEF Operations
    <2>4. stack' \in Seq(Values)
      BY <1>1, <2>3, ValueFacts DEF PushBool
    <2> QED BY <1>1, <2>1, <2>3, <2>4, NextKeeps DEF PushBool
  <1>2. CASE PushBlock
    <2>1. ~AtEnd /\ Fetch
      BY <1>2 DEF PushBlock, Fetch
    <2>2. Instruction[1] = "block" /\ Instruction[2] \in 1 .. Len(Innermost.chunk.blocks)
      BY <1>2, <2>1, InstructionFacts DEF PushBlock
    <2>3. Innermost.chunk.blocks \in Seq(Blocks)
      BY InnermostFacts DEF IsLinked
    <2>4. Innermost.chunk.blocks[Instruction[2]] \in Blocks
      BY <2>2, <2>3
    <2>5. stack' \in Seq(Values)
      BY <1>2, <2>4, ValueFacts DEF PushBlock
    <2>6. Instruction # <<"return">>
      BY <2>2
    <2> QED BY <1>2, <2>1, <2>5, <2>6, NextKeeps DEF PushBlock
  <1>3. CASE Read
    <2>1. Fetch /\ Instruction # <<"return">>
      BY <1>3 DEF Read
    <2>2. stack' \in Seq(Values)
      <3> DEFINE v == BoolValue(input # <<>> /\ Head(input))
      <3>1. (input # <<>> /\ Head(input)) \in BOOLEAN
        OBVIOUS
      <3>2. v \in Values
        BY <3>1, ValueFacts
      <3>3. stack' = Append(stack, v)
        BY <1>3 DEF Read
      <3> HIDE DEF v
      <3>4. stack \in Seq(Values)
        OBVIOUS
      <3> QED BY <3>2, <3>3, <3>4
    <2>3. input' \in Seq(BOOLEAN)
      <3>1. input \in Seq(BOOLEAN)
        OBVIOUS
      <3>2. input # <<>> => Tail(input) \in Seq(BOOLEAN)
        BY <3>1
      <3>3. input' = IF input = <<>> THEN input ELSE Tail(input)
        BY <1>3 DEF Read
      <3> QED BY <3>1, <3>2, <3>3
    <2> QED BY <1>3, <2>1, <2>2, <2>3, NextKeeps DEF Read
  <1> QED BY <1>1, <1>2, <1>3

(* println writes the top of the stack, or fails without one.              *)
LEMMA PrintlnKeeps == ASSUME LanguageInv, Println PROVE LanguageInv'
  <1>1. Fetch /\ Instruction # <<"return">>
    BY DEF Println
  <1>2. CASE stack = <<>>
    BY <1>1, <1>2, FetchCounts, FailsKeeps DEF Println
  <1>3. CASE stack # <<>>
    <2>1. stack \in Seq(Values) /\ printed \in Seq(Values) /\ input \in Seq(BOOLEAN)
      BY DEF LanguageInv, MachineTypes
    <2>2. Front(stack) \in Seq(Values) /\ Last(stack) \in Values
      BY <1>3, <2>1, FrontAndLast
    <2>3. stack' = Front(stack) /\ printed' = Append(printed, Last(stack)) /\ input' = input
      BY <1>3 DEF Println, Top
    <2>4. stack' \in Seq(Values) /\ printed' \in Seq(Values) /\ input' \in Seq(BOOLEAN)
      BY <2>1, <2>2, <2>3
    <2> QED BY <1>1, <1>3, <2>4, NextKeeps DEF Println
  <1> QED BY <1>2, <1>3

(* A jump stays inside its chunk.                                          *)
LEMMA JumpKeeps == ASSUME LanguageInv, Jump PROVE LanguageInv'
  <1>1. Fetch /\ ~AtEnd
    BY DEF Jump, Fetch
  <1>2. /\ Instruction \in Operations /\ Instruction[1] = "jump"
        /\ Instruction[2] <= Len(Innermost.chunk.code)
        /\ ~AtMain => Instruction[2] < Len(Innermost.chunk.code)
    BY <1>1, InstructionFacts DEF Jump
  <1>3. Instruction[2] \in Nat
    BY <1>2 DEF Operations
  <1>4. stack' \in Seq(Values) /\ printed' \in Seq(Values) /\ input' \in Seq(BOOLEAN)
    BY DEF Jump, LanguageInv, MachineTypes
  <1> QED BY <1>1, <1>2, <1>3, <1>4, GoesOnKeeps DEF Jump

(* So does one that depends on the top of the stack.                       *)
LEMMA JumpIfFalseKeeps == ASSUME LanguageInv, JumpIfFalse PROVE LanguageInv'
  <1>1. Fetch /\ ~AtEnd
    BY DEF JumpIfFalse, Fetch
  <1>2. CASE stack = <<>>
    BY <1>1, <1>2, FetchCounts, FailsKeeps DEF JumpIfFalse
  <1>3. CASE stack # <<>>
    <2>1. /\ Instruction \in Operations /\ Instruction[1] = "jumpIfFalse"
          /\ Instruction[2] <= Len(Innermost.chunk.code)
          /\ ~AtMain => Instruction[2] < Len(Innermost.chunk.code)
      BY <1>1, InstructionFacts DEF JumpIfFalse
    <2>2. Instruction[2] \in Nat /\ Instruction # <<"return">>
      BY <2>1 DEF Operations
    <2>3. stack \in Seq(Values) /\ printed' \in Seq(Values) /\ input' \in Seq(BOOLEAN)
      BY <1>3 DEF JumpIfFalse, LanguageInv, MachineTypes
    <2>4. stack' \in Seq(Values)
      BY <1>3, <2>3, FrontAndLast DEF JumpIfFalse
    <2>5. CASE Truthy(Top)
      BY <1>1, <1>3, <2>2, <2>3, <2>4, <2>5, NextKeeps DEF JumpIfFalse
    <2>6. CASE ~Truthy(Top)
      BY <1>1, <1>3, <2>1, <2>2, <2>3, <2>4, <2>6, GoesOnKeeps DEF JumpIfFalse
    <2> QED BY <2>5, <2>6
  <1> QED BY <1>2, <1>3

(* A block that is called starts, and its caller waits at the call.        *)
LEMMA CallKeeps == ASSUME LanguageInv, CallBlock PROVE LanguageInv'
  <1>1. Fetch /\ ~AtEnd /\ Instruction = <<"word", "call">>
    BY DEF CallBlock, Fetch
  <1>2. CASE stack = <<>> \/ ~IsBlock(Top)
    BY <1>1, <1>2, FetchCounts, FailsKeeps DEF CallBlock
  <1>3. CASE stack # <<>> /\ IsBlock(Top)
    <2> DEFINE new == Call(Top[2], stack)
               n == Len(calls)
    <2>1. stack \in Seq(Values)
      BY DEF LanguageInv, MachineTypes
    <2>2. Top \in Values /\ Front(stack) \in Seq(Values) /\ Len(stack) \in Nat /\ Len(stack) > 0
      BY <1>3, <2>1, FrontAndLast DEF Top
    <2>3. Top[2] \in Blocks /\ Top = BlockValue(Top[2])
      BY <1>3, <2>2, ValueFacts
    <2>4. IsLinked(Top[2]) /\ EndsInReturn(Top[2])
      BY <2>3, InterpreterAssumption
    <2>5. Len(Top[2].code) \in Nat /\ Len(Top[2].code) > 0
      BY <2>4 DEF IsLinked, EndsInReturn
    <2>6. /\ new.chunk = Top[2] /\ new.ip = 0 /\ new.before = stack /\ new.base = Len(stack) - 1
          /\ new \in CallRecords
      BY <2>1, <2>2, <2>3 DEF Call, CallRecords, Chunks
    <2>7. calls' = Append(calls, new) /\ stack' = Front(stack)
      BY <1>3 DEF CallBlock
    <2>8. UNCHANGED <<program, tapeRead, chunk, printed, input, outcome>>
      BY <1>3 DEF CallBlock
    <2>9. n \in Nat /\ n > 0 /\ calls \in Seq(CallRecords) /\ Innermost = calls[n]
      BY InnermostFacts DEF LanguageInv, CallsOK
    <2> HIDE DEF new
    <2>10. /\ calls' \in Seq(CallRecords) /\ Len(calls') = n + 1
           /\ \A i \in 1 .. n : calls'[i] = calls[i]
           /\ calls'[n + 1] = new
      BY <2>6, <2>7, <2>9
    <2>11. calls'[1].chunk = chunk' /\ calls'[1].ip <= Len(chunk'.code)
      BY <2>8, <2>9, <2>10 DEF LanguageInv, CallsOK
    <2>12. ASSUME NEW i \in 2 .. n + 1 PROVE CallNests(i)'
      <3>1. CASE i = n + 1
        <4>1. calls'[i] = new /\ calls'[i - 1] = Innermost
          BY <2>9, <2>10, <3>1
        <4>2. Innermost.ip < Len(Innermost.chunk.code) /\ Innermost.chunk.code[Innermost.ip + 1] = <<"word", "call">>
          BY <1>1, InstructionFacts DEF Instruction
        <4>3. Last(stack) = BlockValue(new.chunk)
          BY <2>3, <2>6 DEF Top
        <4> QED BY <1>3, <2>5, <2>6, <4>1, <4>2, <4>3 DEF CallNests
      <3>2. CASE i # n + 1
        <4>1. CallNests(i)
          BY <2>9, <2>12, <3>2 DEF LanguageInv, CallsOK
        <4>2. calls'[i] = calls[i] /\ calls'[i - 1] = calls[i - 1]
          BY <2>9, <2>10, <2>12, <3>2
        <4> QED BY <4>1, <4>2 DEF CallNests
      <3> QED BY <3>1, <3>2
    <2>13. CallsOK'
      BY <2>9, <2>10, <2>11, <2>12 DEF CallsOK
    <2>14. MachineTypes'
      BY <1>1, <2>2, <2>7, <2>8, FetchCounts DEF LanguageInv, MachineTypes
    <2>15. OutcomeOK'
      BY <1>1, <2>8 DEF Fetch, Running, OutcomeOK
    <2> QED BY <2>13, <2>14, <2>15 DEF LanguageInv
  <1> QED BY <1>2, <1>3

(* A block that returns leaves one value to its caller, which goes on.     *)
LEMMA ReturnKeeps == ASSUME LanguageInv, Return PROVE LanguageInv'
  <1>1. Fetch /\ ~AtEnd
    BY DEF Return, Fetch
  <1>2. CASE AtMain
    BY <1>1, <1>2, FetchCounts, FailsKeeps DEF Return
  <1>3. CASE ~AtMain
    <2> DEFINE n == Len(calls)
               m == n - 1
               base == Innermost.base
               result == IF Len(stack) > base THEN Top ELSE NilValue
               cut == IF Len(stack) < base THEN Len(stack) ELSE base
               caller == calls[m]
               resumed == [caller EXCEPT !.ip = @ + 1]
    <2>1. n \in Nat /\ n > 0 /\ calls \in Seq(CallRecords) /\ calls # <<>> /\ Innermost \in CallRecords
      BY InnermostFacts DEF LanguageInv, CallsOK
    <2>2. m \in Nat /\ m > 0 /\ m \in 1 .. n /\ n \in 2 .. n /\ n > 1 /\ base \in Nat
      <3>1. n # 1
        BY <1>3 DEF AtMain
      <3>2. base \in Nat
        BY <2>1 DEF CallRecords
      <3>3. n \in Nat /\ n > 0
        BY <2>1
      <3> HIDE DEF n, base
      <3>4. n - 1 \in Nat /\ n - 1 > 0 /\ n - 1 \in 1 .. n /\ n \in 2 .. n /\ n > 1
        BY <3>1, <3>3
      <3> QED BY <3>2, <3>4
    <2>3. caller \in CallRecords
      BY <2>1, <2>2
    <2>4. resumed \in CallRecords /\ resumed.ip = caller.ip + 1 /\ resumed.chunk = caller.chunk
          /\ resumed.before = caller.before /\ resumed.base = caller.base
      BY <2>3 DEF CallRecords
    <2>5. BlockReturns
      BY <1>3 DEF Return
    <2>6. calls' = [Front(calls) EXCEPT ![m].ip = @ + 1]
      BY <2>5 DEF BlockReturns
    <2>7. /\ Front(calls) \in Seq(CallRecords) /\ Len(Front(calls)) = m
          /\ \A i \in 1 .. m : Front(calls)[i] = calls[i]
      BY <2>1, FrontAndLast
    <2>8. calls' = [Front(calls) EXCEPT ![m] = resumed]
      <3>1. Front(calls)[m] = caller
        BY <2>2, <2>7
      <3>2. calls' = [Front(calls) EXCEPT ![m] = [Front(calls)[m] EXCEPT !.ip = Front(calls)[m].ip + 1]]
        BY <2>6
      <3> QED BY <3>1, <3>2
    <2> HIDE DEF resumed
    <2>9. /\ calls' \in Seq(CallRecords) /\ Len(calls') = m
          /\ \A i \in 1 .. m : i # m => calls'[i] = calls[i]
          /\ calls'[m] = resumed
      BY <2>2, <2>4, <2>7, <2>8
    <2>10. UNCHANGED <<program, tapeRead, chunk, printed, input, outcome>>
      BY <2>5 DEF BlockReturns
    <2>11. /\ caller.ip < Len(caller.chunk.code)
           /\ caller.chunk.code[caller.ip + 1] = <<"word", "call">>
      BY <2>2 DEF LanguageInv, CallsOK, CallNests
    <2>12. IsLinked(caller.chunk) /\ caller.ip \in Nat /\ Len(caller.chunk.code) \in Nat
      BY <2>3, ChunksLinked DEF CallRecords, IsLinked
    <2>13. calls'[1].chunk = chunk' /\ calls'[1].ip <= Len(chunk'.code)
      <3>1. calls[1].chunk = chunk /\ calls[1].ip <= Len(chunk.code)
        BY DEF LanguageInv, CallsOK
      <3>2. CASE m = 1
        <4>1. caller = calls[1] /\ calls'[1] = resumed
          BY <2>9, <3>2
        <4>2. resumed.ip <= Len(caller.chunk.code)
          BY <2>4, <2>11, <2>12
        <4> QED BY <2>4, <2>10, <3>1, <4>1, <4>2
      <3>3. CASE m # 1
        BY <2>2, <2>9, <2>10, <3>1, <3>3
      <3> QED BY <3>2, <3>3
    <2>14. ASSUME NEW i \in 2 .. m PROVE CallNests(i)'
      <3>1. CallNests(i)
        BY <2>2, <2>14 DEF LanguageInv, CallsOK
      <3>2. calls'[i - 1] = calls[i - 1]
        BY <2>2, <2>9, <2>14
      <3>3. CASE i = m
        <4>1. calls'[i] = resumed /\ caller = calls[i]
          BY <2>9, <3>3
        <4>2. caller.chunk \in Blocks
          <5>1. caller.before \in Seq(Values) /\ caller.before # <<>>
            BY <2>3, <3>1, <4>1 DEF CallRecords, CallNests
          <5>2. Last(caller.before) \in Values
            BY <5>1, FrontAndLast
          <5>3. <<"block", caller.chunk>> \in Values
            BY <3>1, <4>1, <5>2 DEF CallNests, BlockValue
          <5> QED BY <5>3 DEF Values, NilValue
        <4>3. EndsInReturn(caller.chunk)
          BY <4>2, InterpreterAssumption
        <4>4. caller.chunk.code[Len(caller.chunk.code)] = <<"return">>
          BY <4>3 DEF EndsInReturn, Last
        <4>5. caller.ip + 1 # Len(caller.chunk.code)
          BY <2>11, <4>4
        <4>6. resumed.ip < Len(resumed.chunk.code)
          BY <2>4, <2>11, <2>12, <4>5
        <4> QED BY <2>4, <3>1, <3>2, <4>1, <4>6 DEF CallNests
      <3>4. CASE i # m
        <4>1. calls'[i] = calls[i]
          BY <2>2, <2>9, <2>14, <3>4
        <4> QED BY <3>1, <3>2, <4>1 DEF CallNests
      <3> QED BY <3>3, <3>4
    <2>15. CallsOK'
      BY <2>2, <2>9, <2>13, <2>14 DEF CallsOK
    <2>16. stack' \in Seq(Values)
      <3>1. stack \in Seq(Values) /\ Len(stack) \in Nat
        BY DEF LanguageInv, MachineTypes
      <3>2. result \in Values
        <4>1. CASE Len(stack) > base
          <5>1. stack # <<>>
            BY <2>2, <4>1
          <5> QED BY <3>1, <4>1, <5>1, FrontAndLast DEF Top
        <4>2. CASE ~(Len(stack) > base)
          BY <4>2, ValueFacts
        <4> QED BY <4>1, <4>2
      <3>3. cut \in Nat /\ cut <= Len(stack)
        BY <2>2, <3>1
      <3>4. stack' = Append(SubSeq(stack, 1, cut), result)
        BY <2>5 DEF BlockReturns, Truncate
      <3> HIDE DEF cut, result
      <3>5. SubSeq(stack, 1, cut) \in Seq(Values)
        BY <3>1, <3>3
      <3> QED BY <3>2, <3>4, <3>5
    <2>17. MachineTypes'
      BY <1>1, <2>10, <2>16, FetchCounts DEF LanguageInv, MachineTypes
    <2>18. OutcomeOK'
      BY <1>1, <2>10 DEF Fetch, Running, OutcomeOK
    <2> QED BY <2>15, <2>17, <2>18 DEF LanguageInv
  <1> QED BY <1>2, <1>3

(* A program ends where its chunk does.                                    *)
LEMMA EndsKeeps == ASSUME LanguageInv, Ends PROVE LanguageInv'
  <1>1. CallsOK'
    BY CallsStay DEF LanguageInv, Ends
  <1>2. MachineTypes'
    BY DEF LanguageInv, MachineTypes, Ends
  <1>3. OutcomeOK'
    BY DEF Ends, OutcomeOK, AtMain, AtEnd, Innermost
  <1> QED BY <1>1, <1>2, <1>3 DEF LanguageInv

(* A program without budget stops.                                         *)
LEMMA ExhaustedKeeps == ASSUME LanguageInv, Exhausted PROVE LanguageInv'
  <1>1. used \in 0 .. InstructionLimit /\ UNCHANGED used /\ Fails("limit")
    BY DEF Exhausted, LanguageInv, MachineTypes
  <1>2. used = InstructionLimit
    BY <1>1, InterpreterAssumption DEF Exhausted, BudgetLeft
  <1> QED BY <1>1, <1>2, FailsKeeps

(* A program starts with one call and an empty stack.                      *)
LEMMA LanguageStarts == LanguageInit => LanguageInv
  <1> SUFFICES ASSUME NEW p \in Compiled, NEW tape \in Tapes, Start(p, tape) PROVE LanguageInv
    BY DEF LanguageInit
  <1>1. p.chunk \in Chunks /\ p.files \in Programs /\ IsLinked(p.chunk) /\ tape \in Seq(BOOLEAN)
    BY InterpreterAssumption DEF Chunks, Programs
  <1>2. Len(p.chunk.code) \in Nat
    BY <1>1 DEF IsLinked
  <1>3. MachineTypes
    BY <1>1, InterpreterAssumption DEF Start, MachineTypes
  <1>4. <<>> \in Seq(Values)
    OBVIOUS
  <1>5. [chunk |-> p.chunk, ip |-> 0, before |-> <<>>, base |-> 0] \in CallRecords
    BY <1>1, <1>4 DEF CallRecords
  <1>6. CallsOK
    BY <1>2, <1>5 DEF Start, CallsOK
  <1>7. OutcomeOK
    BY DEF Start, OutcomeOK
  <1> QED BY <1>3, <1>6, <1>7 DEF LanguageInv

(* Every step keeps the invariant.                                         *)
LEMMA LanguageStep == LanguageInv /\ [LanguageNext]_languageVars => LanguageInv'
  <1> SUFFICES ASSUME LanguageInv, [LanguageNext]_languageVars PROVE LanguageInv'
    OBVIOUS
  <1>1. CASE PushBool \/ PushBlock \/ Read
    BY <1>1, PushKeeps
  <1>2. CASE Println \/ CallBlock
    BY <1>2, PrintlnKeeps, CallKeeps
  <1>3. CASE JumpIfFalse \/ Jump
    BY <1>3, JumpIfFalseKeeps, JumpKeeps
  <1>4. CASE Return
    BY <1>4, ReturnKeeps
  <1>5. CASE Ends \/ Exhausted
    BY <1>5, EndsKeeps, ExhaustedKeeps
  <1>6. CASE UNCHANGED languageVars
    <2>1. UNCHANGED <<calls, chunk>> /\ UNCHANGED <<program, stack, printed, input, tapeRead, used, outcome>>
      BY <1>6 DEF languageVars
    <2>2. CallsOK'
      BY <2>1, CallsStay DEF LanguageInv
    <2>3. MachineTypes' /\ OutcomeOK'
      BY <2>1 DEF LanguageInv, MachineTypes, OutcomeOK, AtMain, AtEnd, Innermost
    <2> QED BY <2>2, <2>3 DEF LanguageInv
  <1> QED BY <1>1, <1>2, <1>3, <1>4, <1>5, <1>6 DEF LanguageNext

(* LanguageTypeOK, for every value of the constants.                       *)
THEOREM LanguageTypesKept == LanguageSpec => []LanguageTypeOK
  BY LanguageStarts, LanguageStep, LanguagePromises, PTL DEF LanguageSpec

(* ExecutionSound: a caller waits at its call, no block runs off its end,  *)
(* errors give the stack of the outermost call back, and the budget is kept*)
(* for every program whose chunks the compiler linked.                     *)
THEOREM ExecutionIsSound == LanguageSpec => []ExecutionSound
  BY LanguageStarts, LanguageStep, LanguagePromises, PTL DEF LanguageSpec

-----------------------------------------------------------------------------
(***************************************************************************)
(* What runs a program, as a whole.                                        *)
(***************************************************************************)

(* Every part but the interpreter starts in an initial state of its own,   *)
(* and takes a step of its own or none.                                    *)
PartsStart == Init /\ ModuleInit /\ ReloadInit /\ ChannelInit
(* The steps of these parts.                                               *)
PartsMove ==
    [Next]_vars /\ [ModuleNext]_moduleVars /\ [ReloadNext]_reloadVars /\ [ChannelNext]_channelVars

(* A step is one of a part that leaves the others alone, and the           *)
(* interpreter moves only where it is the part that runs.                  *)
LEMMA ProgramStepsParts ==
    /\ ProgramInit => PartsStart
    /\ [ProgramNext]_programVars => PartsMove
    /\ [ProgramNext]_programVars => /\ UNCHANGED facet
                                    /\ [LanguageNext]_languageVars
                                    /\ ~Runs("language") => UNCHANGED languageVars
  <1>1. ProgramInit => PartsStart
    BY DEF ProgramInit, PartsStart
  <1>2. UNCHANGED programVars => /\ PartsMove /\ UNCHANGED facet /\ [LanguageNext]_languageVars
                                 /\ UNCHANGED languageVars
    BY DEF programVars, PartsMove
  <1>3. ProgramNext => /\ PartsMove /\ UNCHANGED facet /\ [LanguageNext]_languageVars
                       /\ ~Runs("language") => UNCHANGED languageVars
    <2> SUFFICES ASSUME ProgramNext
                 PROVE  /\ PartsMove /\ UNCHANGED facet /\ [LanguageNext]_languageVars
                        /\ ~Runs("language") => UNCHANGED languageVars
      OBVIOUS
    <2>1. CASE MayStop /\ UNCHANGED programVars
      BY <1>2, <2>1
    <2>2. CASE ~(MayStop /\ UNCHANGED programVars)
      BY <2>2 DEF ProgramNext, Runs, Still, PartsMove
    <2> QED BY <2>1, <2>2
  <1> QED BY <1>1, <1>2, <1>3

(* ProgramRuntime refines each of its parts, and the interpreter where it  *)
(* runs one.                                                               *)
THEOREM ProgramRunsItsParts ==
    /\ ProgramSpec => Spec /\ ModuleSpec /\ ReloadSpec /\ ChannelSpec
    /\ ProgramSpec /\ Runs("language") => LanguageSpec
  <1>1. ProgramSpec => Spec /\ ModuleSpec /\ ReloadSpec /\ ChannelSpec
    BY ProgramStepsParts, PTL DEF ProgramSpec, PartsStart, PartsMove, Spec, ModuleSpec, ReloadSpec, ChannelSpec
  <1>2. ProgramInit /\ Runs("language") => LanguageInit
    BY DEF ProgramInit
  <1>3. ProgramSpec /\ Runs("language") => LanguageSpec
    BY <1>2, ProgramStepsParts, PTL DEF ProgramSpec, LanguageSpec
  <1> QED BY <1>1, <1>3

(* The interpreter has its invariant, or nothing to run.                   *)
InterpreterInv == IF Runs("language") THEN LanguageInv ELSE Start(NoProgram, <<>>)

(* It stays so.                                                            *)
LEMMA InterpreterInvariant == ProgramSpec => []InterpreterInv
  <1>1. ProgramInit => InterpreterInv
    BY LanguageStarts DEF ProgramInit, InterpreterInv
  <1>2. InterpreterInv /\ [ProgramNext]_programVars => InterpreterInv'
    <2> SUFFICES ASSUME InterpreterInv, [ProgramNext]_programVars PROVE InterpreterInv'
      OBVIOUS
    <2>1. CASE Runs("language")
      <3>1. LanguageInv'
        BY <2>1, ProgramStepsParts, LanguageStep DEF InterpreterInv
      <3>2. Runs("language")'
        BY <2>1, ProgramStepsParts DEF Runs
      <3> QED BY <3>1, <3>2 DEF InterpreterInv
    <2>2. CASE ~Runs("language")
      <3>1. UNCHANGED languageVars /\ UNCHANGED facet
        BY <2>2, ProgramStepsParts
      <3> QED BY <2>2, <3>1 DEF InterpreterInv, Runs, Start, languageVars
    <2> QED BY <2>1, <2>2
  <1> QED BY <1>1, <1>2, PTL DEF ProgramSpec

(* ProgramTypeOK, for every value of the constants: whichever part a       *)
(* behaviour runs, its variables keep their types.                         *)
THEOREM ProgramTypesKept == ProgramSpec => []ProgramTypeOK
  <1>1. InterpreterInv => (Runs("language") => LanguageTypeOK)
    BY LanguagePromises DEF InterpreterInv
  <1>2. TypeOK /\ ModuleTypeOK /\ ReloadTypeOK /\ ChannelTypeOK /\ InterpreterInv => ProgramTypeOK
    BY <1>1 DEF ProgramTypeOK
  <1> QED BY <1>2, InterpreterInvariant, ProgramRunsItsParts, TypeCorrect, ModuleTypesKept, ReloadTypesKept,
             ChannelTypesKept, PTL

(* What holds in every state while a program runs.                         *)
ProgramSafe ==
    /\ SlotsAccounted /\ NoOrphanedChild /\ CancelNotLost /\ WriteSeesLiveJob
    /\ ModulesSound /\ ReloadCoherent /\ ExecutionSound /\ ChannelSound

(* The safety invariants of all parts hold together.                       *)
THEOREM ProgramIsSafe == ProgramSpec => []ProgramSafe
  <1>1. InterpreterInv => ExecutionSound
    <2>1. CASE Runs("language")
      BY <2>1, LanguagePromises DEF InterpreterInv
    <2>2. ASSUME Start(NoProgram, <<>>) PROVE ExecutionSound
      BY <2>2, InterpreterAssumption DEF Start, NoProgram, EmptyChunk, ExecutionSound
    <2> QED BY <2>1, <2>2 DEF InterpreterInv
  <1> QED BY <1>1, InterpreterInvariant, ProgramRunsItsParts, SlotsAlwaysAccounted, ChildrenReachable, CancelReported,
             WritersSeeLiveJobs, ModulesAreSound, ReloadIsCoherent, ChannelIsSound, PTL DEF ProgramSafe

(* The outcome of a job is final, and the registry of jobs keeps the       *)
(* contract of RetainedRegistry, beside all that runs a program.           *)
THEOREM ProgramKeepsItsWord == ProgramSpec => TerminalIsFinal /\ RetainedSpec
  BY ProgramRunsItsParts, TerminalForEver, ImplementsRetained, PTL

=============================================================================
