------------------------- MODULE HostResourceProofs -------------------------
(***************************************************************************)
(* Theorems about StreamRuntime, PtyRuntime and SocketRuntime: what a host *)
(* keeps for its programs, counts and gives back.                          *)
(***************************************************************************)
EXTENDS StreamRuntime, PtyRuntime, SocketRuntime,
        FiniteSetTheorems, TLAPS

-----------------------------------------------------------------------------
(***************************************************************************)
(* HTTP and upload streams, for any number of clients, streams and bytes.  *)
(***************************************************************************)

(* The record of a stream.                                                 *)
StreamRecs == [status : StreamStatuses, cancelRequested : BOOLEAN, body : 0 .. BodyMax,
               truncated : BOOLEAN, worker : WorkerSteps, chunk : 0 .. ChunkMax,
               received : 0 .. ServerBytes]
(* The statuses in which it is over.                                       *)
Over == {"completed", "failed", "cancelled"}

(* The body is what was received without the chunk in hand, up to the      *)
(* limit, and the worker stops at the first chunk that does not fit.       *)
BodyKept(s) ==
    /\ s.worker # "append" => s.chunk = 0
    /\ s.chunk <= s.received
    /\ s.received - s.chunk <= BodyMax => s.body = s.received - s.chunk /\ ~s.truncated
    /\ s.received - s.chunk > BodyMax => s.body = BodyMax /\ s.truncated
    /\ s.worker \in {"none", "started", "sending", "loop", "reading", "append"} =>
          s.received - s.chunk <= BodyMax

(* The status of a stream and the step of its worker.                      *)
StreamSound(s) ==
    /\ s.worker = "none" <=> s.status = "none"
    /\ s.status = "none" => s = NoStream
    /\ s.status \in Active => s.worker # "ended" /\ ~s.cancelRequested
    /\ s.status \in {"completed", "failed"} => s.worker = "ended"
    /\ s.status = "cancelled" => s.cancelRequested
    /\ s.status \in Active \cup {"completed"} => BodyKept(s)

(* Every stream, known to the registry or not.                             *)
StreamsSound == \A id \in StreamIds : StreamSound(stream[id])

(* Ids below next_id were started; an active stream is retained.           *)
RegistryInv ==
    /\ \A id \in streams : id < streamNext
    /\ \A id \in StreamIds :
          /\ stream[id].status # "none" <=> id < streamNext
          /\ stream[id].status \in Active => id \in streams

(* A call works on a stream that was started; the one it removes is over.  *)
StreamCallsInv ==
    \A c \in StreamClients :
        /\ streamCall[c].step \in {"cancel", "release", "read", "remove"} =>
              streamCall[c].id \in StreamIds /\ stream[streamCall[c].id].status # "none"
        /\ streamCall[c].step = "remove" => stream[streamCall[c].id].status \in Over

(* A reader that was told done has the body of a stream that is over.      *)
ReadersInv ==
    \A c \in StreamClients : reader[c].kind = "http" /\ reader[c].done =>
        /\ reader[c].id \in StreamIds /\ stream[reader[c].id].status \in Over
        /\ reader[c].offset = stream[reader[c].id].body

(* A file is on disk while its upload is retained or read.                 *)
UploadInv ==
    /\ uploads \subseteq uploadFile
    /\ \A c \in StreamClients :
          streamCall[c].step \in {"read_upload", "eof_upload"} => streamCall[c].id \in uploadFile

(* The inductive invariant.                                                *)
StreamInv ==
    /\ StreamTypeOK /\ StreamsSound /\ RegistryInv
    /\ StreamCallsInv /\ ReadersInv /\ UploadInv

-----------------------------------------------------------------------------
(* What Min answers for two numbers.                                       *)
LEMMA MinOfTwo ==
    ASSUME NEW a \in Int, NEW b \in Int
    PROVE  Min({a, b}) = IF a <= b THEN a ELSE b
  BY DEF Min

(* The record before a start is one of them.                               *)
LEMMA NoStreamType == NoStream \in StreamRecs /\ StreamSound(NoStream)
  <1>1. {BodyMax, ChunkMax, ServerBytes} \subseteq Nat
    BY StreamAssumption
  <1>2. NoStream \in StreamRecs
    BY <1>1 DEF NoStream, StreamRecs, StreamStatuses, WorkerSteps
  <1>3. StreamSound(NoStream)
    BY DEF NoStream, StreamSound, Active
  <1> QED BY <1>2, <1>3

(* How a stream may change: it never becomes active again, and once it is  *)
(* over it keeps its status and its body.                                  *)
Follows(s, r) ==
    /\ s.status = "none" <=> r.status = "none"
    /\ r.status \in Active => s.status \in Active
    /\ s.status \in Over => r.status = s.status /\ r.body = s.body /\ r.truncated = s.truncated

(* A step of a worker leaves its stream sound.                             *)
GoodStep(s, r) == r \in StreamRecs /\ StreamSound(r) /\ Follows(s, r)

(* The worker moves on without touching the stream.                        *)
LEMMA MoveSound ==
    ASSUME NEW s \in StreamRecs, StreamSound(s), NEW step \in WorkerSteps,
           s.worker \notin {"none", "ended", "append"}, step \notin {"none", "append"},
           step = "ended" => s.status = "cancelled",
           step \in {"started", "sending", "loop", "reading"} => s.worker \in {"started", "sending", "loop", "reading"}
    PROVE  GoodStep(s, [s EXCEPT !.worker = step])
  <1> DEFINE r == [s EXCEPT !.worker = step]
  <1>1. /\ r \in StreamRecs /\ r.worker = step /\ r.status = s.status /\ r.body = s.body
        /\ r.truncated = s.truncated /\ r.chunk = s.chunk /\ r.received = s.received
        /\ r.cancelRequested = s.cancelRequested
    BY DEF StreamRecs
  <1> HIDE DEF r
  <1>2. s.status \in Active \cup {"cancelled"}
    BY DEF StreamSound, StreamRecs, StreamStatuses
  <1>3. s.status \in Active => BodyKept(s)
    BY DEF StreamSound
  <1>4. BodyKept(s) => BodyKept(r)
    BY <1>1 DEF BodyKept
  <1>5. StreamSound(r)
    BY <1>1, <1>2, <1>3, <1>4 DEF StreamSound, Active
  <1>6. Follows(s, r)
    BY <1>1 DEF Follows
  <1> QED BY <1>1, <1>5, <1>6 DEF GoodStep, r

(* cancel                                                                  *)
LEMMA CancelSound ==
    ASSUME NEW s \in StreamRecs, StreamSound(s), s.status # "none"
    PROVE  GoodStep(s, [s EXCEPT !.cancelRequested = TRUE,
                                 !.status = IF s.status \in Active THEN "cancelled" ELSE s.status])
  <1> DEFINE st == IF s.status \in Active THEN "cancelled" ELSE s.status
             r == [s EXCEPT !.cancelRequested = TRUE, !.status = st]
  <1>1. st \in Over /\ st \in StreamStatuses /\ (s.status \in Over => st = s.status)
    BY DEF StreamRecs, StreamStatuses, Active, Over
  <1>2. /\ r \in StreamRecs /\ r.worker = s.worker /\ r.status = st /\ r.body = s.body
        /\ r.truncated = s.truncated /\ r.chunk = s.chunk /\ r.received = s.received
        /\ r.cancelRequested
    BY <1>1 DEF StreamRecs
  <1>3. s.status \in {"completed", "failed"} <=> st \in {"completed", "failed"}
    BY <1>1 DEF Active
  <1>4. st = "completed" => s.status = "completed"
    BY DEF Active
  <1> HIDE DEF r, st
  <1>5. BodyKept(s) => BodyKept(r)
    BY <1>2 DEF BodyKept
  <1>6. StreamSound(r)
    BY <1>1, <1>2, <1>3, <1>4, <1>5 DEF StreamSound, Over, Active
  <1>7. Follows(s, r)
    BY <1>1, <1>2 DEF Follows, Over, Active
  <1> QED BY <1>2, <1>6, <1>7 DEF GoodStep, r, st

(* mark_running                                                            *)
LEMMA RunningSound ==
    ASSUME NEW s \in StreamRecs, StreamSound(s), s.worker = "sending"
    PROVE  GoodStep(s, [s EXCEPT !.status = IF s.status = "cancelled" THEN s.status ELSE "running",
                                 !.worker = "loop"])
  <1> DEFINE st == IF s.status = "cancelled" THEN s.status ELSE "running"
             r == [s EXCEPT !.status = st, !.worker = "loop"]
  <1>1. s.status \in Active \cup {"cancelled"}
    BY DEF StreamSound, StreamRecs, StreamStatuses
  <1>2. /\ r \in StreamRecs /\ r.worker = "loop" /\ r.status = st /\ r.body = s.body
        /\ r.truncated = s.truncated /\ r.chunk = s.chunk /\ r.received = s.received
        /\ r.cancelRequested = s.cancelRequested
    BY DEF StreamRecs, StreamStatuses, Active, WorkerSteps
  <1>3. st = s.status \/ (st = "running" /\ s.status \in Active)
    <2>1. CASE s.status = "cancelled"
      BY <2>1
    <2>2. CASE s.status # "cancelled"
      BY <2>2, <1>1
    <2> QED BY <2>1, <2>2
  <1> HIDE DEF r, st
  <1>4. BodyKept(s) => BodyKept(r)
    BY <1>2 DEF BodyKept
  <1>5. StreamSound(r)
    BY <1>1, <1>2, <1>3, <1>4 DEF StreamSound, Active
  <1>6. Follows(s, r)
    BY <1>1, <1>2, <1>3 DEF Follows, Active, Over
  <1> QED BY <1>2, <1>5, <1>6 DEF GoodStep, r, st

(* read_chunk                                                              *)
LEMMA ChunkSound ==
    ASSUME NEW s \in StreamRecs, StreamSound(s), s.worker = "reading",
           NEW n \in 1 .. ChunkMax, s.received + n <= ServerBytes
    PROVE  GoodStep(s, [s EXCEPT !.worker = "append", !.chunk = n, !.received = s.received + n])
  <1> DEFINE r == [s EXCEPT !.worker = "append", !.chunk = n, !.received = s.received + n]
  <1>1. ChunkMax \in Nat /\ ServerBytes \in Nat /\ BodyMax \in Nat
    BY StreamAssumption
  <1>2. s.received \in Nat /\ s.received + n \in 0 .. ServerBytes /\ n \in 0 .. ChunkMax
    BY <1>1 DEF StreamRecs
  <1>3. /\ r \in StreamRecs /\ r.worker = "append" /\ r.status = s.status /\ r.body = s.body
        /\ r.truncated = s.truncated /\ r.chunk = n /\ r.received = s.received + n
        /\ r.cancelRequested = s.cancelRequested
    BY <1>2 DEF StreamRecs, WorkerSteps
  <1>4. s.status \in Active \cup {"cancelled"}
    BY DEF StreamSound, StreamRecs, StreamStatuses
  <1> HIDE DEF r
  <1>5. BodyKept(s) => BodyKept(r)
    <2>1. r.received - r.chunk = s.received /\ r.chunk <= r.received
      BY <1>2, <1>3
    <2>2. BodyKept(s) => s.received <= BodyMax /\ s.body = s.received /\ ~s.truncated
      BY <1>2 DEF BodyKept
    <2> QED BY <2>1, <2>2, <1>1, <1>2, <1>3 DEF BodyKept
  <1>6. StreamSound(r)
    BY <1>3, <1>4, <1>5 DEF StreamSound, Active
  <1>7. Follows(s, r)
    BY <1>3 DEF Follows
  <1> QED BY <1>3, <1>6, <1>7 DEF GoodStep, r

(* append_body: a late chunk is dropped, another is kept as far as it fits *)
LEMMA AppendSound ==
    ASSUME NEW s \in StreamRecs, StreamSound(s), s.worker = "append"
    PROVE  GoodStep(s, AppendChunk(s))
  <1>1. /\ BodyMax \in Nat /\ s.body \in Nat /\ s.body <= BodyMax /\ s.chunk \in Nat
        /\ s.received \in Nat /\ ChunkMax \in Nat
    BY StreamAssumption DEF StreamRecs
  <1>2. s.status \in Active \cup {"cancelled"} /\ (s.cancelRequested <=> s.status = "cancelled")
    BY DEF StreamSound, StreamRecs, StreamStatuses
  <1>3. CASE s.cancelRequested \/ s.status = "cancelled"
    <2> DEFINE r == [s EXCEPT !.status = "cancelled", !.chunk = 0, !.worker = "completing"]
    <2>1. AppendChunk(s) = r
      BY <1>3 DEF AppendChunk
    <2>2. 0 \in 0 .. ChunkMax
      BY <1>1
    <2>3. /\ r \in StreamRecs /\ r.worker = "completing" /\ r.status = "cancelled" /\ r.body = s.body
          /\ r.truncated = s.truncated /\ r.cancelRequested = s.cancelRequested
      BY <2>2 DEF StreamRecs, StreamStatuses, WorkerSteps
    <2> HIDE DEF r
    <2>4. StreamSound(r)
      BY <1>2, <1>3, <2>3 DEF StreamSound, Active
    <2>5. Follows(s, r)
      BY <1>2, <1>3, <2>3 DEF Follows, Active
    <2> QED BY <2>1, <2>3, <2>4, <2>5 DEF GoodStep
  <1>4. CASE ~(s.cancelRequested \/ s.status = "cancelled")
    <2>1. PICK keep : keep = Min({BodyMax - s.body, s.chunk})
      OBVIOUS
    <2>2. keep = IF BodyMax - s.body <= s.chunk THEN BodyMax - s.body ELSE s.chunk
      BY <2>1, <1>1, MinOfTwo
    <2>3. PICK tr \in BOOLEAN : tr = (s.truncated \/ keep < s.chunk)
      OBVIOUS
    <2>4. PICK wk \in {"completing", "loop"} : wk = IF keep < s.chunk THEN "completing" ELSE "loop"
      OBVIOUS
    <2> DEFINE r == [s EXCEPT !.body = s.body + keep, !.truncated = tr, !.chunk = 0, !.worker = wk]
    <2>5. AppendChunk(s) = r
      BY <1>4, <2>1, <2>3, <2>4 DEF AppendChunk
    <2>6. s.body + keep \in 0 .. BodyMax /\ 0 \in 0 .. ChunkMax /\ keep \in Nat
      BY <1>1, <2>2
    <2>7. /\ r \in StreamRecs /\ r.worker = wk /\ r.status = s.status /\ r.body = s.body + keep
          /\ r.truncated = tr /\ r.chunk = 0 /\ r.received = s.received
          /\ r.cancelRequested = s.cancelRequested
      BY <2>6 DEF StreamRecs, WorkerSteps
    <2> HIDE DEF r
    <2>8. BodyKept(s)
      BY <1>2, <1>4 DEF StreamSound
    <2>9. BodyKept(r)
      <3>1. s.chunk <= s.received /\ s.received - s.chunk <= BodyMax /\ s.body = s.received - s.chunk
            /\ ~s.truncated
        BY <2>8 DEF BodyKept
      <3>2. CASE keep < s.chunk
        <4>1. s.received > BodyMax /\ s.body + keep = BodyMax
          BY <3>1, <3>2, <2>2, <1>1
        <4>2. tr /\ wk = "completing"
          BY <3>2, <2>3, <2>4
        <4> QED BY <4>1, <4>2, <2>7, <1>1 DEF BodyKept
      <3>3. CASE ~(keep < s.chunk)
        <4>1. s.received <= BodyMax /\ s.body + keep = s.received
          BY <3>1, <3>3, <2>2, <1>1
        <4>2. ~tr
          BY <3>1, <3>3, <2>3
        <4> QED BY <4>1, <4>2, <2>4, <2>7, <1>1 DEF BodyKept
      <3> QED BY <3>2, <3>3
    <2>10. StreamSound(r)
      BY <1>2, <1>4, <2>7, <2>9 DEF StreamSound, Active
    <2>11. Follows(s, r)
      BY <1>2, <1>4, <2>7 DEF Follows, Active, Over
    <2> QED BY <2>5, <2>7, <2>10, <2>11 DEF GoodStep
  <1> QED BY <1>3, <1>4

(* mark_completed and mark_failed                                          *)
LEMMA EndSound ==
    ASSUME NEW s \in StreamRecs, StreamSound(s), NEW st \in Over,
           s.status = "cancelled" => st = "cancelled",
           st = "cancelled" => s.status = "cancelled",
           s.worker = "completing" \/ (s.worker = "failing" /\ st # "completed")
    PROVE  GoodStep(s, [s EXCEPT !.worker = "ended", !.status = st])
  <1> DEFINE r == [s EXCEPT !.worker = "ended", !.status = st]
  <1>1. s.status \in Active \cup {"cancelled"}
    BY DEF StreamSound, StreamRecs, StreamStatuses
  <1>2. /\ r \in StreamRecs /\ r.worker = "ended" /\ r.status = st /\ r.body = s.body
        /\ r.truncated = s.truncated /\ r.chunk = s.chunk /\ r.received = s.received
        /\ r.cancelRequested = s.cancelRequested
    BY DEF StreamRecs, StreamStatuses, Over, WorkerSteps
  <1> HIDE DEF r
  <1>3. BodyKept(s) => BodyKept(r)
    BY <1>2 DEF BodyKept
  <1>4. StreamSound(r)
    BY <1>1, <1>2, <1>3 DEF StreamSound, Active, Over
  <1>5. Follows(s, r)
    BY <1>1, <1>2 DEF Follows, Active, Over
  <1> QED BY <1>2, <1>4, <1>5 DEF GoodStep, r

-----------------------------------------------------------------------------
(* The call of a client.                                                   *)
StreamCalls == [step : StreamCallSteps, id : StreamIds \cup {0}]
(* What a client reads, and how far it is.                                 *)
StreamReaders == [kind : {"none", "http", "upload"}, id : StreamIds \cup {0}, offset : Nat, done : BOOLEAN]

(* Nothing was started at first.                                           *)
LEMMA InitStreams == StreamInit => StreamInv
  <1> SUFFICES ASSUME StreamInit PROVE StreamInv
    OBVIOUS
  <1>1. MaxStreams \in Nat
    BY StreamAssumption
  <1>2. \A id \in StreamIds : stream[id] = NoStream /\ stream[id].status = "none"
    BY DEF StreamInit, NoStream
  <1>3. \A c \in StreamClients : streamCall[c].step = "idle" /\ reader[c].kind = "none"
    BY DEF StreamInit, NoStreamCall, NoReader
  <1>4. StreamTypeOK
    <2>1. NoStreamCall \in StreamCalls /\ NoReader \in StreamReaders
      BY DEF NoStreamCall, StreamCalls, StreamCallSteps, NoReader, StreamReaders
    <2>2. streamCall \in [StreamClients -> StreamCalls] /\ reader \in [StreamClients -> StreamReaders]
      BY <2>1 DEF StreamInit
    <2>3. stream \in [StreamIds -> StreamRecs]
      BY NoStreamType DEF StreamInit
    <2>4. streamNext \in 0 .. MaxStreams /\ uploadNext \in 0 .. MaxStreams
      BY <1>1 DEF StreamInit
    <2> QED BY <2>2, <2>3, <2>4 DEF StreamInit, StreamTypeOK, StreamRecs, StreamCalls, StreamReaders
  <1>5. StreamsSound
    BY <1>2, NoStreamType DEF StreamsSound
  <1>6. RegistryInv
    <2>1. \A id \in StreamIds : ~(id < 0)
      BY <1>1 DEF StreamIds
    <2> QED BY <2>1, <1>2 DEF StreamInit, RegistryInv, Active
  <1>7. StreamCallsInv /\ ReadersInv
    BY <1>3 DEF StreamCallsInv, ReadersInv
  <1>8. UploadInv
    BY <1>3 DEF StreamInit, UploadInv
  <1> QED BY <1>4, <1>5, <1>6, <1>7, <1>8 DEF StreamInv

(* The parts of the invariant, with the types as named sets.               *)
LEMMA StreamParts ==
    ASSUME StreamInv
    PROVE  /\ StreamTypeOK /\ StreamsSound /\ RegistryInv /\ StreamCallsInv /\ ReadersInv /\ UploadInv
           /\ stream \in [StreamIds -> StreamRecs] /\ streamCall \in [StreamClients -> StreamCalls]
           /\ reader \in [StreamClients -> StreamReaders]
  BY DEF StreamInv, StreamTypeOK, StreamRecs, StreamCalls, StreamReaders

(* A stream takes a good step; a call may return meanwhile.                *)
LEMMA StreamSteps ==
    ASSUME StreamInv, NEW id \in StreamIds, NEW r, GoodStep(stream[id], r),
           stream' = [stream EXCEPT ![id] = r],
           UNCHANGED <<streamKind, streamNext, streams, uploadVars, reader>>,
           \/ streamCall' = streamCall
           \/ \E c \in StreamClients : streamCall' = [streamCall EXCEPT ![c] = NoStreamCall]
    PROVE  StreamInv'
  <1>a. /\ StreamTypeOK /\ StreamsSound /\ RegistryInv /\ StreamCallsInv /\ ReadersInv /\ UploadInv
        /\ stream \in [StreamIds -> StreamRecs] /\ streamCall \in [StreamClients -> StreamCalls]
    BY StreamParts
  <1>b. /\ r \in StreamRecs /\ StreamSound(r) /\ Follows(stream[id], r)
    BY DEF GoodStep
  <1>c. stream'[id] = r /\ \A j \in StreamIds : j # id => stream'[j] = stream[j]
    BY <1>a
  <1>d. \A j \in StreamIds : Follows(stream[j], stream'[j])
    <2>1. \A j \in StreamIds : Follows(stream[j], stream[j])
      BY DEF Follows
    <2> QED BY <2>1, <1>b, <1>c
  <1>e. NoStreamCall \in StreamCalls /\ NoStreamCall.step = "idle"
    BY DEF NoStreamCall, StreamCalls, StreamCallSteps
  <1>f. /\ streamCall' \in [StreamClients -> StreamCalls]
        /\ \A c \in StreamClients : streamCall'[c] = streamCall[c] \/ streamCall'[c].step = "idle"
    BY <1>a, <1>e
  <1>1. StreamTypeOK'
    <2>1. stream' \in [StreamIds -> StreamRecs]
      BY <1>a, <1>b
    <2> QED BY <2>1, <1>a, <1>f DEF StreamTypeOK, StreamRecs, StreamCalls, uploadVars
  <1>2. StreamsSound'
    BY <1>a, <1>b, <1>c DEF StreamsSound
  <1>3. RegistryInv'
    BY <1>a, <1>d DEF RegistryInv, Follows
  <1>4. StreamCallsInv'
    BY <1>a, <1>d, <1>f DEF StreamCallsInv, Follows
  <1>5. ReadersInv'
    BY <1>a, <1>d DEF ReadersInv, Follows
  <1>6. UploadInv'
    BY <1>a, <1>f DEF UploadInv, uploadVars
  <1> QED BY <1>1, <1>2, <1>3, <1>4, <1>5, <1>6 DEF StreamInv

(* What a step does to the streams.                                        *)
LEMMA WorkerGoodStep ==
    ASSUME StreamInv, NEW id \in StreamIds, StreamWorker(id)
    PROVE  \E r : /\ GoodStep(stream[id], r) /\ stream' = [stream EXCEPT ![id] = r]
                  /\ UNCHANGED <<streamKind, streamNext, streams, uploadVars, streamCall, reader>>
  <1>a. stream[id] \in StreamRecs /\ StreamSound(stream[id])
    BY StreamParts DEF StreamsSound
  <1>b. PICK s \in StreamRecs : s = stream[id] /\ StreamSound(s)
    BY <1>a
  <1>c. stream[id].cancelRequested => stream[id].status \notin Active
    BY <1>a DEF StreamSound
  <1>d. s.worker \notin {"none", "ended"} => s.status \in Active \cup {"cancelled"}
    BY <1>b DEF StreamSound, StreamRecs, StreamStatuses
  <1>1. CASE WorkerStarts(id) \/ WorkerLoops(id)
    <2>1. PICK step \in {"ended", "sending", "reading"} :
            /\ step = "ended" => s.cancelRequested
            /\ stream' = [stream EXCEPT ![id] = [s EXCEPT !.worker = step]]
            /\ s.worker \in {"started", "loop"}
      BY <1>1, <1>b DEF WorkerStarts, WorkerLoops, WorkerAt, WorkerGoesTo
    <2>2. step = "ended" => s.status = "cancelled"
      BY <2>1, <1>b, <1>c, <1>d
    <2>3. GoodStep(s, [s EXCEPT !.worker = step])
      BY <2>1, <2>2, <1>b, MoveSound DEF WorkerSteps
    <2> QED BY <2>1, <2>3, <1>1, <1>b DEF WorkerStarts, WorkerLoops
  <1>2. CASE SendFails(id) \/ ReadChunkFails(id) \/ EndOfBody(id)
    <2>1. PICK step \in {"failing", "completing"} :
            stream' = [stream EXCEPT ![id] = [s EXCEPT !.worker = step]] /\ s.worker \in {"sending", "reading"}
      BY <1>2, <1>b DEF SendFails, ReadChunkFails, EndOfBody, WorkerAt, WorkerGoesTo
    <2>2. GoodStep(s, [s EXCEPT !.worker = step])
      BY <2>1, <1>b, MoveSound DEF WorkerSteps
    <2> QED BY <2>1, <2>2, <1>2, <1>b DEF SendFails, ReadChunkFails, EndOfBody
  <1>3. CASE MarkRunning(id)
    <2> DEFINE r == [s EXCEPT !.status = IF s.status = "cancelled" THEN s.status ELSE "running",
                              !.worker = "loop"]
    <2>1. stream' = [stream EXCEPT ![id] = r] /\ s.worker = "sending"
      BY <1>3, <1>b DEF MarkRunning, WorkerAt
    <2>2. GoodStep(s, r)
      BY <2>1, <1>b, RunningSound
    <2> QED BY <2>1, <2>2, <1>3, <1>b DEF MarkRunning
  <1>4. CASE ReadChunk(id)
    <2>1. PICK n \in 1 .. ChunkMax :
            /\ s.received + n <= ServerBytes /\ s.worker = "reading"
            /\ stream' = [stream EXCEPT ![id] = [s EXCEPT !.worker = "append", !.chunk = n,
                                                          !.received = s.received + n]]
      BY <1>4, <1>b DEF ReadChunk, WorkerAt
    <2>2. GoodStep(s, [s EXCEPT !.worker = "append", !.chunk = n, !.received = s.received + n])
      BY <2>1, <1>b, ChunkSound
    <2> QED BY <2>1, <2>2, <1>4, <1>b DEF ReadChunk
  <1>5. CASE AppendBody(id)
    <2>1. stream' = [stream EXCEPT ![id] = AppendChunk(s)] /\ s.worker = "append"
      BY <1>5, <1>b DEF AppendBody, WorkerAt
    <2>2. GoodStep(s, AppendChunk(s))
      BY <2>1, <1>b, AppendSound
    <2> QED BY <2>1, <2>2, <1>5, <1>b DEF AppendBody
  <1>6. CASE MarkCompleted(id)
    <2>1. PICK st : st = IF s.cancelRequested \/ s.status = "cancelled" THEN "cancelled"
                         ELSE IF s.status = "failed" THEN s.status ELSE "completed"
      OBVIOUS
    <2>2. stream' = [stream EXCEPT ![id] = [s EXCEPT !.worker = "ended", !.status = st]] /\ s.worker = "completing"
      BY <2>1, <1>6, <1>b DEF MarkCompleted, WorkerAt
    <2>3. s.status \in Active \cup {"cancelled"} /\ (s.cancelRequested => s.status = "cancelled")
      BY <2>2, <1>b, <1>c, <1>d
    <2>4. st \in Over /\ (s.status = "cancelled" <=> st = "cancelled")
      BY <2>1, <2>3 DEF Over
    <2>5. GoodStep(s, [s EXCEPT !.worker = "ended", !.status = st])
      BY <2>2, <2>4, <1>b, EndSound
    <2> QED BY <2>2, <2>5, <1>6, <1>b DEF MarkCompleted
  <1>7. CASE MarkFailed(id)
    <2>1. PICK st : st = IF s.status = "cancelled" THEN s.status ELSE "failed"
      OBVIOUS
    <2>2. stream' = [stream EXCEPT ![id] = [s EXCEPT !.worker = "ended", !.status = st]] /\ s.worker = "failing"
      BY <2>1, <1>7, <1>b DEF MarkFailed, WorkerAt
    <2>3. st \in Over /\ (s.status = "cancelled" <=> st = "cancelled") /\ st # "completed"
      BY <2>1 DEF Over
    <2>4. GoodStep(s, [s EXCEPT !.worker = "ended", !.status = st])
      BY <2>2, <2>3, <1>b, EndSound
    <2> QED BY <2>2, <2>4, <1>7, <1>b DEF MarkFailed
  <1> QED BY <1>1, <1>2, <1>3, <1>4, <1>5, <1>6, <1>7 DEF StreamWorker

(* cancel sets the flag of a stream that was started.                      *)
LEMMA CancelGoodStep ==
    ASSUME StreamInv, NEW c \in StreamClients, CancelStream(c)
    PROVE  \E id \in StreamIds : \E r :
              /\ GoodStep(stream[id], r) /\ stream' = [stream EXCEPT ![id] = r]
              /\ UNCHANGED <<streamKind, streamNext, streams, uploadVars, reader>>
              /\ streamCall' = [streamCall EXCEPT ![c] = NoStreamCall]
  <1>1. streamCall[c].id \in StreamIds /\ stream[streamCall[c].id].status # "none"
    BY StreamParts DEF CancelStream, AtStreamStep, StreamCallsInv
  <1>2. PICK id \in StreamIds : id = streamCall[c].id
    BY <1>1
  <1>3. stream[id] \in StreamRecs /\ StreamSound(stream[id])
    BY StreamParts DEF StreamsSound
  <1>4. PICK s \in StreamRecs : s = stream[id] /\ StreamSound(s) /\ s.status # "none"
    BY <1>1, <1>2, <1>3
  <1> DEFINE r == [s EXCEPT !.cancelRequested = TRUE,
                            !.status = IF s.status \in Active THEN "cancelled" ELSE s.status]
  <1>5. GoodStep(s, r)
    BY <1>4, CancelSound
  <1>6. stream' = [stream EXCEPT ![id] = r]
    BY <1>2, <1>4 DEF CancelStream
  <1> QED BY <1>4, <1>5, <1>6 DEF CancelStream, StreamReturns

-----------------------------------------------------------------------------
(* A call moves on, a registry loses what is over or nobody reads, and no  *)
(* stream changes.                                                         *)
LEMMA ClientKeeps ==
    ASSUME StreamInv, NEW c \in StreamClients, NEW k \in StreamCalls,
           streamCall' = [streamCall EXCEPT ![c] = k],
           UNCHANGED <<streamKind, streamNext, stream>>,
           reader' \in [StreamClients -> StreamReaders], ReadersInv',
           streams' \subseteq streams,
           \A id \in streams : stream[id].status \in Active => id \in streams',
           k.step \in {"cancel", "release", "read", "remove"} =>
               k.id \in StreamIds /\ stream[k.id].status # "none",
           k.step = "remove" => stream[k.id].status \in Over,
           uploadNext' \in 0 .. MaxStreams, uploads' \subseteq uploadFile', uploadFile' \subseteq StreamIds,
           k.step \in {"read_upload", "eof_upload"} => k.id \in uploadFile',
           \A d \in StreamClients : d # c /\ HoldsUpload(d, streamCall[d].id) => streamCall[d].id \in uploadFile'
    PROVE  StreamInv'
  <1>a. /\ StreamTypeOK /\ StreamsSound /\ RegistryInv /\ StreamCallsInv /\ UploadInv
        /\ stream \in [StreamIds -> StreamRecs] /\ streamCall \in [StreamClients -> StreamCalls]
    BY StreamParts
  <1>b. streamCall'[c] = k /\ \A d \in StreamClients : d # c => streamCall'[d] = streamCall[d]
    BY <1>a
  <1>1. StreamTypeOK'
    <2>1. streamCall' \in [StreamClients -> StreamCalls]
      BY <1>a
    <2> QED BY <2>1, <1>a DEF StreamTypeOK, StreamCalls, StreamReaders
  <1>2. StreamsSound'
    BY <1>a DEF StreamsSound
  <1>3. RegistryInv'
    BY <1>a DEF RegistryInv
  <1>4. StreamCallsInv'
    BY <1>a, <1>b DEF StreamCallsInv
  <1>5. UploadInv'
    BY <1>a, <1>b DEF UploadInv, HoldsUpload
  <1> QED BY <1>1, <1>2, <1>3, <1>4, <1>5 DEF StreamInv

(* start                                                                   *)
LEMMA StartStreamKeeps ==
    ASSUME StreamInv, NEW c \in StreamClients, StartStream(c)
    PROVE  StreamInv'
  <1>a. /\ StreamTypeOK /\ StreamsSound /\ RegistryInv /\ StreamCallsInv /\ ReadersInv /\ UploadInv
        /\ stream \in [StreamIds -> StreamRecs]
    BY StreamParts
  <1>b. PICK id \in StreamIds : id = streamNext
    BY DEF StartStream
  <1>c. MaxStreams \in Nat /\ id \in Nat /\ streamNext + 1 \in 0 .. MaxStreams
    BY <1>b, StreamAssumption DEF StreamIds
  <1>d. stream[id].status = "none"
    BY <1>a, <1>b, <1>c DEF RegistryInv
  <1>e. stream[id] = NoStream
    BY <1>a, <1>d DEF StreamsSound, StreamSound
  <1> DEFINE r == [NoStream EXCEPT !.status = "connecting", !.worker = "started"]
  <1>f. /\ streamNext' = streamNext + 1 /\ streams' = streams \cup {id}
        /\ UNCHANGED <<streamKind, uploadNext, uploads, uploadFile, streamCall, reader>>
        /\ stream' = [stream EXCEPT ![id] = r]
    BY <1>b, <1>e DEF StartStream, uploadVars
  <1>g. /\ r \in StreamRecs /\ r.status = "connecting" /\ r.worker = "started" /\ ~r.cancelRequested
        /\ r.chunk = 0 /\ r.received = 0 /\ r.body = 0 /\ ~r.truncated
    <2>1. NoStream \in StreamRecs
      BY NoStreamType
    <2>2. r \in StreamRecs /\ r.status = "connecting" /\ r.worker = "started"
      BY <2>1 DEF StreamRecs, StreamStatuses, Active, WorkerSteps
    <2>3. ~r.cancelRequested /\ r.chunk = 0 /\ r.received = 0 /\ r.body = 0 /\ ~r.truncated
      BY DEF NoStream
    <2> QED BY <2>2, <2>3
  <1> HIDE DEF r
  <1>h. stream'[id] = r /\ \A j \in StreamIds : j # id => stream'[j] = stream[j]
    BY <1>a, <1>f
  <1>1. StreamTypeOK'
    <2>1. stream' \in [StreamIds -> StreamRecs]
      BY <1>a, <1>f, <1>g
    <2> QED BY <2>1, <1>a, <1>c, <1>f DEF StreamTypeOK, StreamRecs
  <1>2. StreamsSound'
    <2>1. BodyKept(r)
      BY <1>g, StreamAssumption DEF BodyKept
    <2>2. StreamSound(r)
      BY <2>1, <1>g DEF StreamSound, Active
    <2> QED BY <2>2, <1>a, <1>h DEF StreamsSound
  <1>3. RegistryInv'
    <2>1. \A j \in streams' : j < streamNext'
      <3>1. streams \subseteq StreamIds
        BY <1>a DEF StreamTypeOK
      <3>2. \A j \in StreamIds : j < streamNext => j < streamNext + 1
        BY <1>b, <1>c DEF StreamIds
      <3>3. id < streamNext + 1
        BY <1>b, <1>c
      <3> QED BY <3>1, <3>2, <3>3, <1>a, <1>f DEF RegistryInv
    <2>2. ASSUME NEW j \in StreamIds
          PROVE  /\ stream'[j].status # "none" <=> j < streamNext'
                 /\ stream'[j].status \in Active => j \in streams'
      <3>1. CASE j = id
        BY <3>1, <1>b, <1>c, <1>f, <1>g, <1>h
      <3>2. CASE j # id
        <4>1. j < streamNext <=> j < streamNext + 1
          BY <3>2, <1>b, <1>c DEF StreamIds
        <4> QED BY <3>2, <4>1, <1>a, <1>f, <1>h DEF RegistryInv
      <3> QED BY <3>1, <3>2
    <2> QED BY <2>1, <2>2 DEF RegistryInv
  <1>4. StreamCallsInv'
    <2>1. "none" \notin Over
      BY DEF Over
    <2> QED BY <2>1, <1>a, <1>d, <1>f, <1>h DEF StreamCallsInv
  <1>5. ReadersInv'
    <2>1. "none" \notin Over
      BY DEF Over
    <2> QED BY <2>1, <1>a, <1>d, <1>f, <1>h DEF ReadersInv
  <1>6. UploadInv'
    BY <1>a, <1>f DEF UploadInv
  <1> QED BY <1>1, <1>2, <1>3, <1>4, <1>5, <1>6 DEF StreamInv

(* stream_arc, release and its removal                                     *)
LEMMA HttpCallKeeps ==
    ASSUME StreamInv, NEW c \in StreamClients,
           \/ \E id \in StreamIds, op \in {"cancel", "release", "read"} : StreamArc(c, op, id)
           \/ CheckStreamOver(c) \/ RemoveStream(c)
    PROVE  StreamInv'
  <1>a. /\ StreamTypeOK /\ RegistryInv /\ StreamCallsInv /\ ReadersInv /\ UploadInv
        /\ stream \in [StreamIds -> StreamRecs] /\ streamCall \in [StreamClients -> StreamCalls]
        /\ reader \in [StreamClients -> StreamReaders]
    BY StreamParts
  <1>b. /\ uploadNext \in 0 .. MaxStreams /\ uploads \subseteq uploadFile /\ uploadFile \subseteq StreamIds
        /\ \A d \in StreamClients : HoldsUpload(d, streamCall[d].id) => streamCall[d].id \in uploadFile
    BY <1>a DEF StreamTypeOK, UploadInv, HoldsUpload
  <1>c. NoStreamCall \in StreamCalls /\ NoStreamCall.step = "idle"
    BY DEF NoStreamCall, StreamCalls, StreamCallSteps
  <1>d. UNCHANGED <<stream, reader>> => ReadersInv'
    BY <1>a DEF ReadersInv
  <1>1. CASE \E id \in StreamIds, op \in {"cancel", "release", "read"} : StreamArc(c, op, id)
    <2>1. PICK id \in StreamIds, op \in {"cancel", "release", "read"} : StreamArc(c, op, id)
      BY <1>1
    <2> DEFINE k == [step |-> op, id |-> id]
    <2>2. k \in StreamCalls /\ k.step = op /\ k.id = id
      BY DEF StreamCalls, StreamCallSteps
    <2> HIDE DEF k
    <2>3. /\ streamCall' = [streamCall EXCEPT ![c] = k] /\ id \in streams
          /\ UNCHANGED <<streamKind, streamNext, streams, stream, uploadNext, uploads, uploadFile, reader>>
      BY <2>1 DEF StreamArc, k, uploadVars
    <2>4. stream[id].status # "none"
      BY <2>3, <1>a DEF RegistryInv
    <2> QED BY <2>2, <2>3, <2>4, <1>a, <1>b, <1>d, ClientKeeps
  <1>2. CASE CheckStreamOver(c)
    <2>1. streamCall[c].id \in StreamIds /\ stream[streamCall[c].id].status # "none"
      BY <1>2, <1>a DEF CheckStreamOver, AtStreamStep, StreamCallsInv
    <2>2. UNCHANGED <<streamKind, streamNext, streams, stream, uploadNext, uploads, uploadFile, reader>>
      BY <1>2 DEF CheckStreamOver, uploadVars
    <2>3. CASE stream[streamCall[c].id].status \in Active
      <3>1. streamCall' = [streamCall EXCEPT ![c] = NoStreamCall]
        BY <2>3, <1>2 DEF CheckStreamOver, StreamReturns
      <3> QED BY <3>1, <2>2, <1>a, <1>b, <1>c, <1>d, ClientKeeps
    <2>4. CASE stream[streamCall[c].id].status \notin Active
      <3> DEFINE k == [streamCall[c] EXCEPT !.step = "remove"]
      <3>1. k \in StreamCalls /\ k.step = "remove" /\ k.id = streamCall[c].id
        BY <1>a DEF StreamCalls, StreamCallSteps
      <3> HIDE DEF k
      <3>2. streamCall' = [streamCall EXCEPT ![c] = k]
        BY <2>4, <1>2 DEF CheckStreamOver, k
      <3>3. stream[streamCall[c].id].status \in Over
        BY <2>1, <2>4, <1>a DEF StreamRecs, StreamStatuses, Over
      <3> QED BY <3>1, <3>2, <3>3, <2>1, <2>2, <1>a, <1>b, <1>d, ClientKeeps
    <2> QED BY <2>3, <2>4
  <1>3. CASE RemoveStream(c)
    <2>1. /\ streams' = streams \ {streamCall[c].id} /\ streamCall' = [streamCall EXCEPT ![c] = NoStreamCall]
          /\ UNCHANGED <<streamKind, streamNext, stream, uploadNext, uploads, uploadFile, reader>>
      BY <1>3 DEF RemoveStream, StreamReturns, uploadVars
    <2>2. stream[streamCall[c].id].status \in Over
      BY <1>3, <1>a DEF RemoveStream, AtStreamStep, StreamCallsInv
    <2>3. stream[streamCall[c].id].status \notin Active
      BY <2>2 DEF Over, Active
    <2> QED BY <2>1, <2>3, <1>a, <1>b, <1>c, <1>d, ClientKeeps
  <1> QED BY <1>1, <1>2, <1>3

(* HttpStreamJob::read answers done only for a stream that is over.        *)
LEMMA ReadStreamKeeps ==
    ASSUME StreamInv, NEW c \in StreamClients, ReadStream(c)
    PROVE  StreamInv'
  <1>a. /\ StreamTypeOK /\ RegistryInv /\ StreamCallsInv /\ ReadersInv /\ UploadInv
        /\ stream \in [StreamIds -> StreamRecs] /\ streamCall \in [StreamClients -> StreamCalls]
        /\ reader \in [StreamClients -> StreamReaders]
    BY StreamParts
  <1>b. /\ uploadNext \in 0 .. MaxStreams /\ uploads \subseteq uploadFile /\ uploadFile \subseteq StreamIds
        /\ \A d \in StreamClients : HoldsUpload(d, streamCall[d].id) => streamCall[d].id \in uploadFile
    BY <1>a DEF StreamTypeOK, UploadInv, HoldsUpload
  <1>c. streamCall[c].id \in StreamIds /\ stream[streamCall[c].id].status # "none"
    BY <1>a DEF ReadStream, AtStreamStep, StreamCallsInv
  <1>d. PICK id \in StreamIds : id = streamCall[c].id
    BY <1>c
  <1>e. PICK b \in Nat : b = stream[id].body
    BY <1>a, StreamAssumption DEF StreamRecs
  <1>f. PICK o \in Nat : o = IF reader[c].kind = "http" /\ reader[c].id = id THEN reader[c].offset ELSE 0
    BY <1>a DEF StreamReaders
  <1>g. PICK from \in Nat : from = Min({o, b}) /\ from <= b
    BY MinOfTwo
  <1>h. PICK max \in ReadSizes : reader' = [reader EXCEPT ![c] =
          [kind |-> "http", id |-> id, offset |-> from + Min({b - from, max}),
           done |-> StreamDone(stream[id], from + Min({b - from, max}))]]
    BY <1>d, <1>e, <1>f, <1>g DEF ReadStream
  <1>i. PICK next \in Nat : next = from + Min({b - from, max}) /\ next <= b
    <2>1. max \in Nat
      BY StreamAssumption
    <2>2. Min({b - from, max}) = IF b - from <= max THEN b - from ELSE max
      BY <2>1, MinOfTwo
    <2>3. from + Min({b - from, max}) \in Nat /\ from + Min({b - from, max}) <= b
      BY <2>1, <2>2, <1>g
    <2> QED BY <2>3
  <1>j. PICK done \in BOOLEAN : done = StreamDone(stream[id], next)
    BY DEF StreamDone
  <1> DEFINE p == [kind |-> "http", id |-> id, offset |-> next, done |-> done]
  <1>k. p \in StreamReaders /\ p.kind = "http" /\ p.id = id /\ p.offset = next /\ p.done = done
    BY DEF StreamReaders
  <1>l. reader' = [reader EXCEPT ![c] = p]
    BY <1>h, <1>i, <1>j
  <1> HIDE DEF p
  <1>m. reader' \in [StreamClients -> StreamReaders] /\ reader'[c] = p
        /\ \A d \in StreamClients : d # c => reader'[d] = reader[d]
    BY <1>a, <1>k, <1>l
  <1>n. /\ streamCall' = [streamCall EXCEPT ![c] = NoStreamCall]
        /\ UNCHANGED <<streamKind, streamNext, streams, stream, uploadNext, uploads, uploadFile>>
    BY DEF ReadStream, StreamReturns, uploadVars
  <1>1. done => stream[id].status \in Over /\ next = b
    <2>1. done => stream[id].status \notin Active /\ next >= b
      BY <1>e, <1>j DEF StreamDone
    <2>2. stream[id].status \in StreamStatuses /\ stream[id].status # "none"
      BY <1>a, <1>c, <1>d DEF StreamRecs
    <2> QED BY <2>1, <2>2, <1>i DEF StreamStatuses, Over
  <1>2. ReadersInv'
    BY <1>1, <1>a, <1>e, <1>k, <1>m, <1>n DEF ReadersInv
  <1>3. NoStreamCall \in StreamCalls /\ NoStreamCall.step = "idle"
    BY DEF NoStreamCall, StreamCalls, StreamCallSteps
  <1> QED BY <1>2, <1>3, <1>b, <1>m, <1>n, ClientKeeps

(* The words of uploads keep the files that are retained or read.          *)
LEMMA UploadKeeps ==
    ASSUME StreamInv, NEW c \in StreamClients,
           \/ RetainTempFile(c) \/ ReadUpload(c) \/ ReadUploadReturns(c)
           \/ \E id \in StreamIds : UploadArc(c, id) \/ ReleaseUpload(c, id)
    PROVE  StreamInv'
  <1>a. /\ StreamTypeOK /\ RegistryInv /\ StreamCallsInv /\ ReadersInv /\ UploadInv
        /\ stream \in [StreamIds -> StreamRecs] /\ streamCall \in [StreamClients -> StreamCalls]
        /\ reader \in [StreamClients -> StreamReaders]
    BY StreamParts
  <1>b. /\ uploadNext \in 0 .. MaxStreams /\ uploads \subseteq uploadFile /\ uploadFile \subseteq StreamIds
        /\ \A d \in StreamClients : HoldsUpload(d, streamCall[d].id) => streamCall[d].id \in uploadFile
    BY <1>a DEF StreamTypeOK, UploadInv, HoldsUpload
  <1>c. NoStreamCall \in StreamCalls /\ NoStreamCall.step = "idle"
    BY DEF NoStreamCall, StreamCalls, StreamCallSteps
  <1>d. UNCHANGED <<stream, reader>> => ReadersInv'
    BY <1>a DEF ReadersInv
  <1>1. CASE RetainTempFile(c)
    <2>1. /\ streamCall[c].step = "idle" /\ uploadNext \in StreamIds /\ uploadNext' = uploadNext + 1
          /\ uploads' = uploads \cup {uploadNext} /\ uploadFile' = uploadFile \cup {uploadNext}
          /\ UNCHANGED <<streamKind, streamNext, streams, stream, streamCall, reader>>
      BY <1>1 DEF RetainTempFile, AtStreamStep
    <2>2. uploadNext' \in 0 .. MaxStreams
      BY <2>1, StreamAssumption DEF StreamIds
    <2>3. streamCall' = [streamCall EXCEPT ![c] = streamCall[c]] /\ streamCall[c] \in StreamCalls
      BY <2>1, <1>a
    <2> QED BY <2>1, <2>2, <2>3, <1>a, <1>b, <1>d, ClientKeeps
  <1>2. CASE ReadUpload(c)
    <2>1. PICK id : id = streamCall[c].id
      OBVIOUS
    <2>2. PICK from \in Nat : from = IF reader[c].kind = "upload" /\ reader[c].id = id THEN reader[c].offset ELSE 0
      BY <1>a DEF StreamReaders
    <2>3. PICK n \in 0 .. UploadSize - from : reader' = [reader EXCEPT ![c] =
            [kind |-> "upload", id |-> id, offset |-> from + n, done |-> from + n >= UploadSize]]
      BY <1>2, <2>1, <2>2 DEF ReadUpload
    <2>4. PICK done \in BOOLEAN : done = (from + n >= UploadSize)
      <3>1. UploadSize \in Nat
        BY StreamAssumption
      <3>2. (from + n >= UploadSize) \in BOOLEAN
        BY <3>1
      <3> QED BY <3>2
    <2>5. id \in uploadFile /\ id \in StreamIds /\ from + n \in Nat
      BY <1>2, <1>b, <2>1, <2>2 DEF ReadUpload
    <2> DEFINE p == [kind |-> "upload", id |-> id, offset |-> from + n, done |-> done]
               k == [streamCall[c] EXCEPT !.step = "eof_upload"]
    <2>6. p \in StreamReaders /\ p.kind = "upload"
      BY <2>5 DEF StreamReaders
    <2>7. k \in StreamCalls /\ k.step = "eof_upload" /\ k.id = id
      BY <2>1, <1>a DEF StreamCalls, StreamCallSteps
    <2>8. /\ reader' = [reader EXCEPT ![c] = p] /\ streamCall' = [streamCall EXCEPT ![c] = k]
          /\ UNCHANGED <<streamKind, streamNext, streams, stream, uploadNext, uploads, uploadFile>>
      BY <1>2, <2>3, <2>4 DEF ReadUpload, uploadVars
    <2> HIDE DEF p, k
    <2>9. reader' \in [StreamClients -> StreamReaders] /\ reader'[c] = p
          /\ \A d \in StreamClients : d # c => reader'[d] = reader[d]
      BY <1>a, <2>6, <2>8
    <2>10. ReadersInv'
      BY <2>6, <2>8, <2>9, <1>a DEF ReadersInv
    <2> QED BY <2>5, <2>7, <2>8, <2>9, <2>10, <1>b, ClientKeeps
  <1>3. CASE ReadUploadReturns(c)
    <2>1. PICK id : id = streamCall[c].id
      OBVIOUS
    <2>2. /\ streamCall' = [streamCall EXCEPT ![c] = NoStreamCall]
          /\ UNCHANGED <<streamKind, streamNext, streams, stream, uploadNext, uploads, reader>>
          /\ uploadFile' = IF id \notin uploads /\ {d \in StreamClients \ {c} : HoldsUpload(d, id)} = {}
                           THEN uploadFile \ {id} ELSE uploadFile
      BY <1>3, <2>1 DEF ReadUploadReturns, DropUpload, LastHandle, StreamReturns
    <2>3. uploads \subseteq uploadFile' /\ uploadFile' \subseteq StreamIds
      BY <2>2, <1>b
    <2>4. \A d \in StreamClients : d # c /\ HoldsUpload(d, streamCall[d].id) => streamCall[d].id \in uploadFile'
      BY <2>2, <1>b
    <2> QED BY <2>2, <2>3, <2>4, <1>a, <1>b, <1>c, <1>d, ClientKeeps
  <1>4. CASE \E id \in StreamIds : UploadArc(c, id)
    <2>1. PICK id \in StreamIds : UploadArc(c, id)
      BY <1>4
    <2> DEFINE k == [step |-> "read_upload", id |-> id]
    <2>2. k \in StreamCalls /\ k.step = "read_upload" /\ k.id = id
      BY DEF StreamCalls, StreamCallSteps
    <2> HIDE DEF k
    <2>3. /\ streamCall' = [streamCall EXCEPT ![c] = k] /\ id \in uploads
          /\ UNCHANGED <<streamKind, streamNext, streams, stream, uploadNext, uploads, uploadFile, reader>>
      BY <2>1 DEF UploadArc, k, uploadVars
    <2> QED BY <2>2, <2>3, <1>a, <1>b, <1>d, ClientKeeps
  <1>5. CASE \E id \in StreamIds : ReleaseUpload(c, id)
    <2>1. PICK id \in StreamIds : ReleaseUpload(c, id)
      BY <1>5
    <2>2. /\ streamCall[c].step = "idle" /\ uploads' = uploads \ {id}
          /\ uploadFile' = IF {d \in StreamClients : HoldsUpload(d, id)} = {}
                           THEN uploadFile \ {id} ELSE uploadFile
          /\ UNCHANGED <<streamKind, streamNext, streams, stream, uploadNext, streamCall, reader>>
      BY <2>1 DEF ReleaseUpload, DropUpload, LastHandle, AtStreamStep
    <2>3. streamCall' = [streamCall EXCEPT ![c] = streamCall[c]] /\ streamCall[c] \in StreamCalls
      BY <2>2, <1>a
    <2>4. uploads' \subseteq uploadFile' /\ uploadFile' \subseteq StreamIds
      BY <2>2, <1>b
    <2>5. \A d \in StreamClients : HoldsUpload(d, streamCall[d].id) => streamCall[d].id \in uploadFile'
      BY <2>2, <1>b
    <2> QED BY <2>2, <2>3, <2>4, <2>5, <1>a, <1>b, <1>d, ClientKeeps
  <1> QED BY <1>1, <1>2, <1>3, <1>4, <1>5

(* Every step of the streams keeps the invariant.                          *)
LEMMA StreamStep == StreamInv /\ [StreamNext]_streamVars => StreamInv'
  <1> SUFFICES ASSUME StreamInv, [StreamNext]_streamVars PROVE StreamInv'
    OBVIOUS
  <1>1. CASE \E c \in StreamClients : StreamClient(c)
    <2>1. PICK c \in StreamClients : StreamClient(c)
      BY <1>1
    <2>2. CASE CancelStream(c)
      BY <2>2, CancelGoodStep, StreamSteps
    <2> QED BY <2>1, <2>2, StartStreamKeeps, HttpCallKeeps, ReadStreamKeeps, UploadKeeps DEF StreamClient
  <1>2. CASE \E id \in StreamIds : StreamWorker(id)
    BY <1>2, WorkerGoodStep, StreamSteps
  <1>3. CASE UNCHANGED streamVars
    BY <1>3 DEF StreamInv, StreamTypeOK, StreamsSound, RegistryInv, StreamCallsInv, ReadersInv, UploadInv, streamVars
  <1> QED BY <1>1, <1>2, <1>3 DEF StreamNext

(* The invariant holds in every state of the specification.                *)
LEMMA StreamInvariant == StreamSpec => []StreamInv
  BY InitStreams, StreamStep, PTL DEF StreamSpec

(* For any number of readers, streams and bytes: a reader that was told    *)
(* done has the whole body that the server sent up to the limit, and a     *)
(* reader of an upload finds its file.                                     *)
THEOREM ReadersAreComplete == StreamSpec => []ReadersComplete
  <1>1. StreamInv => ReadersComplete
    <2> SUFFICES ASSUME StreamInv, NEW c \in StreamClients
                 PROVE  LET s == stream[reader[c].id]
                        IN /\ reader[c].kind = "http" /\ reader[c].done =>
                                 /\ reader[c].offset = s.body
                                 /\ s.status = "completed" =>
                                       /\ s.body = Min({s.received, BodyMax})
                                       /\ s.truncated = (s.received > BodyMax)
                           /\ AtStreamStep(c, "read_upload") => streamCall[c].id \in uploadFile
      BY DEF ReadersComplete
    <2>1. AtStreamStep(c, "read_upload") => streamCall[c].id \in uploadFile
      BY StreamParts DEF UploadInv, AtStreamStep
    <2>2. ASSUME reader[c].kind = "http", reader[c].done
          PROVE  /\ reader[c].offset = stream[reader[c].id].body
                 /\ stream[reader[c].id].status = "completed" =>
                       /\ stream[reader[c].id].body = Min({stream[reader[c].id].received, BodyMax})
                       /\ stream[reader[c].id].truncated = (stream[reader[c].id].received > BodyMax)
      <3>1. reader[c].id \in StreamIds /\ reader[c].offset = stream[reader[c].id].body
        BY <2>2, StreamParts DEF ReadersInv
      <3>2. PICK s \in StreamRecs : s = stream[reader[c].id] /\ StreamSound(s)
        BY <3>1, StreamParts DEF StreamsSound
      <3>3. s.received \in Nat /\ BodyMax \in Nat /\ s.body \in Nat /\ s.truncated \in BOOLEAN
        BY StreamAssumption DEF StreamRecs
      <3>4. ASSUME s.status = "completed"
            PROVE  s.body = Min({s.received, BodyMax}) /\ s.truncated = (s.received > BodyMax)
        <4>1. BodyKept(s) /\ s.worker = "ended"
          BY <3>2, <3>4 DEF StreamSound
        <4>2. /\ s.received <= BodyMax => s.body = s.received /\ ~s.truncated
              /\ s.received > BodyMax => s.body = BodyMax /\ s.truncated
          BY <4>1, <3>3 DEF BodyKept
        <4>3. Min({s.received, BodyMax}) = IF s.received <= BodyMax THEN s.received ELSE BodyMax
          BY <3>3, MinOfTwo
        <4>4. s.body = Min({s.received, BodyMax})
          BY <4>2, <4>3, <3>3
        <4>5. s.truncated <=> s.received > BodyMax
          BY <4>2, <3>3
        <4> QED BY <4>4, <4>5, <3>3
      <3> QED BY <3>1, <3>2, <3>4
    <2> QED BY <2>1, <2>2
  <1> QED BY <1>1, StreamInvariant, PTL

(* Once a stream is over nothing changes what it holds, and a worker that  *)
(* outlives its stream in the registry was cancelled.                      *)
THEOREM StreamsAreFrozen == StreamSpec => StreamFrozen
  <1>1. ASSUME StreamInv, StreamInv', StreamNext, NEW id \in StreamIds
        PROVE  /\ stream[id].status \in {"completed", "failed", "cancelled"} =>
                     /\ stream'[id].status = stream[id].status
                     /\ stream'[id].body = stream[id].body
                     /\ stream'[id].truncated = stream[id].truncated
               /\ id \notin streams' /\ stream'[id].worker \notin {"none", "ended"} =>
                     stream'[id].status = "cancelled"
    <2>1. stream'[id] \in StreamRecs /\ StreamSound(stream'[id]) /\ (stream'[id].status \in Active => id \in streams')
      BY <1>1 DEF StreamInv, StreamTypeOK, StreamRecs, StreamsSound, RegistryInv
    <2>2. id \notin streams' /\ stream'[id].worker \notin {"none", "ended"} => stream'[id].status = "cancelled"
      BY <2>1 DEF StreamSound, StreamRecs, StreamStatuses
    <2>3. stream \in [StreamIds -> StreamRecs]
      BY <1>1, StreamParts
    <2>4. ASSUME NEW j \in StreamIds, NEW r, GoodStep(stream[j], r), stream' = [stream EXCEPT ![j] = r],
                 stream[id].status \in Over
          PROVE  /\ stream'[id].status = stream[id].status /\ stream'[id].body = stream[id].body
                 /\ stream'[id].truncated = stream[id].truncated
      <3>1. CASE j = id
        BY <3>1, <2>3, <2>4 DEF GoodStep, Follows
      <3>2. CASE j # id
        BY <3>2, <2>3, <2>4
      <3> QED BY <3>1, <3>2
    <2>5. ASSUME stream[id].status \in Over
          PROVE  /\ stream'[id].status = stream[id].status /\ stream'[id].body = stream[id].body
                 /\ stream'[id].truncated = stream[id].truncated
      <3>1. CASE \E j \in StreamIds : StreamWorker(j)
        BY <3>1, <2>4, <2>5, <1>1, WorkerGoodStep
      <3>2. CASE \E c \in StreamClients : StreamClient(c)
        <4>1. PICK c \in StreamClients : StreamClient(c)
          BY <3>2
        <4>2. CASE CancelStream(c)
          BY <4>2, <2>4, <2>5, <1>1, CancelGoodStep
        <4>3. CASE StartStream(c)
          <5>1. stream[streamNext].status = "none" /\ streamNext \in StreamIds
            BY <4>3, <1>1, StreamAssumption, StreamParts DEF StartStream, RegistryInv, StreamIds
          <5>2. streamNext # id
            BY <5>1, <2>5 DEF Over
          <5>3. stream'[id] = stream[id]
            BY <5>2, <4>3, <2>3 DEF StartStream
          <5> QED BY <5>3
        <4>4. CASE ~CancelStream(c) /\ ~StartStream(c)
          <5>1. stream' = stream
            BY <4>1, <4>4 DEF StreamClient, StreamArc, UploadArc, ReleaseUpload, CheckStreamOver,
                              RemoveStream, ReadStream, RetainTempFile, ReadUpload, ReadUploadReturns
          <5> QED BY <5>1
        <4> QED BY <4>2, <4>3, <4>4
      <3> QED BY <3>1, <3>2, <1>1 DEF StreamNext
    <2> QED BY <2>2, <2>5 DEF Over
  <1>2. StreamInv /\ StreamInv' /\ [StreamNext]_streamVars =>
          [\A id \in StreamIds :
              /\ stream[id].status \in {"completed", "failed", "cancelled"} =>
                    /\ stream'[id].status = stream[id].status
                    /\ stream'[id].body = stream[id].body
                    /\ stream'[id].truncated = stream[id].truncated
              /\ id \notin streams' /\ stream'[id].worker \notin {"none", "ended"} =>
                    stream'[id].status = "cancelled"]_streamVars
    BY <1>1
  <1> QED BY <1>2, StreamInvariant, PTL DEF StreamSpec, StreamFrozen

-----------------------------------------------------------------------------
(***************************************************************************)
(* PTYs, for any number of clients, sessions and bytes.                    *)
(***************************************************************************)

(* The record of a PTY.                                                    *)
PtyRecs == [status : PtyStatuses, stop : BOOLEAN, writer : BOOLEAN, held : BOOLEAN,
            child : {"none", "alive", "dead"},
            lock : PtyClients \cup {"nobody", "reader"}, input : 0 .. TtyCapacity,
            printed : 0 .. PtyChildOutput, out : 0 .. TtyCapacity,
            query : BOOLEAN, chunk : 0 .. TtyCapacity, asked : BOOLEAN,
            output : 0 .. PtyOutputMax]
(* The call of a client.                                                   *)
PtyCalls == [step : PtyCallSteps, id : Nat, left : Nat]
(* The steps of a call that has an entry of the registry in its hands.     *)
PtyUse == {"write", "writing", "stop", "release", "remove"}

(* The slots: pending starts are those threads are in, and starts and      *)
(* sessions fit together.                                                  *)
PtySlots ==
    /\ ptyPending = Cardinality(PtyStarting)
    /\ Cardinality(ptys) + ptyPending <= MaxRetainedPtys

(* An id that was not handed out is unused; starts have ids of their own,  *)
(* which are not retained yet.                                             *)
PtyStarts ==
    /\ \A id \in PtyIds : id >= ptyNext => pty[id].status = "none" /\ pty[id].child = "none"
    /\ \A id \in ptys : id < ptyNext
    /\ \A c \in PtyStarting :
          /\ ptyCall[c].id \in PtyIds /\ ptyCall[c].id < ptyNext /\ ptyCall[c].id \notin ptys
          /\ pty[ptyCall[c].id].status = "none" <=> ptyCall[c].step # "launched"
          /\ ptyCall[c].step = "opening" => pty[ptyCall[c].id].child = "none"
          /\ ptyCall[c].step = "spawned" => pty[ptyCall[c].id].child # "none"
          /\ ptyCall[c].step = "give_up" =>
                pty[ptyCall[c].id].child # "alive" \/ ptyCall[c].id \in ptyLost
    /\ \A c, d \in PtyStarting : ptyCall[c].id = ptyCall[d].id => c = d

(* A session that is retained, watched or used was launched; the one that  *)
(* a release removes does not run.                                         *)
PtyKnown ==
    /\ \A id \in ptys : pty[id].status # "none"
    /\ \A id \in PtyIds : ptyWaiter[id] # "none" => pty[id].status # "none"
    /\ \A id \in PtyIds : pty[id].status = "none" \/ pty[id].child # "none"
    /\ \A c \in PtyClients :
          /\ ptyCall[c].step \in PtyUse => ptyCall[c].id \in PtyIds /\ pty[ptyCall[c].id].status # "none"
          /\ ptyCall[c].step = "remove" => pty[ptyCall[c].id].status # "running"

(* A child that is alive and was not given up is being started, or belongs *)
(* to a running session that holds it.                                     *)
PtyOwned ==
    \A id \in PtyIds :
        /\ ptyWaiter[id] = "exited" => pty[id].child = "dead"
        /\ pty[id].child = "alive" /\ id \notin ptyLost =>
              \/ \E c \in PtyStarting : ptyCall[c].id = id /\ ptyCall[c].step = "spawned"
              \/ /\ pty[id].status = "running" /\ pty[id].held
                 /\ id \in ptys \/ \E c \in PtyStarting : ptyCall[c].id = id

(* The inductive invariant.                                                *)
PtyInv == PtyTypeOK /\ PtySlots /\ PtyStarts /\ PtyKnown /\ PtyOwned
-----------------------------------------------------------------------------
(* Sets of starts and of sessions are finite.                              *)
LEMMA PtyFinite ==
    ASSUME PtyTypeOK
    PROVE  /\ IsFiniteSet(PtyStarting) /\ Cardinality(PtyStarting) \in Nat
           /\ IsFiniteSet(ptys) /\ Cardinality(ptys) \in Nat /\ MaxRetainedPtys \in Nat
  <1>1. IsFiniteSet(PtyStarting)
    BY PtyAssumption, FS_Subset DEF PtyStarting
  <1>2. IsFiniteSet(PtyIds) /\ ptys \subseteq PtyIds
    <2>1. MaxSessions \in Nat
      BY PtyAssumption
    <2> QED BY <2>1, FS_Interval DEF PtyIds, PtyTypeOK
  <1>3. IsFiniteSet(ptys)
    BY <1>2, FS_Subset
  <1> QED BY <1>1, <1>3, FS_CardinalityType, PtyAssumption

(* The parts of the invariant, with the types as named sets.               *)
LEMMA PtyParts ==
    ASSUME PtyInv
    PROVE  /\ PtyTypeOK /\ PtySlots /\ PtyStarts /\ PtyKnown /\ PtyOwned
           /\ pty \in [PtyIds -> PtyRecs] /\ ptyCall \in [PtyClients -> PtyCalls]
           /\ ptyNext \in Nat /\ ptys \subseteq PtyIds /\ ptyLost \subseteq PtyIds
  BY PtyAssumption DEF PtyInv, PtyTypeOK, PtyRecs, PtyCalls

(* A client without a call is idle.                                        *)
LEMMA NoPtyCallType == NoPtyCall \in PtyCalls /\ NoPtyCall.step = "idle"
  BY DEF NoPtyCall, PtyCalls, PtyCallSteps

(* Nothing was started at first.                                           *)
LEMMA InitPtys == PtyInit => PtyInv
  <1> SUFFICES ASSUME PtyInit PROVE PtyInv
    OBVIOUS
  <1>1. MaxSessions \in Nat /\ TtyCapacity \in Nat /\ PtyChildOutput \in Nat /\ PtyOutputMax \in Nat
    BY PtyAssumption
  <1>2. \A c \in PtyClients : ptyCall[c].step = "idle"
    BY DEF PtyInit, NoPtyCall
  <1>3. PtyStarting = {}
    BY <1>2 DEF PtyStarting, PtyStart
  <1>4. PtyTypeOK
    <2>1. NoPty \in PtyRecs
      BY <1>1 DEF NoPty, PtyRecs, PtyStatuses
    <2>2. pty \in [PtyIds -> PtyRecs] /\ ptyCall \in [PtyClients -> PtyCalls]
      BY <2>1, NoPtyCallType DEF PtyInit
    <2>3. ptyNext \in 0 .. MaxSessions
      BY <1>1 DEF PtyInit
    <2>4. /\ ptyReader \in [PtyIds -> {"none", "reading", "appending", "reporting", "ended"}]
          /\ ptyWaiter \in [PtyIds -> {"none", "polling", "exited", "wait_failed", "ended"}]
      BY DEF PtyInit
    <2> QED BY <2>2, <2>3, <2>4 DEF PtyInit, PtyTypeOK, PtyRecs, PtyCalls
  <1>5. PtySlots
    <2>1. Cardinality({}) = 0 /\ MaxRetainedPtys \in Nat
      BY FS_EmptySet, PtyAssumption
    <2> QED BY <2>1, <1>3 DEF PtyInit, PtySlots
  <1>6. \A id \in PtyIds : pty[id].status = "none" /\ pty[id].child = "none" /\ ptyWaiter[id] = "none"
    BY DEF PtyInit, NoPty
  <1>7. PtyStarts /\ PtyOwned
    BY <1>3, <1>6 DEF PtyInit, PtyStarts, PtyOwned
  <1>8. PtyKnown
    BY <1>2, <1>6 DEF PtyInit, PtyKnown, PtyUse
  <1> QED BY <1>4, <1>5, <1>7, <1>8 DEF PtyInv

(* How a launched session may change: it never runs again, a dead child    *)
(* stays dead, and a session that holds a living child goes on holding it. *)
PtyFollows(s, r, lost) ==
    /\ r.status = "none" <=> s.status = "none"
    /\ r.status = "running" => s.status = "running"
    /\ r.child = "none" <=> s.child = "none"
    /\ s.child = "dead" => r.child = "dead"
    /\ r.child = "alive" /\ ~lost /\ s.status = "running" /\ s.held => r.status = "running" /\ r.held

(* A session, its threads and a call on it take a step, and no start does. *)
LEMMA PtySessionKeeps ==
    ASSUME PtyInv, NEW id \in PtyIds, NEW r \in PtyRecs, PtyFollows(pty[id], r, id \in ptyLost'),
           pty' = [pty EXCEPT ![id] = r],
           UNCHANGED <<ptyNext, ptyPending>>, ptys' \subseteq ptys,
           \A j \in ptys : j \notin ptys' => pty[j].status # "running",
           ptyReader' \in [PtyIds -> {"none", "reading", "appending", "reporting", "ended"}],
           ptyWaiter' \in [PtyIds -> {"none", "polling", "exited", "wait_failed", "ended"}],
           \A j \in PtyIds : ptyWaiter'[j] # "none" => ptyWaiter[j] # "none",
           \A j \in PtyIds : ptyWaiter'[j] = "exited" => ptyWaiter[j] = "exited" \/ pty[j].child = "dead",
           ptyLost \subseteq ptyLost', ptyLost' \subseteq PtyIds,
           ptyCall' \in [PtyClients -> PtyCalls],
           \A c \in PtyClients : ptyCall'[c].step \in PtyStart \/ ptyCall[c].step \in PtyStart =>
               ptyCall'[c] = ptyCall[c],
           \A c \in PtyClients : ptyCall'[c].step \in PtyUse =>
               ptyCall'[c].id \in PtyIds /\ pty[ptyCall'[c].id].status # "none",
           \A c \in PtyClients : ptyCall'[c].step = "remove" => pty[ptyCall'[c].id].status # "running"
    PROVE  PtyInv'
  <1>a. /\ PtyTypeOK /\ PtySlots /\ PtyStarts /\ PtyKnown /\ PtyOwned
        /\ pty \in [PtyIds -> PtyRecs] /\ ptyCall \in [PtyClients -> PtyCalls]
        /\ ptyNext \in Nat /\ ptys \subseteq PtyIds /\ ptyLost \subseteq PtyIds
    BY PtyParts
  <1>b. pty'[id] = r /\ \A j \in PtyIds : j # id => pty'[j] = pty[j]
    BY <1>a
  <1>c. \A j \in PtyIds : PtyFollows(pty[j], pty'[j], j \in ptyLost')
    <2>1. \A j \in PtyIds : PtyFollows(pty[j], pty[j], j \in ptyLost')
      BY DEF PtyFollows
    <2> QED BY <2>1, <1>b
  <1>d. PtyStarting' = PtyStarting /\ \A c \in PtyStarting : ptyCall'[c] = ptyCall[c] /\ c \in PtyClients
    BY DEF PtyStarting
  <1>1. PtyTypeOK'
    <2>1. pty' \in [PtyIds -> PtyRecs]
      BY <1>a
    <2> QED BY <2>1, <1>a DEF PtyTypeOK, PtyRecs, PtyCalls
  <1>2. PtySlots'
    <2>1. Cardinality(ptys') <= Cardinality(ptys) /\ Cardinality(ptys') \in Nat
      BY <1>a, PtyFinite, FS_Subset, FS_CardinalityType
    <2>2. Cardinality(ptys) + ptyPending <= MaxRetainedPtys /\ ptyPending \in Nat
      BY <1>a DEF PtySlots, PtyTypeOK
    <2>3. Cardinality(ptys') + ptyPending <= MaxRetainedPtys
      BY <2>1, <2>2, <1>a, PtyFinite
    <2> QED BY <2>3, <1>a, <1>d DEF PtySlots
  <1>3. PtyStarts'
    <2>1. \A j \in PtyIds : j >= ptyNext => pty'[j].status = "none" /\ pty'[j].child = "none"
      BY <1>a, <1>c DEF PtyStarts, PtyFollows
    <2>2. \A j \in ptys' : j < ptyNext
      BY <1>a DEF PtyStarts
    <2>3. ASSUME NEW c \in PtyStarting
          PROVE  /\ ptyCall[c].id \in PtyIds /\ ptyCall[c].id < ptyNext /\ ptyCall[c].id \notin ptys'
                 /\ pty'[ptyCall[c].id].status = "none" <=> ptyCall[c].step # "launched"
                 /\ ptyCall[c].step = "opening" => pty'[ptyCall[c].id].child = "none"
                 /\ ptyCall[c].step = "spawned" => pty'[ptyCall[c].id].child # "none"
                 /\ ptyCall[c].step = "give_up" =>
                       pty'[ptyCall[c].id].child # "alive" \/ ptyCall[c].id \in ptyLost'
      <3>1. /\ ptyCall[c].id \in PtyIds /\ ptyCall[c].id < ptyNext /\ ptyCall[c].id \notin ptys
            /\ pty[ptyCall[c].id].status = "none" <=> ptyCall[c].step # "launched"
            /\ ptyCall[c].step = "opening" => pty[ptyCall[c].id].child = "none"
            /\ ptyCall[c].step = "spawned" => pty[ptyCall[c].id].child # "none"
            /\ ptyCall[c].step = "give_up" =>
                  pty[ptyCall[c].id].child # "alive" \/ ptyCall[c].id \in ptyLost
        BY <1>a DEF PtyStarts
      <3>2. pty[ptyCall[c].id].child # "alive" => pty'[ptyCall[c].id].child # "alive"
        <4>1. pty[ptyCall[c].id].child \in {"none", "alive", "dead"}
          BY <3>1, <1>a DEF PtyRecs
        <4> QED BY <4>1, <3>1, <1>c DEF PtyFollows
      <3> QED BY <3>1, <3>2, <1>c DEF PtyFollows
    <2> QED BY <2>1, <2>2, <2>3, <1>a, <1>d DEF PtyStarts
  <1>4. PtyKnown'
    <2>1. \A j \in PtyIds : pty'[j].status = "none" <=> pty[j].status = "none"
      BY <1>c DEF PtyFollows
    <2>2. \A j \in PtyIds : pty'[j].status = "running" => pty[j].status = "running"
      BY <1>c DEF PtyFollows
    <2>3. \A c \in PtyClients : ptyCall'[c].step = "remove" => ptyCall'[c].id \in PtyIds
      BY DEF PtyUse
    <2>4. \A j \in PtyIds : pty'[j].child = "none" <=> pty[j].child = "none"
      BY <1>c DEF PtyFollows
    <2> QED BY <2>1, <2>2, <2>3, <2>4, <1>a DEF PtyKnown
  <1>5. PtyOwned'
    <2> SUFFICES ASSUME NEW j \in PtyIds
                 PROVE  /\ ptyWaiter'[j] = "exited" => pty'[j].child = "dead"
                        /\ pty'[j].child = "alive" /\ j \notin ptyLost' =>
                              \/ \E c \in PtyStarting : ptyCall[c].id = j /\ ptyCall[c].step = "spawned"
                              \/ /\ pty'[j].status = "running" /\ pty'[j].held
                                 /\ j \in ptys' \/ \E c \in PtyStarting : ptyCall[c].id = j
      BY <1>d DEF PtyOwned
    <2>1. ptyWaiter'[j] = "exited" => pty'[j].child = "dead"
      BY <1>a, <1>c DEF PtyOwned, PtyFollows
    <2>2. ASSUME pty'[j].child = "alive", j \notin ptyLost'
          PROVE  \/ \E c \in PtyStarting : ptyCall[c].id = j /\ ptyCall[c].step = "spawned"
                 \/ /\ pty'[j].status = "running" /\ pty'[j].held
                    /\ j \in ptys' \/ \E c \in PtyStarting : ptyCall[c].id = j
      <3>1. pty[j].child = "alive" /\ j \notin ptyLost
        <4>1. pty[j].child \in {"none", "alive", "dead"}
          BY <1>a DEF PtyRecs
        <4> QED BY <4>1, <2>2, <1>c DEF PtyFollows
      <3>2. \/ \E c \in PtyStarting : ptyCall[c].id = j /\ ptyCall[c].step = "spawned"
            \/ /\ pty[j].status = "running" /\ pty[j].held
               /\ j \in ptys \/ \E c \in PtyStarting : ptyCall[c].id = j
        BY <3>1, <1>a DEF PtyOwned
      <3>3. CASE \E c \in PtyStarting : ptyCall[c].id = j /\ ptyCall[c].step = "spawned"
        BY <3>3
      <3>4. CASE /\ pty[j].status = "running" /\ pty[j].held
                 /\ j \in ptys \/ \E c \in PtyStarting : ptyCall[c].id = j
        <4>1. pty'[j].status = "running" /\ pty'[j].held
          BY <3>4, <2>2, <1>c DEF PtyFollows
        <4>2. j \in ptys => j \in ptys'
          BY <3>4
        <4> QED BY <4>1, <4>2, <3>4
      <3> QED BY <3>2, <3>3, <3>4
    <2> QED BY <2>1, <2>2
  <1> QED BY <1>1, <1>2, <1>3, <1>4, <1>5 DEF PtyInv

(* A thread of a session, or its child, takes a step.                      *)
LEMMA PtyThreadKeeps ==
    ASSUME PtyInv, NEW id \in PtyIds, NEW r \in PtyRecs, PtyFollows(pty[id], r, id \in ptyLost'),
           pty' = [pty EXCEPT ![id] = r], UNCHANGED <<ptyRegistry, ptyCall>>,
           ptyReader' \in [PtyIds -> {"none", "reading", "appending", "reporting", "ended"}],
           ptyWaiter' \in [PtyIds -> {"none", "polling", "exited", "wait_failed", "ended"}],
           \A j \in PtyIds : ptyWaiter'[j] # "none" => ptyWaiter[j] # "none",
           \A j \in PtyIds : ptyWaiter'[j] = "exited" => ptyWaiter[j] = "exited" \/ pty[j].child = "dead",
           ptyLost \subseteq ptyLost', ptyLost' \subseteq PtyIds
    PROVE  PtyInv'
  <1>1. PtyKnown /\ ptyCall \in [PtyClients -> PtyCalls]
    BY PtyParts
  <1>2. UNCHANGED <<ptyNext, ptyPending>> /\ ptys' = ptys /\ ptyCall' = ptyCall
    BY DEF ptyRegistry
  <1>3. /\ \A c \in PtyClients : ptyCall'[c].step \in PtyUse =>
               ptyCall'[c].id \in PtyIds /\ pty[ptyCall'[c].id].status # "none"
        /\ \A c \in PtyClients : ptyCall'[c].step = "remove" => pty[ptyCall'[c].id].status # "running"
    BY <1>1, <1>2 DEF PtyKnown
  <1> QED BY <1>1, <1>2, <1>3, PtySessionKeeps

(* What the fields of a session's record are.                              *)
LEMMA PtyFields ==
    ASSUME PtyInv, NEW id \in PtyIds
    PROVE  /\ pty[id] \in PtyRecs
           /\ pty[id].input \in Nat /\ pty[id].input <= TtyCapacity
           /\ pty[id].out \in Nat /\ pty[id].printed \in Nat /\ pty[id].output \in Nat /\ pty[id].chunk \in Nat
           /\ TtyCapacity \in Nat /\ PtyChildOutput \in Nat /\ PtyOutputMax \in Nat
           /\ ptyReader \in [PtyIds -> {"none", "reading", "appending", "reporting", "ended"}]
           /\ ptyWaiter \in [PtyIds -> {"none", "polling", "exited", "wait_failed", "ended"}]
           /\ ptyLost \subseteq PtyIds
  <1>1. TtyCapacity \in Nat /\ PtyChildOutput \in Nat /\ PtyOutputMax \in Nat
    BY PtyAssumption
  <1>2. pty[id] \in PtyRecs
    BY PtyParts
  <1>3. /\ pty[id].input \in Nat /\ pty[id].input <= TtyCapacity
        /\ pty[id].out \in Nat /\ pty[id].printed \in Nat /\ pty[id].output \in Nat /\ pty[id].chunk \in Nat
    BY <1>1, <1>2 DEF PtyRecs
  <1> QED BY <1>1, <1>2, <1>3, PtyParts DEF PtyTypeOK

(* The reader thread.                                                      *)
LEMMA PtyReaderKeeps ==
    ASSUME PtyInv, NEW id \in PtyIds, PtyReaderThread(id)
    PROVE  PtyInv'
  <1>a. PICK s \in PtyRecs : s = pty[id]
    BY PtyFields
  <1>b. /\ s.input \in Nat /\ s.input <= TtyCapacity /\ s.out \in Nat /\ s.output \in Nat /\ s.chunk \in Nat
        /\ TtyCapacity \in Nat /\ PtyOutputMax \in Nat
        /\ ptyReader \in [PtyIds -> {"none", "reading", "appending", "reporting", "ended"}]
        /\ ptyWaiter \in [PtyIds -> {"none", "polling", "exited", "wait_failed", "ended"}]
        /\ ptyLost \subseteq PtyIds
    BY <1>a, PtyFields
  <1>c. UNCHANGED <<ptyRegistry, ptyWaiter, ptyCall, ptyLost>>
    BY DEF PtyReaderThread, PtyRead, PtyAppends, ReportCursor, PtyReaderEnds
  <1>d. ptyReader' \in [PtyIds -> {"none", "reading", "appending", "reporting", "ended"}]
    BY <1>b DEF PtyReaderThread, PtyRead, PtyAppends, ReportCursor, PtyReaderEnds
  <1>1. ASSUME NEW r \in PtyRecs, pty' = [pty EXCEPT ![id] = r], r.status = s.status,
               r.held = s.held, r.child = s.child
        PROVE  PtyInv'
    <2>1. PtyFollows(s, r, id \in ptyLost')
      BY <1>1 DEF PtyFollows
    <2> QED BY <2>1, <1>1, <1>a, <1>b, <1>c, <1>d, PtyThreadKeeps
  <1>2. CASE PtyRead(id)
    <2> DEFINE r == [s EXCEPT !.chunk = s.out, !.asked = s.query, !.out = 0, !.query = FALSE]
    <2>0. s.out \in 0 .. TtyCapacity /\ 0 \in 0 .. TtyCapacity /\ s.query \in BOOLEAN /\ FALSE \in BOOLEAN
      BY <1>b DEF PtyRecs
    <2>1. r \in PtyRecs /\ r.status = s.status /\ r.held = s.held /\ r.child = s.child
      BY <2>0, Zenon DEF PtyRecs
    <2>2. pty' = [pty EXCEPT ![id] = r]
      BY <1>2, <1>a DEF PtyRead
    <2> QED BY <2>1, <2>2, <1>1
  <1>3. CASE PtyAppends(id)
    <2>1. PICK kept : kept = Min({s.output + s.chunk, PtyOutputMax})
      OBVIOUS
    <2>2. kept \in 0 .. PtyOutputMax
      <3>1. kept = IF s.output + s.chunk <= PtyOutputMax THEN s.output + s.chunk ELSE PtyOutputMax
        BY <2>1, <1>b, MinOfTwo
      <3> QED BY <3>1, <1>b
    <2>3. PICK l \in {"reader", s.lock} : l = IF s.asked /\ s.writer THEN "reader" ELSE s.lock
      OBVIOUS
    <2> DEFINE r == [s EXCEPT !.output = kept, !.chunk = 0, !.asked = FALSE, !.lock = l]
    <2>6. 0 \in 0 .. TtyCapacity /\ l \in PtyClients \cup {"nobody", "reader"}
      BY <1>b DEF PtyRecs
    <2>4. r \in PtyRecs /\ r.status = s.status /\ r.held = s.held /\ r.child = s.child
      BY <2>2, <2>6 DEF PtyRecs
    <2>5. pty' = [pty EXCEPT ![id] = r]
      BY <2>1, <2>3, <1>3, <1>a DEF PtyAppends
    <2> QED BY <2>4, <2>5, <1>1
  <1>4. CASE ReportCursor(id)
    <2>1. PICK n : n = IF s.input < TtyCapacity THEN s.input + 1 ELSE s.input
      OBVIOUS
    <2>2. n \in 0 .. TtyCapacity
      BY <2>1, <1>b
    <2> DEFINE r == [s EXCEPT !.lock = "nobody", !.input = n]
    <2>3. r \in PtyRecs /\ r.status = s.status /\ r.held = s.held /\ r.child = s.child
      BY <2>2 DEF PtyRecs
    <2>4. pty' = [pty EXCEPT ![id] = r]
      BY <2>1, <1>4, <1>a DEF ReportCursor
    <2> QED BY <2>3, <2>4, <1>1
  <1>5. CASE PtyReaderEnds(id)
    <2>1. pty' = [pty EXCEPT ![id] = s]
      BY <1>5, <1>a, PtyParts DEF PtyReaderEnds
    <2> QED BY <2>1, <1>1
  <1> QED BY <1>2, <1>3, <1>4, <1>5 DEF PtyReaderThread

(* The waiter thread records the exit of a child that is dead, or gives a  *)
(* child up.                                                               *)
LEMMA PtyWaiterKeeps ==
    ASSUME PtyInv, NEW id \in PtyIds, PtyWaiterThread(id)
    PROVE  PtyInv'
  <1>a. PICK s \in PtyRecs : s = pty[id]
    BY PtyFields
  <1>b. /\ ptyReader \in [PtyIds -> {"none", "reading", "appending", "reporting", "ended"}]
        /\ ptyWaiter \in [PtyIds -> {"none", "polling", "exited", "wait_failed", "ended"}]
        /\ ptyLost \subseteq PtyIds
    BY PtyFields
  <1>c. /\ ptyWaiter[id] = "exited" => s.child = "dead"
        /\ ptyWaiter[id] # "none" => s.status # "none"
    BY <1>a, PtyParts DEF PtyOwned, PtyKnown
  <1>1. CASE PollChild(id)
    <2>1. PICK w \in {"exited", "wait_failed"} :
            /\ ptyWaiter' = [ptyWaiter EXCEPT ![id] = w] /\ (w = "exited" => s.child = "dead")
            /\ ptyWaiter[id] = "polling"
      BY <1>1, <1>a DEF PollChild
    <2>2. UNCHANGED <<ptyRegistry, pty, ptyReader, ptyCall, ptyLost>>
      BY <1>1 DEF PollChild
    <2>3. pty' = [pty EXCEPT ![id] = s]
      BY <2>2, <1>a, PtyParts
    <2>4. PtyFollows(s, s, id \in ptyLost')
      BY DEF PtyFollows
    <2>5. /\ ptyWaiter' \in [PtyIds -> {"none", "polling", "exited", "wait_failed", "ended"}]
          /\ \A j \in PtyIds : ptyWaiter'[j] # "none" => ptyWaiter[j] # "none"
          /\ \A j \in PtyIds : ptyWaiter'[j] = "exited" => ptyWaiter[j] = "exited" \/ pty[j].child = "dead"
      BY <2>1, <1>a, <1>b
    <2> QED BY <2>2, <2>3, <2>4, <2>5, <1>a, <1>b, PtyThreadKeeps
  <1>2. CASE RecordPtyExit(id) \/ RecordWaitFailure(id)
    <2>1. PICK st \in {"stopped", "exited", "failed"} :
            pty' = [pty EXCEPT ![id] = [s EXCEPT !.status = st, !.held = FALSE, !.writer = FALSE]]
      BY <1>2, <1>a DEF RecordPtyExit, RecordWaitFailure, PtyExitStatus
    <2>2. /\ ptyWaiter' = [ptyWaiter EXCEPT ![id] = "ended"] /\ ptyWaiter[id] # "none"
          /\ UNCHANGED <<ptyRegistry, ptyReader, ptyCall>>
          /\ ptyLost \subseteq ptyLost' /\ ptyLost' \subseteq PtyIds
          /\ s.child = "dead" \/ id \in ptyLost'
      <3>1. CASE RecordPtyExit(id)
        BY <3>1, <1>b, <1>c DEF RecordPtyExit
      <3>2. CASE RecordWaitFailure(id)
        BY <3>2, <1>a, <1>b DEF RecordWaitFailure
      <3> QED BY <1>2, <3>1, <3>2
    <2> DEFINE r == [s EXCEPT !.status = st, !.held = FALSE, !.writer = FALSE]
    <2>3. r \in PtyRecs /\ r.status = st /\ r.child = s.child
      BY DEF PtyRecs, PtyStatuses
    <2> HIDE DEF r
    <2>4. PtyFollows(s, r, id \in ptyLost')
      BY <2>2, <2>3, <1>c DEF PtyFollows
    <2>5. /\ ptyWaiter' \in [PtyIds -> {"none", "polling", "exited", "wait_failed", "ended"}]
          /\ \A j \in PtyIds : ptyWaiter'[j] # "none" => ptyWaiter[j] # "none"
          /\ \A j \in PtyIds : ptyWaiter'[j] = "exited" => ptyWaiter[j] = "exited" \/ pty[j].child = "dead"
      BY <2>2, <1>b
    <2>6. pty' = [pty EXCEPT ![id] = r]
      BY <2>1 DEF r
    <2> QED BY <2>2, <2>3, <2>4, <2>5, <2>6, <1>a, <1>b, PtyThreadKeeps
  <1> QED BY <1>1, <1>2 DEF PtyWaiterThread

(* The child.                                                              *)
LEMMA PtyChildKeeps ==
    ASSUME PtyInv, NEW id \in PtyIds, PtyChildReads(id) \/ ChildPrints(id) \/ PtyChildExits(id)
    PROVE  PtyInv'
  <1>a. PICK s \in PtyRecs : s = pty[id]
    BY PtyFields
  <1>b. /\ s.input \in Nat /\ s.input <= TtyCapacity /\ s.out \in Nat /\ s.printed \in Nat
        /\ TtyCapacity \in Nat /\ PtyChildOutput \in Nat
        /\ ptyReader \in [PtyIds -> {"none", "reading", "appending", "reporting", "ended"}]
        /\ ptyWaiter \in [PtyIds -> {"none", "polling", "exited", "wait_failed", "ended"}]
        /\ ptyLost \subseteq PtyIds
    BY <1>a, PtyFields
  <1>c. s.child = "alive" /\ UNCHANGED <<ptyRegistry, ptyReader, ptyWaiter, ptyCall, ptyLost>>
    BY <1>a DEF PtyChildReads, ChildPrints, PtyChildExits
  <1>1. ASSUME NEW r \in PtyRecs, pty' = [pty EXCEPT ![id] = r], r.status = s.status,
               r.held = s.held, r.child \in {"alive", "dead"}
        PROVE  PtyInv'
    <2>1. PtyFollows(s, r, id \in ptyLost')
      BY <1>1, <1>c DEF PtyFollows
    <2> QED BY <2>1, <1>1, <1>a, <1>b, <1>c, PtyThreadKeeps
  <1>2. CASE PtyChildReads(id)
    <2> DEFINE r == [s EXCEPT !.input = s.input - 1]
    <2>1. s.input - 1 \in 0 .. TtyCapacity
      BY <1>2, <1>a, <1>b DEF PtyChildReads
    <2>2. r \in PtyRecs /\ r.status = s.status /\ r.held = s.held /\ r.child = s.child
      BY <2>1 DEF PtyRecs
    <2>3. pty' = [pty EXCEPT ![id] = r]
      BY <1>2, <1>a DEF PtyChildReads
    <2> QED BY <2>2, <2>3, <1>1, <1>c
  <1>3. CASE ChildPrints(id)
    <2>1. PICK query \in BOOLEAN : pty' = [pty EXCEPT ![id] =
            [s EXCEPT !.out = s.out + 1, !.printed = s.printed + 1, !.query = s.query \/ query]]
      BY <1>3, <1>a DEF ChildPrints
    <2>2. PICK q \in BOOLEAN : q = (s.query \/ query)
      OBVIOUS
    <2> DEFINE r == [s EXCEPT !.out = s.out + 1, !.printed = s.printed + 1, !.query = q]
    <2>3. s.out + 1 \in 0 .. TtyCapacity /\ s.printed + 1 \in 0 .. PtyChildOutput
      BY <1>3, <1>a, <1>b DEF ChildPrints
    <2>4. r \in PtyRecs /\ r.status = s.status /\ r.held = s.held /\ r.child = s.child
      BY <2>3 DEF PtyRecs
    <2>5. pty' = [pty EXCEPT ![id] = r]
      BY <2>1, <2>2
    <2> QED BY <2>4, <2>5, <1>1, <1>c
  <1>4. CASE PtyChildExits(id)
    <2> DEFINE r == [s EXCEPT !.child = "dead"]
    <2>1. r \in PtyRecs /\ r.status = s.status /\ r.held = s.held /\ r.child = "dead"
      BY DEF PtyRecs
    <2>2. pty' = [pty EXCEPT ![id] = r]
      BY <1>4, <1>a DEF PtyChildExits
    <2> QED BY <2>1, <2>2, <1>1
  <1> QED BY <1>2, <1>3, <1>4

-----------------------------------------------------------------------------
(* A call on a session moves on.                                           *)
LEMMA PtyCallKeeps ==
    ASSUME PtyInv, NEW c \in PtyClients, NEW k \in PtyCalls, ptyCall' = [ptyCall EXCEPT ![c] = k],
           ptyCall[c].step \notin PtyStart, k.step \notin PtyStart,
           k.step \in PtyUse => k.id \in PtyIds /\ pty[k.id].status # "none",
           k.step = "remove" => pty[k.id].status # "running",
           NEW id \in PtyIds, NEW r \in PtyRecs, PtyFollows(pty[id], r, id \in ptyLost),
           pty' = [pty EXCEPT ![id] = r],
           UNCHANGED <<ptyNext, ptyPending, ptyReader, ptyWaiter, ptyLost>>, ptys' \subseteq ptys,
           \A j \in ptys : j \notin ptys' => pty[j].status # "running"
    PROVE  PtyInv'
  <1>a. PtyKnown /\ ptyCall \in [PtyClients -> PtyCalls]
    BY PtyParts
  <1>b. ptyCall'[c] = k /\ ptyCall' \in [PtyClients -> PtyCalls]
        /\ \A d \in PtyClients : d # c => ptyCall'[d] = ptyCall[d]
    BY <1>a
  <1>1. \A d \in PtyClients : ptyCall'[d].step \in PtyStart \/ ptyCall[d].step \in PtyStart => ptyCall'[d] = ptyCall[d]
    BY <1>b
  <1>2. /\ \A d \in PtyClients : ptyCall'[d].step \in PtyUse =>
               ptyCall'[d].id \in PtyIds /\ pty[ptyCall'[d].id].status # "none"
        /\ \A d \in PtyClients : ptyCall'[d].step = "remove" => pty[ptyCall'[d].id].status # "running"
    BY <1>a, <1>b DEF PtyKnown
  <1>3. /\ ptyReader' \in [PtyIds -> {"none", "reading", "appending", "reporting", "ended"}]
        /\ ptyWaiter' \in [PtyIds -> {"none", "polling", "exited", "wait_failed", "ended"}]
        /\ ptyLost' \subseteq PtyIds
    BY PtyFields
  <1> QED BY <1>1, <1>2, <1>3, <1>b, PtySessionKeeps

(* write, stop and release                                                 *)
LEMMA PtyUseKeeps ==
    ASSUME PtyInv, NEW c \in PtyClients,
           \/ \E id \in PtyIds, op \in {"write", "stop", "release"} : SessionArc(c, op, id)
           \/ WriteRefused(c) \/ BeginPtyWrite(c) \/ PtyWriteByte(c) \/ PtyWriteEnds(c)
           \/ StopSession(c) \/ CheckPtyOver(c) \/ RemovePty(c)
    PROVE  PtyInv'
  <1>a. /\ PtyTypeOK /\ PtyKnown /\ pty \in [PtyIds -> PtyRecs] /\ ptyCall \in [PtyClients -> PtyCalls]
    BY PtyParts
  <1>b. NoPtyCall \in PtyCalls /\ NoPtyCall.step = "idle" /\ "idle" \notin PtyStart /\ "idle" \notin PtyUse
    BY NoPtyCallType DEF PtyStart, PtyUse
  <1>c. \A id \in PtyIds : PtyFollows(pty[id], pty[id], id \in ptyLost) /\ pty = [pty EXCEPT ![id] = pty[id]]
                           /\ pty[id] \in PtyRecs
    BY <1>a DEF PtyFollows
  <1>1. CASE \E id \in PtyIds, op \in {"write", "stop", "release"} : SessionArc(c, op, id)
    <2>1. PICK id \in PtyIds, op \in {"write", "stop", "release"} : SessionArc(c, op, id)
      BY <1>1
    <2> DEFINE k == [step |-> op, id |-> id, left |-> 0]
    <2>2. id \in Nat
      BY PtyAssumption DEF PtyIds
    <2>3. k \in PtyCalls /\ k.step = op /\ k.id = id
      BY <2>2 DEF PtyCalls, PtyCallSteps
    <2> HIDE DEF k
    <2>4. /\ ptyCall' = [ptyCall EXCEPT ![c] = k] /\ id \in ptys /\ ptyCall[c].step = "idle"
          /\ UNCHANGED <<ptyNext, ptyPending, ptys, pty, ptyReader, ptyWaiter, ptyLost>>
      BY <2>1 DEF SessionArc, AtPtyStep, k, ptyRegistry
    <2>5. pty[id].status # "none" /\ op \notin PtyStart /\ op # "remove"
      BY <2>4, <1>a DEF PtyKnown, PtyStart
    <2> QED BY <2>3, <2>4, <2>5, <1>b, <1>c, PtyCallKeeps
  <1>2. CASE ptyCall[c].step \in PtyUse
    <2>1. PICK id \in PtyIds : id = ptyCall[c].id /\ pty[id].status # "none"
      BY <1>2, <1>a DEF PtyKnown
    <2>2. PICK s \in PtyRecs : s = pty[id]
      BY <1>a
    <2>3. ptyCall[c].step \notin PtyStart
      BY <1>2 DEF PtyUse, PtyStart
    <2>4. s.input \in Nat /\ s.input <= TtyCapacity /\ TtyCapacity \in Nat
      BY <2>2, PtyFields
    <2>5. CASE WriteRefused(c)
      <3>1. ptyCall' = [ptyCall EXCEPT ![c] = NoPtyCall]
            /\ UNCHANGED <<ptyNext, ptyPending, ptys, pty, ptyReader, ptyWaiter, ptyLost>>
        BY <2>5 DEF WriteRefused, PtyReturns, ptyRegistry
      <3> QED BY <3>1, <2>3, <1>b, <1>c, PtyCallKeeps
    <2>6. CASE BeginPtyWrite(c)
      <3>1. PICK n \in PtyInputs :
              /\ ptyCall' = [ptyCall EXCEPT ![c] = [ptyCall[c] EXCEPT !.step = "writing", !.left = n]]
              /\ pty' = [pty EXCEPT ![id] = [s EXCEPT !.lock = c]]
              /\ UNCHANGED <<ptyNext, ptyPending, ptys, ptyReader, ptyWaiter, ptyLost>>
        BY <2>6, <2>1, <2>2 DEF BeginPtyWrite, ptyRegistry
      <3>2. n \in Nat
        BY PtyAssumption
      <3> DEFINE k == [ptyCall[c] EXCEPT !.step = "writing", !.left = n]
                 r == [s EXCEPT !.lock = c]
      <3>3. k \in PtyCalls /\ k.step = "writing" /\ k.id = id
        BY <3>2, <2>1, <1>a DEF PtyCalls, PtyCallSteps
      <3>4. r \in PtyRecs /\ r.status = s.status /\ r.child = s.child /\ r.held = s.held
        BY DEF PtyRecs
      <3>5. PtyFollows(s, r, id \in ptyLost)
        BY <3>4 DEF PtyFollows
      <3>6. "writing" \notin PtyStart /\ k.step # "remove"
        BY <3>3 DEF PtyStart
      <3> HIDE DEF k, r
      <3>7. ptyCall' = [ptyCall EXCEPT ![c] = k] /\ pty' = [pty EXCEPT ![id] = r]
        BY <3>1 DEF k, r
      <3>8. UNCHANGED <<ptyNext, ptyPending, ptyReader, ptyWaiter, ptyLost>> /\ ptys' = ptys
        BY <3>1
      <3>9. k.step \notin PtyStart /\ k.id \in PtyIds /\ pty[k.id].status # "none"
        BY <3>3, <3>6, <2>1
      <3> QED BY <3>8, <3>9, <3>3, <3>4, <3>5, <3>6, <3>7, <2>2, <2>3, PtyCallKeeps
    <2>7. CASE PtyWriteByte(c)
      <3> DEFINE k == [ptyCall[c] EXCEPT !.left = ptyCall[c].left - 1]
                 r == [s EXCEPT !.input = s.input + 1]
      <3>1. /\ ptyCall' = [ptyCall EXCEPT ![c] = k] /\ pty' = [pty EXCEPT ![id] = r]
            /\ UNCHANGED <<ptyNext, ptyPending, ptys, ptyReader, ptyWaiter, ptyLost>>
            /\ ptyCall[c].step = "writing" /\ ptyCall[c].left > 0 /\ s.input < TtyCapacity
        BY <2>7, <2>1, <2>2 DEF PtyWriteByte, AtPtyStep, ptyRegistry
      <3>2. ptyCall[c].left - 1 \in Nat /\ s.input + 1 \in 0 .. TtyCapacity
        BY <3>1, <2>4, <1>a DEF PtyCalls
      <3>3. k \in PtyCalls /\ k.step = "writing" /\ k.id = id
        BY <3>1, <3>2, <2>1, <1>a DEF PtyCalls
      <3>4. r \in PtyRecs /\ r.status = s.status /\ r.child = s.child /\ r.held = s.held
        BY <3>2 DEF PtyRecs
      <3>5. PtyFollows(s, r, id \in ptyLost)
        BY <3>4 DEF PtyFollows
      <3>6. k.step \notin PtyStart /\ k.step # "remove"
        BY <3>3 DEF PtyStart
      <3> HIDE DEF k, r
      <3> QED BY <3>1, <3>3, <3>4, <3>5, <3>6, <2>1, <2>2, <2>3, PtyCallKeeps
    <2>8. CASE PtyWriteEnds(c)
      <3> DEFINE r == [s EXCEPT !.lock = "nobody"]
      <3>1. /\ ptyCall' = [ptyCall EXCEPT ![c] = NoPtyCall] /\ pty' = [pty EXCEPT ![id] = r]
            /\ UNCHANGED <<ptyNext, ptyPending, ptys, ptyReader, ptyWaiter, ptyLost>>
        BY <2>8, <2>1, <2>2 DEF PtyWriteEnds, PtyReturns, ptyRegistry
      <3>2. r \in PtyRecs /\ r.status = s.status /\ r.child = s.child /\ r.held = s.held
        BY DEF PtyRecs
      <3>3. PtyFollows(s, r, id \in ptyLost)
        BY <3>2 DEF PtyFollows
      <3> HIDE DEF r
      <3> QED BY <3>1, <3>2, <3>3, <2>2, <2>3, <1>b, PtyCallKeeps
    <2>9. CASE StopSession(c)
      <3>1. PICK killed \in BOOLEAN :
              /\ killed => s.held
              /\ pty' = [pty EXCEPT ![id] = [s EXCEPT !.stop = TRUE, !.writer = FALSE,
                                                     !.child = IF killed THEN "dead" ELSE s.child]]
        <4>1. PICK killed \in IF s.held THEN BOOLEAN ELSE {FALSE} :
                pty' = [pty EXCEPT ![id] = [s EXCEPT !.stop = TRUE, !.writer = FALSE,
                                                     !.child = IF killed THEN "dead" ELSE s.child]]
          BY <2>9, <2>1, <2>2 DEF StopSession
        <4>2. killed \in BOOLEAN /\ (killed => s.held)
          BY <2>2
        <4> QED BY <4>1, <4>2
      <3>2. ptyCall' = [ptyCall EXCEPT ![c] = NoPtyCall]
            /\ UNCHANGED <<ptyNext, ptyPending, ptys, ptyReader, ptyWaiter, ptyLost>>
        BY <2>9 DEF StopSession, PtyReturns, ptyRegistry
      <3>3. PICK ch \in {"dead", s.child} : ch = IF killed THEN "dead" ELSE s.child
        OBVIOUS
      <3> DEFINE r == [s EXCEPT !.stop = TRUE, !.writer = FALSE, !.child = ch]
      <3>4. r \in PtyRecs /\ r.status = s.status /\ r.child = ch /\ r.held = s.held
        BY DEF PtyRecs
      <3>5. killed => s.child # "none"
        BY <3>1, <2>1, <2>2, PtyParts DEF PtyKnown
      <3>6. PtyFollows(s, r, id \in ptyLost)
        BY <3>3, <3>4, <3>5 DEF PtyFollows
      <3>7. pty' = [pty EXCEPT ![id] = r]
        BY <3>1, <3>3
      <3> HIDE DEF r
      <3> QED BY <3>2, <3>4, <3>6, <3>7, <2>2, <2>3, <1>b, PtyCallKeeps
    <2>10. CASE CheckPtyOver(c)
      <3>1. UNCHANGED <<ptyNext, ptyPending, ptys, pty, ptyReader, ptyWaiter, ptyLost>>
        BY <2>10 DEF CheckPtyOver, ptyRegistry
      <3>2. CASE s.status # "running"
        <4> DEFINE k == [ptyCall[c] EXCEPT !.step = "remove"]
        <4>1. k \in PtyCalls /\ k.step = "remove" /\ k.id = id
          BY <2>1, <1>a DEF PtyCalls, PtyCallSteps
        <4>2. k.step \notin PtyStart
          BY <4>1 DEF PtyStart
        <4> HIDE DEF k
        <4>3. ptyCall' = [ptyCall EXCEPT ![c] = k]
          BY <3>2, <2>1, <2>2, <2>10 DEF CheckPtyOver, PtyReleasable, PtyGoTo, k
        <4> QED BY <3>1, <3>2, <4>1, <4>2, <4>3, <2>1, <2>2, <2>3, <1>c, PtyCallKeeps
      <3>3. CASE s.status = "running"
        <4>1. ptyCall' = [ptyCall EXCEPT ![c] = NoPtyCall]
          BY <3>3, <2>1, <2>2, <2>10 DEF CheckPtyOver, PtyReleasable, PtyReturns
        <4> QED BY <3>1, <4>1, <2>3, <1>b, <1>c, PtyCallKeeps
      <3> QED BY <3>2, <3>3
    <2>11. CASE RemovePty(c)
      <3>1. /\ ptyCall' = [ptyCall EXCEPT ![c] = NoPtyCall] /\ ptys' = ptys \ {id}
            /\ UNCHANGED <<ptyNext, ptyPending, pty, ptyReader, ptyWaiter, ptyLost>>
        BY <2>11, <2>1 DEF RemovePty, PtyReturns
      <3>2. pty[id].status # "running"
        BY <2>11, <2>1, <1>a DEF RemovePty, AtPtyStep, PtyKnown
      <3> QED BY <3>1, <3>2, <2>3, <1>b, <1>c, PtyCallKeeps
    <2> QED BY <1>2, <2>5, <2>6, <2>7, <2>8, <2>9, <2>10, <2>11 DEF SessionArc, AtPtyStep, PtyUse
  <1>3. CASE ~(\E id \in PtyIds, op \in {"write", "stop", "release"} : SessionArc(c, op, id))
    <2>1. ptyCall[c].step \in PtyUse
      BY <1>3 DEF WriteRefused, BeginPtyWrite, PtyWriteByte, PtyWriteEnds, StopSession, CheckPtyOver,
                  RemovePty, AtPtyStep, PtyUse
    <2> QED BY <2>1, <1>2
  <1> QED BY <1>1, <1>3

-----------------------------------------------------------------------------
(* A start opens the terminal, spawns the child, gives up or launches the  *)
(* session.                                                                *)
LEMMA PtyStartKeeps ==
    ASSUME PtyInv, NEW c \in PtyStarting, NEW id, id = ptyCall[c].id, ptyCall[c].step # "launched",
           NEW step \in {"spawned", "give_up", "launched"}, PtyGoTo(c, step),
           NEW r \in PtyRecs, pty' = [pty EXCEPT ![id] = r], UNCHANGED ptyRegistry,
           ptyReader' \in [PtyIds -> {"none", "reading", "appending", "reporting", "ended"}],
           ptyWaiter' = ptyWaiter \/ (step = "launched" /\ ptyWaiter' = [ptyWaiter EXCEPT ![id] = "polling"]),
           ptyLost \subseteq ptyLost', ptyLost' \subseteq PtyIds,
           r.status = "none" <=> step # "launched",
           step = "launched" => r.status = "running" /\ r.held,
           step \in {"spawned", "launched"} => r.child # "none",
           step = "give_up" => r.child # "alive" \/ id \in ptyLost'
    PROVE  PtyInv'
  <1>a. /\ PtyTypeOK /\ PtySlots /\ PtyStarts /\ PtyKnown /\ PtyOwned
        /\ pty \in [PtyIds -> PtyRecs] /\ ptyCall \in [PtyClients -> PtyCalls]
        /\ ptyNext \in Nat /\ ptys \subseteq PtyIds /\ ptyLost \subseteq PtyIds
    BY PtyParts
  <1>b. /\ c \in PtyClients /\ id \in PtyIds /\ id < ptyNext /\ id \notin ptys /\ pty[id].status = "none"
    BY <1>a DEF PtyStarts, PtyStarting
  <1>c. /\ ptyCall' \in [PtyClients -> PtyCalls] /\ ptyCall'[c].step = step /\ ptyCall'[c].id = id
        /\ \A d \in PtyClients : d # c => ptyCall'[d] = ptyCall[d]
    <2> DEFINE k == [ptyCall[c] EXCEPT !.step = step]
    <2>1. k \in PtyCalls /\ k.step = step /\ k.id = id
      BY <1>a, <1>b DEF PtyCalls, PtyCallSteps, PtyStart
    <2>2. ptyCall' = [ptyCall EXCEPT ![c] = k]
      BY DEF PtyGoTo
    <2> HIDE DEF k
    <2> QED BY <2>1, <2>2, <1>a, <1>b
  <1>d. PtyStarting' = PtyStarting /\ \A d \in PtyStarting : ptyCall'[d].id = ptyCall[d].id /\ d \in PtyClients
    BY <1>b, <1>c DEF PtyStarting, PtyStart
  <1>e. \A d \in PtyStarting : ptyCall[d].id = id => d = c
    BY <1>a DEF PtyStarts
  <1>f. pty'[id] = r /\ pty' \in [PtyIds -> PtyRecs] /\ \A j \in PtyIds : j # id => pty'[j] = pty[j]
    BY <1>a, <1>b
  <1>g. UNCHANGED <<ptyNext, ptyPending, ptys>>
    BY DEF ptyRegistry
  <1>h. /\ ptyWaiter[id] = "none"
        /\ ptyWaiter' \in [PtyIds -> {"none", "polling", "exited", "wait_failed", "ended"}]
        /\ \A j \in PtyIds : j # id => ptyWaiter'[j] = ptyWaiter[j]
        /\ ptyWaiter'[id] = "none" \/ (ptyWaiter'[id] = "polling" /\ step = "launched")
    <2>1. ptyWaiter \in [PtyIds -> {"none", "polling", "exited", "wait_failed", "ended"}]
      BY <1>a DEF PtyTypeOK
    <2>2. ptyWaiter[id] = "none"
      BY <1>a, <1>b DEF PtyKnown
    <2> QED BY <2>1, <2>2, <1>b
  <1>i. \A d \in PtyClients : ptyCall'[d].step \in PtyUse =>
            /\ ptyCall'[d] = ptyCall[d] /\ ptyCall[d].id \in PtyIds /\ ptyCall[d].id # id
            /\ pty[ptyCall[d].id].status # "none"
    <2>1. step \notin PtyUse
      BY DEF PtyUse
    <2> QED BY <2>1, <1>a, <1>b, <1>c DEF PtyKnown
  <1>1. PtyTypeOK'
    BY <1>a, <1>c, <1>f, <1>g, <1>h DEF PtyTypeOK, PtyRecs, PtyCalls
  <1>2. PtySlots'
    BY <1>a, <1>d, <1>g DEF PtySlots
  <1>3. PtyStarts'
    <2>1. \A j \in PtyIds : j >= ptyNext => pty'[j].status = "none" /\ pty'[j].child = "none"
      <3>1. \A j \in PtyIds : j >= ptyNext => j # id
        BY <1>a, <1>b DEF PtyIds
      <3> QED BY <3>1, <1>a, <1>f DEF PtyStarts
    <2>2. ASSUME NEW d \in PtyStarting
          PROVE  /\ ptyCall'[d].id \in PtyIds /\ ptyCall'[d].id < ptyNext /\ ptyCall'[d].id \notin ptys
                 /\ pty'[ptyCall'[d].id].status = "none" <=> ptyCall'[d].step # "launched"
                 /\ ptyCall'[d].step = "opening" => pty'[ptyCall'[d].id].child = "none"
                 /\ ptyCall'[d].step = "spawned" => pty'[ptyCall'[d].id].child # "none"
                 /\ ptyCall'[d].step = "give_up" =>
                       pty'[ptyCall'[d].id].child # "alive" \/ ptyCall'[d].id \in ptyLost'
      <3>1. CASE d = c
        BY <3>1, <1>b, <1>c, <1>f
      <3>2. CASE d # c
        <4>1. ptyCall'[d] = ptyCall[d] /\ ptyCall[d].id # id /\ ptyCall[d].id \in PtyIds
          BY <3>2, <1>a, <1>c, <1>d, <1>e DEF PtyStarts
        <4> QED BY <4>1, <1>a, <1>f DEF PtyStarts
      <3> QED BY <3>1, <3>2
    <2> QED BY <2>1, <2>2, <1>a, <1>d, <1>g DEF PtyStarts
  <1>4. PtyKnown'
    <2>1. \A j \in ptys' : pty'[j].status # "none"
      BY <1>a, <1>b, <1>f, <1>g DEF PtyKnown
    <2>2. \A j \in PtyIds : ptyWaiter'[j] # "none" => pty'[j].status # "none"
      BY <1>a, <1>b, <1>f, <1>h DEF PtyKnown
    <2>3. \A j \in PtyIds : pty'[j].status = "none" \/ pty'[j].child # "none"
      BY <1>a, <1>b, <1>f DEF PtyKnown
    <2>4. \A d \in PtyClients :
             /\ ptyCall'[d].step \in PtyUse => ptyCall'[d].id \in PtyIds /\ pty'[ptyCall'[d].id].status # "none"
             /\ ptyCall'[d].step = "remove" => pty'[ptyCall'[d].id].status # "running"
      <3>1. "remove" \in PtyUse
        BY DEF PtyUse
      <3> QED BY <3>1, <1>a, <1>f, <1>i DEF PtyKnown
    <2> QED BY <2>1, <2>2, <2>3, <2>4 DEF PtyKnown
  <1>5. PtyOwned'
    <2> SUFFICES ASSUME NEW j \in PtyIds
                 PROVE  /\ ptyWaiter'[j] = "exited" => pty'[j].child = "dead"
                        /\ pty'[j].child = "alive" /\ j \notin ptyLost' =>
                              \/ \E d \in PtyStarting : ptyCall'[d].id = j /\ ptyCall'[d].step = "spawned"
                              \/ /\ pty'[j].status = "running" /\ pty'[j].held
                                 /\ j \in ptys \/ \E d \in PtyStarting : ptyCall'[d].id = j
      BY <1>d, <1>g DEF PtyOwned
    <2>1. CASE j = id
      BY <2>1, <1>c, <1>f, <1>h
    <2>2. CASE j # id
      <3>1. pty'[j] = pty[j] /\ ptyWaiter'[j] = ptyWaiter[j]
        BY <2>2, <1>f, <1>h
      <3>2. \A d \in PtyStarting : ptyCall[d].id = j => ptyCall'[d] = ptyCall[d]
        BY <2>2, <1>c, <1>d
      <3> QED BY <3>1, <3>2, <1>a DEF PtyOwned
    <2> QED BY <2>1, <2>2
  <1> QED BY <1>1, <1>2, <1>3, <1>4, <1>5 DEF PtyInv

(* A start ends: its slot is given back, or its session is retained.       *)
LEMMA PtyStartEnds ==
    ASSUME PtyInv, NEW c \in PtyClients, PtyReleasePendingStart(c) \/ FinishSessionStart(c)
    PROVE  PtyInv'
  <1>a. /\ PtyTypeOK /\ PtySlots /\ PtyStarts /\ PtyKnown /\ PtyOwned
        /\ pty \in [PtyIds -> PtyRecs] /\ ptyCall \in [PtyClients -> PtyCalls]
        /\ ptyNext \in Nat /\ ptys \subseteq PtyIds /\ ptyLost \subseteq PtyIds
    BY PtyParts
  <1>b. /\ c \in PtyStarting /\ ptyCall' = [ptyCall EXCEPT ![c] = NoPtyCall]
        /\ ptyPending' = IF ptyPending = 0 THEN 0 ELSE ptyPending - 1
        /\ UNCHANGED <<ptyNext, pty, ptyReader, ptyWaiter, ptyLost>>
    BY DEF PtyReleasePendingStart, FinishSessionStart, AtPtyStep, PtyStarting, PtyStart, PtyReturns
  <1>c. PICK id \in PtyIds : id = ptyCall[c].id /\ id < ptyNext /\ id \notin ptys
    BY <1>a, <1>b DEF PtyStarts
  <1>d. /\ \/ ptyCall[c].step = "give_up" /\ ptys' = ptys /\ (pty[id].child # "alive" \/ id \in ptyLost)
           \/ ptyCall[c].step = "launched" /\ ptys' = ptys \cup {id} /\ pty[id].status # "none"
    <2>1. CASE PtyReleasePendingStart(c)
      BY <2>1, <1>a, <1>b, <1>c DEF PtyReleasePendingStart, AtPtyStep, PtyStarts
    <2>2. CASE FinishSessionStart(c)
      BY <2>2, <1>a, <1>b, <1>c DEF FinishSessionStart, AtPtyStep, PtyStarts
    <2> QED BY <2>1, <2>2
  <1>e. /\ ptyCall' \in [PtyClients -> PtyCalls] /\ ptyCall'[c].step = "idle"
        /\ \A d \in PtyClients : d # c => ptyCall'[d] = ptyCall[d]
    BY <1>a, <1>b, NoPtyCallType
  <1>f. /\ PtyStarting' = PtyStarting \ {c}
        /\ \A d \in PtyStarting' : d \in PtyClients /\ d # c /\ ptyCall'[d] = ptyCall[d] /\ ptyCall[d].id # id
    <2>1. PtyStarting' = PtyStarting \ {c}
      BY <1>e DEF PtyStarting, PtyStart
    <2>2. \A d \in PtyStarting : ptyCall[d].id = id => d = c
      BY <1>a, <1>b, <1>c DEF PtyStarts
    <2> QED BY <2>1, <2>2, <1>e DEF PtyStarting
  <1>g. ptys \subseteq ptys' /\ ptys' \subseteq PtyIds /\ \A j \in ptys' : j \in ptys \/ j = id
    BY <1>a, <1>c, <1>d
  <1>h. ptyPending' = ptyPending - 1 /\ ptyPending' \in Nat /\ Cardinality(PtyStarting') = ptyPending'
    <2>1. IsFiniteSet(PtyStarting) /\ Cardinality(PtyStarting) = ptyPending /\ ptyPending \in Nat
      BY <1>a, PtyFinite DEF PtySlots
    <2>2. Cardinality(PtyStarting \ {c}) = ptyPending - 1 /\ IsFiniteSet(PtyStarting \ {c})
      BY <2>1, <1>b, FS_RemoveElement
    <2>3. Cardinality(PtyStarting \ {c}) \in Nat
      BY <2>2, FS_CardinalityType
    <2> QED BY <2>1, <2>2, <2>3, <1>b, <1>f
  <1>1. PtyTypeOK'
    BY <1>a, <1>b, <1>e, <1>g, <1>h DEF PtyTypeOK, PtyCalls
  <1>2. PtySlots'
    <2>1. Cardinality(ptys') <= Cardinality(ptys) + 1 /\ Cardinality(ptys') \in Nat
      <3>1. IsFiniteSet(ptys) /\ Cardinality(ptys) \in Nat
        BY <1>a, PtyFinite
      <3>2. CASE ptys' = ptys
        BY <3>1, <3>2
      <3>3. CASE ptys' = ptys \cup {id}
        <4>1. Cardinality(ptys \cup {id}) = Cardinality(ptys) + 1
          BY <3>1, <1>c, FS_AddElement
        <4> QED BY <4>1, <3>1, <3>3
      <3> QED BY <3>2, <3>3, <1>d
    <2>2. Cardinality(ptys) + ptyPending <= MaxRetainedPtys /\ ptyPending \in Nat /\ Cardinality(ptys) \in Nat
          /\ MaxRetainedPtys \in Nat
      BY <1>a, PtyFinite DEF PtySlots, PtyTypeOK
    <2>3. Cardinality(ptys') + ptyPending' <= MaxRetainedPtys
      BY <2>1, <2>2, <1>h
    <2> QED BY <2>3, <1>h DEF PtySlots
  <1>3. PtyStarts'
    <2>1. \A j \in ptys' : j < ptyNext
      BY <1>a, <1>c, <1>g DEF PtyStarts
    <2>2. \A d \in PtyStarting' : ptyCall[d].id \notin ptys'
      BY <1>a, <1>f, <1>g DEF PtyStarts
    <2> QED BY <2>1, <2>2, <1>a, <1>b, <1>f DEF PtyStarts
  <1>4. PtyKnown'
    <2>1. \A j \in ptys' : pty[j].status # "none"
      BY <1>a, <1>d, <1>g DEF PtyKnown
    <2>2. "idle" \notin PtyUse
      BY DEF PtyUse
    <2>3. \A d \in PtyClients :
             /\ ptyCall'[d].step \in PtyUse => ptyCall'[d].id \in PtyIds /\ pty[ptyCall'[d].id].status # "none"
             /\ ptyCall'[d].step = "remove" => pty[ptyCall'[d].id].status # "running"
      BY <2>2, <1>a, <1>e DEF PtyKnown
    <2> QED BY <2>1, <2>3, <1>a, <1>b DEF PtyKnown
  <1>5. PtyOwned'
    <2> SUFFICES ASSUME NEW j \in PtyIds
                 PROVE  /\ ptyWaiter[j] = "exited" => pty[j].child = "dead"
                        /\ pty[j].child = "alive" /\ j \notin ptyLost =>
                              \/ \E d \in PtyStarting' : ptyCall'[d].id = j /\ ptyCall'[d].step = "spawned"
                              \/ /\ pty[j].status = "running" /\ pty[j].held
                                 /\ j \in ptys' \/ \E d \in PtyStarting' : ptyCall'[d].id = j
      BY <1>b DEF PtyOwned
    <2>1. CASE j = id
      <3>1. \A d \in PtyStarting : ptyCall[d].id = id => d = c
        BY <1>a, <1>b, <1>c DEF PtyStarts
      <3> QED BY <2>1, <3>1, <1>a, <1>d DEF PtyOwned
    <2>2. CASE j # id
      <3>1. \A d \in PtyStarting : ptyCall[d].id = j => d \in PtyStarting' /\ ptyCall'[d] = ptyCall[d]
        BY <2>2, <1>c, <1>f
      <3> QED BY <3>1, <1>a, <1>g DEF PtyOwned
    <2> QED BY <2>1, <2>2
  <1> QED BY <1>1, <1>2, <1>3, <1>4, <1>5 DEF PtyInv

(* A start reserves a slot and a fresh id.                                 *)
LEMMA PtyReserveKeeps ==
    ASSUME PtyInv, NEW c \in PtyClients, ReserveSessionSlot(c)
    PROVE  PtyInv'
  <1>a. /\ PtyTypeOK /\ PtySlots /\ PtyStarts /\ PtyKnown /\ PtyOwned
        /\ pty \in [PtyIds -> PtyRecs] /\ ptyCall \in [PtyClients -> PtyCalls]
        /\ ptyNext \in Nat /\ ptys \subseteq PtyIds /\ ptyLost \subseteq PtyIds
    BY PtyParts
  <1>b. /\ ptyCall[c].step = "idle" /\ ptyNext \in PtyIds /\ Cardinality(ptys) + ptyPending < MaxRetainedPtys
        /\ ptyNext' = ptyNext + 1 /\ ptyPending' = ptyPending + 1
        /\ ptyCall' = [ptyCall EXCEPT ![c] = [step |-> "opening", id |-> ptyNext, left |-> 0]]
        /\ UNCHANGED <<ptys, pty, ptyReader, ptyWaiter, ptyLost>>
    BY DEF ReserveSessionSlot, AtPtyStep, PtySlotAvailable
  <1>c. /\ ptyCall' \in [PtyClients -> PtyCalls] /\ ptyCall'[c].step = "opening" /\ ptyCall'[c].id = ptyNext
        /\ \A d \in PtyClients : d # c => ptyCall'[d] = ptyCall[d]
    <2> DEFINE k == [step |-> "opening", id |-> ptyNext, left |-> 0]
    <2>1. k \in PtyCalls /\ k.step = "opening" /\ k.id = ptyNext
      BY <1>a DEF PtyCalls, PtyCallSteps, PtyStart
    <2>2. ptyCall' = [ptyCall EXCEPT ![c] = k]
      BY <1>b
    <2> HIDE DEF k
    <2> QED BY <2>1, <2>2, <1>a
  <1>d. /\ PtyStarting' = PtyStarting \cup {c} /\ c \notin PtyStarting
        /\ \A d \in PtyStarting : d \in PtyClients /\ d # c /\ ptyCall'[d] = ptyCall[d]
    BY <1>b, <1>c DEF PtyStarting, PtyStart
  <1>e. pty[ptyNext].status = "none" /\ pty[ptyNext].child = "none" /\ ptyNext \notin ptys
    BY <1>a, <1>b DEF PtyStarts
  <1>f. \A d \in PtyStarting : ptyCall[d].id \in PtyIds /\ ptyCall[d].id \in Nat /\ ptyCall[d].id < ptyNext
    <2>1. \A d \in PtyStarting : ptyCall[d].id \in PtyIds /\ ptyCall[d].id < ptyNext
      BY <1>a DEF PtyStarts
    <2>2. \A j \in PtyIds : j \in Nat
      BY PtyAssumption DEF PtyIds
    <2> QED BY <2>1, <2>2
  <1>g. \A j \in PtyIds : j \in Nat
    BY PtyAssumption DEF PtyIds
  <1>1. PtyTypeOK'
    <2>1. ptyNext + 1 \in 0 .. MaxSessions /\ ptyPending + 1 \in Nat
      BY <1>a, <1>b, PtyAssumption DEF PtyIds, PtyTypeOK
    <2> QED BY <2>1, <1>a, <1>b, <1>c DEF PtyTypeOK, PtyCalls
  <1>2. PtySlots'
    <2>1. IsFiniteSet(PtyStarting) /\ Cardinality(PtyStarting) = ptyPending /\ ptyPending \in Nat
          /\ Cardinality(ptys) \in Nat /\ MaxRetainedPtys \in Nat
      BY <1>a, PtyFinite DEF PtySlots
    <2>2. Cardinality(PtyStarting \cup {c}) = ptyPending + 1
      BY <2>1, <1>d, FS_AddElement
    <2>3. Cardinality(ptys) + (ptyPending + 1) <= MaxRetainedPtys
      BY <2>1, <1>b
    <2> QED BY <2>2, <2>3, <1>b, <1>d DEF PtySlots
  <1>3. PtyStarts'
    <2>1. /\ \A j \in PtyIds : j >= ptyNext + 1 => pty[j].status = "none" /\ pty[j].child = "none"
          /\ \A j \in ptys : j < ptyNext + 1
      <3>1. \A j \in PtyIds : (j >= ptyNext + 1 => j >= ptyNext) /\ (j < ptyNext => j < ptyNext + 1)
        BY <1>a, <1>g
      <3> QED BY <3>1, <1>a DEF PtyStarts
    <2>2. ASSUME NEW d \in PtyStarting'
          PROVE  /\ ptyCall'[d].id \in PtyIds /\ ptyCall'[d].id < ptyNext + 1 /\ ptyCall'[d].id \notin ptys
                 /\ pty[ptyCall'[d].id].status = "none" <=> ptyCall'[d].step # "launched"
                 /\ ptyCall'[d].step = "opening" => pty[ptyCall'[d].id].child = "none"
                 /\ ptyCall'[d].step = "spawned" => pty[ptyCall'[d].id].child # "none"
                 /\ ptyCall'[d].step = "give_up" =>
                       pty[ptyCall'[d].id].child # "alive" \/ ptyCall'[d].id \in ptyLost
      <3>1. CASE d = c
        BY <3>1, <1>a, <1>b, <1>c, <1>e
      <3>2. CASE d # c
        <4>1. d \in PtyStarting /\ ptyCall'[d] = ptyCall[d]
          BY <3>2, <1>d
        <4>2. ptyCall[d].id < ptyNext + 1
          BY <4>1, <1>a, <1>f
        <4> QED BY <4>1, <4>2, <1>a DEF PtyStarts
      <3> QED BY <3>1, <3>2
    <2>3. ASSUME NEW d \in PtyStarting', NEW e \in PtyStarting', ptyCall'[d].id = ptyCall'[e].id
          PROVE  d = e
      <3>1. \A x \in PtyStarting : ptyCall'[x].id = ptyCall[x].id /\ ptyCall[x].id # ptyNext
        BY <1>a, <1>d, <1>f
      <3>2. CASE d # c /\ e # c
        BY <3>1, <3>2, <2>3, <1>a, <1>d DEF PtyStarts
      <3>3. CASE d = c \/ e = c
        BY <3>1, <3>3, <2>3, <1>c, <1>d
      <3> QED BY <3>2, <3>3
    <2> QED BY <2>1, <2>2, <2>3, <1>b DEF PtyStarts
  <1>4. PtyKnown'
    <2>1. "opening" \notin PtyUse
      BY DEF PtyUse
    <2>2. \A d \in PtyClients :
             /\ ptyCall'[d].step \in PtyUse => ptyCall'[d].id \in PtyIds /\ pty[ptyCall'[d].id].status # "none"
             /\ ptyCall'[d].step = "remove" => pty[ptyCall'[d].id].status # "running"
      BY <2>1, <1>a, <1>c DEF PtyKnown
    <2> QED BY <2>2, <1>a, <1>b DEF PtyKnown
  <1>5. PtyOwned'
    BY <1>a, <1>b, <1>d DEF PtyOwned
  <1> QED BY <1>1, <1>2, <1>3, <1>4, <1>5 DEF PtyInv

(* The steps of a start that stay in it.                                   *)
LEMMA PtyLaunchKeeps ==
    ASSUME PtyInv, NEW c \in PtyClients,
           OpenPtyFails(c) \/ SpawnCommand(c) \/ CloneReaderFails(c) \/ LaunchSession(c)
    PROVE  PtyInv'
  <1>a. /\ PtyTypeOK /\ PtyStarts /\ pty \in [PtyIds -> PtyRecs] /\ ptyLost \subseteq PtyIds
        /\ ptyReader \in [PtyIds -> {"none", "reading", "appending", "reporting", "ended"}]
    BY PtyParts DEF PtyTypeOK
  <1>b. c \in PtyStarting /\ ptyCall[c].step \in {"opening", "spawned"} /\ UNCHANGED ptyRegistry
    BY DEF OpenPtyFails, SpawnCommand, CloneReaderFails, LaunchSession, AtPtyStep, PtyStarting, PtyStart
  <1>c. PICK id \in PtyIds :
          /\ id = ptyCall[c].id /\ pty[id].status = "none"
          /\ ptyCall[c].step = "opening" => pty[id].child = "none"
          /\ ptyCall[c].step = "spawned" => pty[id].child # "none"
    BY <1>a, <1>b DEF PtyStarts
  <1>d. PICK s \in PtyRecs : s = pty[id]
    BY <1>a, <1>c
  <1>1. CASE OpenPtyFails(c)
    <2>1. /\ PtyGoTo(c, "give_up") /\ UNCHANGED <<ptyReader, ptyWaiter, ptyLost>>
          /\ pty' = [pty EXCEPT ![id] = s] /\ s.status = "none" /\ s.child = "none"
      BY <1>1, <1>a, <1>c, <1>d DEF OpenPtyFails, AtPtyStep
    <2> QED BY <2>1, <1>a, <1>b, <1>c, PtyStartKeeps
  <1>2. CASE SpawnCommand(c)
    <2> DEFINE r == [s EXCEPT !.child = "alive"]
    <2>1. r \in PtyRecs /\ r.status = "none" /\ r.child = "alive"
      BY <1>c, <1>d DEF PtyRecs
    <2>2. /\ PtyGoTo(c, "spawned") /\ UNCHANGED <<ptyReader, ptyWaiter, ptyLost>>
          /\ pty' = [pty EXCEPT ![id] = r]
      BY <1>2, <1>c, <1>d DEF SpawnCommand
    <2> HIDE DEF r
    <2> QED BY <2>1, <2>2, <1>a, <1>b, <1>c, PtyStartKeeps
  <1>3. CASE CloneReaderFails(c)
    <2>1. PtyGoTo(c, "give_up") /\ UNCHANGED <<ptyReader, ptyWaiter>>
      BY <1>3 DEF CloneReaderFails
    <2>2. CASE pty' = [pty EXCEPT ![id].child = "dead"] /\ UNCHANGED ptyLost
      <3> DEFINE r == [s EXCEPT !.child = "dead"]
      <3>1. r \in PtyRecs /\ r.status = "none" /\ r.child = "dead"
        BY <1>c, <1>d DEF PtyRecs
      <3>2. pty' = [pty EXCEPT ![id] = r]
        BY <2>2, <1>c, <1>d
      <3> HIDE DEF r
      <3>3. ptyLost \subseteq ptyLost' /\ ptyLost' \subseteq PtyIds /\ ptyWaiter' = ptyWaiter
            /\ ptyReader' \in [PtyIds -> {"none", "reading", "appending", "reporting", "ended"}]
        BY <2>1, <2>2, <1>a
      <3> QED BY <2>1, <3>1, <3>2, <3>3, <1>b, <1>c, PtyStartKeeps
    <2>3. CASE ptyLost' = ptyLost \cup {id} /\ UNCHANGED pty
      <3>1. pty' = [pty EXCEPT ![id] = s] /\ s.status = "none"
        BY <2>3, <1>a, <1>c, <1>d
      <3>2. ptyLost \subseteq ptyLost' /\ ptyLost' \subseteq PtyIds /\ id \in ptyLost' /\ ptyWaiter' = ptyWaiter
            /\ ptyReader' \in [PtyIds -> {"none", "reading", "appending", "reporting", "ended"}]
        BY <2>1, <2>3, <1>a
      <3> QED BY <2>1, <3>1, <3>2, <1>b, <1>c, PtyStartKeeps
    <2> QED BY <1>3, <1>c, <2>2, <2>3 DEF CloneReaderFails
  <1>4. CASE LaunchSession(c)
    <2> DEFINE r == [s EXCEPT !.status = "running", !.writer = TRUE, !.held = TRUE]
    <2>1. r \in PtyRecs /\ r.status = "running" /\ r.held /\ r.child = s.child
      BY DEF PtyRecs, PtyStatuses
    <2>2. /\ PtyGoTo(c, "launched") /\ UNCHANGED ptyLost /\ ptyCall[c].step = "spawned"
          /\ pty' = [pty EXCEPT ![id] = r]
          /\ ptyReader' = [ptyReader EXCEPT ![id] = "reading"]
          /\ ptyWaiter' = [ptyWaiter EXCEPT ![id] = "polling"]
      BY <1>4, <1>c, <1>d DEF LaunchSession, AtPtyStep
    <2> HIDE DEF r
    <2>3. ptyReader' \in [PtyIds -> {"none", "reading", "appending", "reporting", "ended"}]
      BY <2>2, <1>a
    <2>4. r.child # "none"
      BY <2>1, <2>2, <1>c, <1>d
    <2> QED BY <2>1, <2>2, <2>3, <2>4, <1>a, <1>b, <1>c, PtyStartKeeps
  <1> QED BY <1>1, <1>2, <1>3, <1>4

(* Every step keeps the invariant.                                         *)
LEMMA PtyStep == PtyInv /\ [PtyNext]_ptyVars => PtyInv'
  <1> SUFFICES ASSUME PtyInv, [PtyNext]_ptyVars PROVE PtyInv'
    OBVIOUS
  <1>1. ASSUME NEW c \in PtyClients, PtyClientCalls(c) \/ PtyClientProceeds(c) PROVE PtyInv'
    BY <1>1, PtyReserveKeeps, PtyLaunchKeeps, PtyStartEnds, PtyUseKeeps DEF PtyClientCalls, PtyClientProceeds
  <1>2. ASSUME NEW id \in PtyIds,
               \/ PtyReaderThread(id) \/ PtyWaiterThread(id)
               \/ PtyChildReads(id) \/ ChildPrints(id) \/ PtyChildExits(id)
        PROVE  PtyInv'
    BY <1>2, PtyReaderKeeps, PtyWaiterKeeps, PtyChildKeeps
  <1>3. CASE UNCHANGED ptyVars
    BY <1>3 DEF ptyVars, PtyInv, PtyTypeOK, PtySlots, PtyStarts, PtyKnown, PtyOwned, PtyStarting
  <1> QED BY <1>1, <1>2, <1>3 DEF PtyNext

(* No session of the PTY registry slips away: the pending starts are the   *)
(* ones threads are in, the limit covers starts and sessions, and a living *)
(* child belongs to a running session that the registry still has, or to a *)
(* start, unless killing or waiting for it failed.                         *)
THEOREM PtysAreAccounted == PtySpec => []PtysAccounted
  <1>1. PtyInv => PtysAccounted
    <2> SUFFICES ASSUME PtyInv PROVE PtysAccounted
      OBVIOUS
    <2>1. PtySlots /\ PtyOwned
      BY DEF PtyInv
    <2> QED BY <2>1 DEF PtySlots, PtyOwned, PtysAccounted
  <1> QED BY InitPtys, PtyStep, <1>1, PTL DEF PtySpec

(* The ids of the starts in progress.                                      *)
PtyReserved == {ptyCall[c].id : c \in PtyStarting}

(* The two modules count alike.                                            *)
LEMMA PtysCountAlike == \A S : RetainedPtys!Cardinality(S) = Cardinality(S)
  BY DEF RetainedPtys!Cardinality, Cardinality

(* No more ids are reserved than threads are in a start.                   *)
LEMMA PtyReservedFit ==
    ASSUME PtyTypeOK
    PROVE  /\ IsFiniteSet(PtyReserved) /\ Cardinality(PtyReserved) \in Nat
           /\ Cardinality(PtyReserved) <= Cardinality(PtyStarting)
  <1>1. IsFiniteSet(PtyStarting)
    BY PtyFinite
  <1> DEFINE f == [c \in PtyStarting |-> ptyCall[c].id]
  <1>2. f \in Surjection(PtyStarting, PtyReserved)
    BY DEF Surjection, PtyReserved
  <1>3. IsFiniteSet(PtyReserved) /\ Cardinality(PtyReserved) <= Cardinality(PtyStarting)
    <2> HIDE DEF f
    <2> QED BY <1>1, <1>2, FS_Surjection
  <1> QED BY <1>3, FS_CardinalityType

(* A client that stays in its start, or outside of one, reserves nothing   *)
(* new.                                                                    *)
LEMMA PtyReservedStays ==
    ASSUME PtyInv, NEW c \in PtyClients, NEW k \in PtyCalls, ptyCall' = [ptyCall EXCEPT ![c] = k],
           \/ ptyCall[c].step \notin PtyStart /\ k.step \notin PtyStart
           \/ ptyCall[c].step \in PtyStart /\ k.step \in PtyStart /\ k.id = ptyCall[c].id
    PROVE  PtyReserved' = PtyReserved
  <1>1. ptyCall \in [PtyClients -> PtyCalls]
    BY PtyParts
  <1>2. ptyCall'[c] = k /\ \A d \in PtyClients : d # c => ptyCall'[d] = ptyCall[d]
    BY <1>1
  <1>3. PtyStarting' = PtyStarting
    BY <1>2 DEF PtyStarting
  <1>4. \A d \in PtyStarting : ptyCall'[d].id = ptyCall[d].id
    BY <1>2 DEF PtyStarting
  <1> QED BY <1>3, <1>4 DEF PtyReserved

(* reserve_session_slot is a Reserve.                                      *)
LEMMA PtyReserveRefines ==
    ASSUME PtyInv, NEW c \in PtyClients, ReserveSessionSlot(c)
    PROVE  RetainedPtys!Reserve
  <1>a. /\ PtySlots /\ ptyCall \in [PtyClients -> PtyCalls] /\ PtyTypeOK /\ ptyNext \in Nat
    BY PtyParts
  <1> DEFINE k == [step |-> "opening", id |-> ptyNext, left |-> 0]
  <1>1. /\ ptyCall[c].step = "idle" /\ ptyNext \in PtyIds /\ PtySlotAvailable
        /\ ptyNext' = ptyNext + 1 /\ UNCHANGED ptys
        /\ ptyCall' = [ptyCall EXCEPT ![c] = k]
    BY DEF ReserveSessionSlot, AtPtyStep
  <1>2. /\ ptyCall'[c].step = "opening" /\ ptyCall'[c].id = ptyNext
        /\ \A d \in PtyClients : d # c => ptyCall'[d] = ptyCall[d]
    BY <1>1, <1>a
  <1>3. PtyStarting' = PtyStarting \cup {c} /\ c \notin PtyStarting
    BY <1>1, <1>2 DEF PtyStarting, PtyStart
  <1>4. PtyReserved' = PtyReserved \cup {ptyNext}
    <2>1. \A d \in PtyStarting : ptyCall'[d].id = ptyCall[d].id
      BY <1>2, <1>3 DEF PtyStarting
    <2> QED BY <2>1, <1>2, <1>3 DEF PtyReserved
  <1>5. Cardinality(PtyReserved) + Cardinality(ptys) < MaxRetainedPtys
    <2>1. Cardinality(PtyReserved) \in Nat /\ Cardinality(PtyReserved) <= Cardinality(PtyStarting)
      BY <1>a, PtyReservedFit
    <2>2. Cardinality(PtyStarting) \in Nat /\ Cardinality(ptys) \in Nat /\ MaxRetainedPtys \in Nat
      BY <1>a, PtyFinite
    <2>3. Cardinality(ptys) + Cardinality(PtyStarting) < MaxRetainedPtys
      BY <1>a, <1>1 DEF PtySlots, PtySlotAvailable
    <2> QED BY <2>1, <2>2, <2>3
  <1> QED BY <1>1, <1>4, <1>5, PtysCountAlike DEF RetainedPtys!Reserve, RetainedPtys!Ids, PtyReserved, PtyIds

(* The end of a start, with or without a session.                          *)
LEMMA PtyStartEndRefines ==
    ASSUME PtyInv, NEW c \in PtyClients, ptyCall[c].step \in PtyStart,
           ptyCall' = [ptyCall EXCEPT ![c] = NoPtyCall]
    PROVE  /\ ptyCall[c].id \in PtyReserved /\ ptyCall[c].id \in PtyIds
           /\ PtyReserved' = PtyReserved \ {ptyCall[c].id}
  <1>a. ptyCall \in [PtyClients -> PtyCalls] /\ PtyStarts
    BY PtyParts
  <1>1. /\ ptyCall'[c].step = "idle"
        /\ \A d \in PtyClients : d # c => ptyCall'[d] = ptyCall[d]
    BY <1>a, NoPtyCallType
  <1>2. PtyStarting' = PtyStarting \ {c} /\ c \in PtyStarting
    BY <1>1 DEF PtyStarting, PtyStart
  <1>3. \A d \in PtyStarting : d # c => ptyCall[d].id # ptyCall[c].id /\ ptyCall'[d].id = ptyCall[d].id
    BY <1>a, <1>1, <1>2 DEF PtyStarts, PtyStarting
  <1> QED BY <1>2, <1>3, <1>a DEF PtyReserved, PtyStarts

(* What a client does is a step of the abstract registry, or none.         *)
LEMMA PtyClientRefines ==
    ASSUME PtyInv, NEW c \in PtyClients, PtyClientCalls(c) \/ PtyClientProceeds(c)
    PROVE  [RetainedPtys!Next]_(RetainedPtys!vars)
  <1>a. ptyCall \in [PtyClients -> PtyCalls] /\ ptyCall[c] \in PtyCalls /\ PtyKnown
    BY PtyParts
  <1>b. ASSUME UNCHANGED <<ptyNext, ptys>>, PtyReserved' = PtyReserved
        PROVE  UNCHANGED RetainedPtys!vars
    BY <1>b DEF RetainedPtys!vars, PtyReserved
  <1>c. ASSUME NEW step \in PtyCallSteps, PtyGoTo(c, step), UNCHANGED <<ptyNext, ptys>>,
               ptyCall[c].step \in PtyStart <=> step \in PtyStart
        PROVE  UNCHANGED RetainedPtys!vars
    <2> DEFINE k == [ptyCall[c] EXCEPT !.step = step]
    <2>1. ptyCall' = [ptyCall EXCEPT ![c] = k] /\ k.step = step /\ k.id = ptyCall[c].id /\ k \in PtyCalls
      BY <1>a, <1>c DEF PtyGoTo, PtyCalls
    <2> HIDE DEF k
    <2> QED BY <2>1, <1>b, <1>c, PtyReservedStays
  <1>d. ASSUME PtyReturns(c), ptyCall[c].step \notin PtyStart
        PROVE  PtyReserved' = PtyReserved
    <2>1. ptyCall' = [ptyCall EXCEPT ![c] = NoPtyCall] /\ NoPtyCall.step \notin PtyStart
      BY <1>d, NoPtyCallType DEF PtyReturns, PtyStart
    <2> QED BY <2>1, <1>d, NoPtyCallType, PtyReservedStays
  <1>1. CASE ReserveSessionSlot(c)
    BY <1>1, PtyReserveRefines DEF RetainedPtys!Next
  <1>2. CASE \E id \in PtyIds, op \in {"write", "stop", "release"} : SessionArc(c, op, id)
    <2>1. PICK id \in PtyIds, op \in {"write", "stop", "release"} : SessionArc(c, op, id)
      BY <1>2
    <2> DEFINE k == [step |-> op, id |-> id, left |-> 0]
    <2>2. ptyCall' = [ptyCall EXCEPT ![c] = k] /\ ptyCall[c].step = "idle" /\ UNCHANGED <<ptyNext, ptys>>
      BY <2>1 DEF SessionArc, AtPtyStep, ptyRegistry
    <2>3. k \in PtyCalls /\ k.step \notin PtyStart
      <3>1. id \in Nat
        BY PtyAssumption DEF PtyIds
      <3> QED BY <3>1 DEF PtyCalls, PtyCallSteps, PtyStart
    <2> HIDE DEF k
    <2>4. PtyReserved' = PtyReserved
      BY <2>2, <2>3, PtyReservedStays DEF PtyStart
    <2> QED BY <2>2, <2>4, <1>b
  <1>3. CASE OpenPtyFails(c) \/ SpawnCommand(c) \/ CloneReaderFails(c) \/ LaunchSession(c)
    <2>1. /\ ptyCall[c].step \in PtyStart /\ UNCHANGED <<ptyNext, ptys>>
          /\ \E step \in PtyStart : PtyGoTo(c, step)
      BY <1>3 DEF OpenPtyFails, SpawnCommand, CloneReaderFails, LaunchSession, AtPtyStep, PtyStart, ptyRegistry
    <2> QED BY <2>1, <1>c DEF PtyCallSteps
  <1>4. CASE PtyReleasePendingStart(c)
    <2>1. /\ ptyCall[c].step \in PtyStart /\ UNCHANGED <<ptyNext, ptys>>
          /\ ptyCall' = [ptyCall EXCEPT ![c] = NoPtyCall]
      BY <1>4 DEF PtyReleasePendingStart, AtPtyStep, PtyStart, PtyReturns
    <2>2. PICK id \in PtyIds : id = ptyCall[c].id
      BY <2>1, PtyStartEndRefines
    <2>3. RetainedPtys!GiveUp(id)
      BY <2>1, <2>2, PtyStartEndRefines DEF RetainedPtys!GiveUp, PtyReserved
    <2> QED BY <2>3 DEF RetainedPtys!Next, RetainedPtys!Ids, PtyIds
  <1>5. CASE FinishSessionStart(c)
    <2>1. /\ ptyCall[c].step \in PtyStart /\ UNCHANGED ptyNext /\ ptys' = ptys \cup {ptyCall[c].id}
          /\ ptyCall' = [ptyCall EXCEPT ![c] = NoPtyCall]
      BY <1>5 DEF FinishSessionStart, AtPtyStep, PtyStart, PtyReturns
    <2>2. PICK id \in PtyIds : id = ptyCall[c].id
      BY <2>1, PtyStartEndRefines
    <2>3. RetainedPtys!Retain(id)
      BY <2>1, <2>2, PtyStartEndRefines DEF RetainedPtys!Retain, PtyReserved
    <2> QED BY <2>3 DEF RetainedPtys!Next, RetainedPtys!Ids, PtyIds
  <1>6. CASE WriteRefused(c) \/ PtyWriteEnds(c) \/ StopSession(c)
    <2>1. ptyCall[c].step \notin PtyStart /\ UNCHANGED <<ptyNext, ptys>> /\ PtyReturns(c)
      BY <1>6 DEF WriteRefused, PtyWriteEnds, StopSession, AtPtyStep, PtyStart, ptyRegistry
    <2> QED BY <2>1, <1>b, <1>d
  <1>7. CASE BeginPtyWrite(c) \/ PtyWriteByte(c)
    <2>1. /\ ptyCall[c].step \in {"write", "writing"} /\ UNCHANGED <<ptyNext, ptys>>
          /\ \E n \in Nat : ptyCall' = [ptyCall EXCEPT ![c] = [@ EXCEPT !.step = "writing", !.left = n]]
      <3>1. CASE BeginPtyWrite(c)
        <4>1. PICK n \in PtyInputs : ptyCall' = [ptyCall EXCEPT ![c].step = "writing", ![c].left = n]
          BY <3>1 DEF BeginPtyWrite
        <4>2. n \in Nat
          BY PtyAssumption
        <4>3. ptyCall' = [ptyCall EXCEPT ![c] = [@ EXCEPT !.step = "writing", !.left = n]]
          BY <4>1, <1>a DEF PtyCalls
        <4> QED BY <3>1, <4>2, <4>3 DEF BeginPtyWrite, AtPtyStep, ptyRegistry
      <3>2. CASE PtyWriteByte(c)
        <4>1. /\ ptyCall' = [ptyCall EXCEPT ![c].left = @ - 1] /\ ptyCall[c].step = "writing"
              /\ ptyCall[c].left > 0 /\ UNCHANGED <<ptyNext, ptys>>
          BY <3>2 DEF PtyWriteByte, AtPtyStep, ptyRegistry
        <4>2. ptyCall[c].left - 1 \in Nat
          BY <4>1, <1>a DEF PtyCalls
        <4>3. ptyCall' = [ptyCall EXCEPT ![c] = [@ EXCEPT !.step = "writing", !.left = ptyCall[c].left - 1]]
          BY <4>1, <1>a DEF PtyCalls
        <4> QED BY <4>1, <4>2, <4>3
      <3> QED BY <3>1, <3>2, <1>7
    <2>2. PICK n \in Nat : ptyCall' = [ptyCall EXCEPT ![c] = [@ EXCEPT !.step = "writing", !.left = n]]
      BY <2>1
    <2> DEFINE k == [ptyCall[c] EXCEPT !.step = "writing", !.left = n]
    <2>3. k \in PtyCalls /\ k.step = "writing" /\ ptyCall' = [ptyCall EXCEPT ![c] = k]
      BY <2>2, <1>a DEF PtyCalls, PtyCallSteps
    <2> HIDE DEF k
    <2>4. PtyReserved' = PtyReserved
      BY <2>1, <2>3, PtyReservedStays DEF PtyStart
    <2> QED BY <2>1, <2>4, <1>b
  <1>8. CASE CheckPtyOver(c)
    <2>1. /\ ptyCall[c].step = "release" /\ UNCHANGED <<ptyNext, ptys>>
          /\ PtyGoTo(c, "remove") \/ PtyReturns(c)
      BY <1>8 DEF CheckPtyOver, AtPtyStep, ptyRegistry
    <2> QED BY <2>1, <1>b, <1>c, <1>d DEF PtyStart, PtyCallSteps
  <1>9. CASE RemovePty(c)
    <2>1. /\ ptyCall[c].step = "remove" /\ PtyReturns(c) /\ UNCHANGED ptyNext
          /\ ptys' = ptys \ {ptyCall[c].id}
      BY <1>9 DEF RemovePty, AtPtyStep
    <2>2. PtyReserved' = PtyReserved
      BY <2>1, <1>d DEF PtyStart
    <2>3. ptyCall[c].id \in PtyIds
      BY <2>1, <1>a DEF PtyKnown, PtyUse
    <2>4. CASE ptyCall[c].id \in ptys
      <3>1. RetainedPtys!Release(ptyCall[c].id)
        BY <2>1, <2>2, <2>4 DEF RetainedPtys!Release, PtyReserved
      <3> QED BY <3>1, <2>3 DEF RetainedPtys!Next, RetainedPtys!Ids, PtyIds
    <2>5. CASE ptyCall[c].id \notin ptys
      <3>1. ptys' = ptys
        BY <2>1, <2>5
      <3> QED BY <3>1, <2>1, <2>2, <1>b
    <2> QED BY <2>4, <2>5
  <1> QED BY <1>1, <1>2, <1>3, <1>4, <1>5, <1>6, <1>7, <1>8, <1>9 DEF PtyClientCalls, PtyClientProceeds

(* Nothing the session's threads and its child do concerns the registry.   *)
LEMMA PtyThreadsRefine ==
    ASSUME NEW id \in PtyIds,
           \/ PtyReaderThread(id) \/ PtyWaiterThread(id)
           \/ PtyChildReads(id) \/ ChildPrints(id) \/ PtyChildExits(id)
    PROVE  UNCHANGED RetainedPtys!vars
  <1>1. UNCHANGED <<ptyNext, ptys, ptyCall>>
    BY DEF PtyReaderThread, PtyRead, PtyAppends, ReportCursor, PtyReaderEnds, PtyWaiterThread, PollChild,
           RecordPtyExit, RecordWaitFailure, PtyChildReads, ChildPrints, PtyChildExits, ptyRegistry
  <1> QED BY <1>1 DEF RetainedPtys!vars, PtyStarting

(* The PTY registry implements RetainedRegistry, whatever the threads of   *)
(* its sessions, failing starts and racing releases interleave             *)
(* (reserve_session_slot, finish_session_start, release_pending_start,     *)
(* release).                                                               *)
THEOREM PtysImplementRetained == PtySpec => PtysRetained
  <1>1. PtyInit => RetainedPtys!Init
    <2> SUFFICES ASSUME PtyInit PROVE RetainedPtys!Init
      OBVIOUS
    <2>1. \A c \in PtyClients : ptyCall[c].step = "idle"
      BY DEF PtyInit, NoPtyCall
    <2>2. PtyStarting = {}
      BY <2>1 DEF PtyStarting, PtyStart
    <2> QED BY <2>2 DEF PtyInit, RetainedPtys!Init
  <1>2. PtyInv /\ [PtyNext]_ptyVars => [RetainedPtys!Next]_(RetainedPtys!vars)
    <2>1. ASSUME UNCHANGED ptyVars PROVE UNCHANGED RetainedPtys!vars
      BY <2>1 DEF ptyVars, RetainedPtys!vars, PtyStarting
    <2> QED BY <2>1, PtyClientRefines, PtyThreadsRefine DEF PtyNext
  <1> QED BY <1>1, <1>2, InitPtys, PtyStep, PTL DEF PtySpec, PtysRetained, RetainedPtys!Spec

-----------------------------------------------------------------------------
(***************************************************************************)
(* Sockets, for any number of clients, connections and listeners.          *)
(***************************************************************************)

(* What a call of a client is, and what a status may be.                   *)
SockCalls == [step : SocketSteps, id : Nat, from : ListenerIds \cup {NoListener}, todo : SUBSET ConnectionIds]
(* The statuses of a connection or a listener.                             *)
SockStatuses(r) == {"none", OpenStatus(r), "closed", "failed"}

(* Calls on a retained resource, and the one that removes it.              *)
UseStep(r) == IF r = "connections" THEN {"io", "blocking", "close", "release", "remove"}
              ELSE {"close_listener", "release_listener", "remove_listener"}
(* The step in which a call removes it from the registry.                  *)
RemovalStep(r) == IF r = "connections" THEN "remove" ELSE "remove_listener"
(* The steps of a start that has nothing open yet.                         *)
ClosedStart == {"connect", "give_up", "bind", "bind_failed"}

(* The slots of a registry: starts, starts that kept theirs, and resources *)
(* fit together.                                                           *)
SocketSlots ==
    \A r \in Registries :
        /\ sockPending[r] = Cardinality(StartingSocket(r)) + LeakedSlots(r)
        /\ Cardinality(sockets[r]) + sockPending[r] <= MaxRetainedSockets

(* Ids are handed out once: those to come are unused, and a start has one  *)
(* of its own that is neither retained nor leaked.                         *)
SocketFresh ==
    /\ \A r \in Registries :
          /\ \A id \in IdsOf(r) : id >= sockNext[r] => sockStatus[r][id] = "none"
          /\ \A id \in sockets[r] : id < sockNext[r]
          /\ \A c \in StartingSocket(r) :
                /\ sockCall[c].id \in IdsOf(r) /\ sockCall[c].id < sockNext[r]
                /\ sockCall[c].id \notin sockets[r]
                /\ r = "connections" => sockCall[c].id \notin leaked
                /\ sockCall[c].step \in ClosedStart => sockStatus[r][sockCall[c].id] = "none"
          /\ \A c, d \in StartingSocket(r) : sockCall[c].id = sockCall[d].id => c = d
    /\ \A id \in leaked : id < sockNext["connections"]
    /\ \A id \in ConnectionIds : id >= sockNext["connections"] => origin[id] = NoListener

(* A call on a resource works on one that was retained once, and the one   *)
(* that removes it found it closed.                                        *)
SocketUses ==
    \A r \in Registries, c \in SocketClients :
        /\ sockCall[c].step \in UseStep(r) =>
              /\ sockCall[c].id \in IdsOf(r) /\ sockCall[c].id < sockNext[r]
              /\ \A d \in StartingSocket(r) : sockCall[d].id # sockCall[c].id
        /\ sockCall[c].step = RemovalStep(r) => sockStatus[r][sockCall[c].id] # OpenStatus(r)

(* What is open is retained or being started.                              *)
SocketsReachable ==
    \A r \in Registries : \A id \in IdsOf(r) :
        sockStatus[r][id] = OpenStatus(r) =>
            id \in sockets[r] \/ \E c \in StartingSocket(r) : sockCall[c].id = id

(* An accept has its listener, and counts what it has retained.            *)
AcceptsInv ==
    /\ \A c \in SocketClients : sockCall[c].step \in AcceptSteps => sockCall[c].from \in ListenerIds
    /\ AcceptsCounted

(* A transfer holds the mutex of its connection, which is open.            *)
TransferInv ==
    /\ \A c \in SocketClients : sockCall[c].step = "blocking" => sockLock[sockCall[c].id] = c
    /\ TransferKeepsSocket

(* The inductive invariant.                                                *)
SocketInv == SocketTypeOK /\ SocketSlots /\ SocketFresh /\ SocketUses /\ SocketsReachable
             /\ AcceptsInv /\ TransferInv

-----------------------------------------------------------------------------
(* Ids are numbers, and the sets the invariant counts are finite.          *)
LEMMA SocketIds ==
    /\ \A r \in Registries : IsFiniteSet(IdsOf(r)) /\ \A id \in IdsOf(r) : id \in Nat
    /\ IdsOf("connections") = ConnectionIds /\ IdsOf("listeners") = ListenerIds
    /\ IsFiniteSet(ConnectionIds) /\ MaxRetainedSockets \in Nat
    /\ \A id \in ConnectionIds : id \in Nat
    /\ \A l \in ListenerIds : l \in Nat
  <1>1. MaxConnections \in Nat /\ MaxListeners \in Nat /\ MaxRetainedSockets \in Nat
    BY SocketAssumption
  <1>2. IsFiniteSet(ConnectionIds) /\ \A id \in ConnectionIds : id \in Nat
    BY <1>1, FS_Interval DEF ConnectionIds
  <1>3. IsFiniteSet(ListenerIds) /\ \A id \in ListenerIds : id \in Nat
    BY <1>1, FS_Interval DEF ListenerIds
  <1> QED BY <1>1, <1>2, <1>3 DEF IdsOf, Registries

(* The parts of the invariant, with the types as named sets.               *)
LEMMA SocketParts ==
    ASSUME SocketInv
    PROVE  /\ SocketTypeOK /\ SocketSlots /\ SocketFresh /\ SocketUses /\ SocketsReachable
           /\ AcceptsInv /\ TransferInv
           /\ sockCall \in [SocketClients -> SockCalls]
           /\ sockNext \in [Registries -> Nat] /\ sockPending \in [Registries -> Nat]
           /\ DOMAIN sockets = Registries /\ DOMAIN sockStatus = Registries
           /\ \A r \in Registries :
                 sockets[r] \subseteq IdsOf(r) /\ sockStatus[r] \in [IdsOf(r) -> SockStatuses(r)]
           /\ sockLock \in [ConnectionIds -> SocketClients \cup {NoSocketHolder}]
           /\ sockRegLock \in SocketClients \cup {NoSocketHolder}
           /\ leaked \subseteq ConnectionIds /\ accepted \in [ListenerIds -> Nat]
           /\ origin \in [ConnectionIds -> ListenerIds \cup {NoListener}]
  BY DEF SocketInv, SocketTypeOK, SockCalls, SockStatuses

(* The finite sets of a state.                                             *)
LEMMA SocketFinite ==
    ASSUME SocketTypeOK
    PROVE  /\ \A r \in Registries : IsFiniteSet(StartingSocket(r)) /\ Cardinality(StartingSocket(r)) \in Nat
           /\ \A r \in Registries : IsFiniteSet(sockets[r]) /\ Cardinality(sockets[r]) \in Nat
           /\ IsFiniteSet(leaked) /\ Cardinality(leaked) \in Nat
  <1>1. \A r \in Registries : IsFiniteSet(StartingSocket(r))
    BY SocketAssumption, FS_Subset DEF StartingSocket
  <1>2. \A r \in Registries : IsFiniteSet(sockets[r])
    BY SocketIds, FS_Subset DEF SocketTypeOK
  <1>3. IsFiniteSet(leaked)
    BY SocketIds, FS_Subset DEF SocketTypeOK
  <1> QED BY <1>1, <1>2, <1>3, FS_CardinalityType

(* The call a client makes when it has none.                               *)
LEMMA NoCallType == NoCall \in SockCalls /\ NoCall.step = "idle"
  BY DEF NoCall, SockCalls, SocketSteps

(* Steps of a start and of a call on a resource are different steps.       *)
LEMMA StepKinds ==
    /\ \A r \in Registries : "idle" \notin StartStep(r) \cup UseStep(r) /\ "idle" # RemovalStep(r)
    /\ \A r \in Registries : StartStep(r) \cap UseStep(r) = {} /\ RemovalStep(r) \in UseStep(r)
    /\ \A r, q \in Registries : StartStep(r) \cap UseStep(q) = {} /\ (r # q => StartStep(r) \cap StartStep(q) = {})
    /\ "connections" \in Registries /\ "listeners" \in Registries
    /\ "idle" \notin AcceptSteps /\ "blocking" \in UseStep("connections") /\ "blocking" \notin UseStep("listeners")
  BY DEF Registries, StartStep, UseStep, RemovalStep, ConnectionStart, ListenerStart, AcceptSteps

(* Nothing was started at first.                                           *)
LEMMA InitSockets == SocketInit => SocketInv
  <1> SUFFICES ASSUME SocketInit PROVE SocketInv
    OBVIOUS
  <1>1. \A c \in SocketClients : sockCall[c] = NoCall /\ sockCall[c].step = "idle"
    BY NoCallType DEF SocketInit
  <1>2. \A r \in Registries : StartingSocket(r) = {}
    BY <1>1, StepKinds DEF StartingSocket
  <1>3. /\ \A r \in Registries : sockets[r] = {} /\ sockPending[r] = 0 /\ sockNext[r] = 0
        /\ \A r \in Registries : \A id \in IdsOf(r) : sockStatus[r][id] = "none"
        /\ leaked = {} /\ \A id \in ConnectionIds : origin[id] = NoListener
        /\ \A l \in ListenerIds : accepted[l] = 0
    BY DEF SocketInit
  <1>4. SocketTypeOK
    <2>1. sockCall \in [SocketClients -> SockCalls]
      BY NoCallType DEF SocketInit
    <2>2. \A r \in Registries : sockStatus[r] \in [IdsOf(r) -> {"none", OpenStatus(r), "closed", "failed"}]
      BY DEF SocketInit
    <2>3. sockNext \in [Registries -> Nat] /\ sockPending \in [Registries -> Nat] /\ accepted \in [ListenerIds -> Nat]
      BY DEF SocketInit
    <2> QED BY <2>1, <2>2, <2>3 DEF SocketInit, SocketTypeOK, SockCalls
  <1>5. SocketSlots
    <2>1. \A r \in Registries : Cardinality(StartingSocket(r)) = 0 /\ LeakedSlots(r) = 0 /\ Cardinality(sockets[r]) = 0
      BY <1>2, <1>3, FS_EmptySet DEF LeakedSlots
    <2> QED BY <2>1, <1>3, SocketIds DEF SocketSlots
  <1>6. SocketFresh /\ SocketsReachable
    BY <1>2, <1>3 DEF SocketFresh, SocketsReachable, OpenStatus
  <1>7. SocketUses /\ TransferInv
    BY <1>1, StepKinds DEF SocketUses, TransferInv, TransferKeepsSocket, AtSocketStep
  <1>8. AcceptsInv
    <2>1. ASSUME NEW l \in ListenerIds
          PROVE  /\ {c \in SocketClients : sockCall[c].step \in {"accepted", "count"} /\ sockCall[c].from = l} = {}
                 /\ {id \in ConnectionIds : origin[id] = l} = {}
      <3>1. l # NoListener
        BY SocketIds DEF NoListener
      <3> QED BY <3>1, <1>1, <1>3
    <2>2. Cardinality({}) = 0
      BY FS_EmptySet
    <2>3. \A l \in ListenerIds : accepted[l] + 0 = 0
      BY <1>3
    <2> QED BY <2>1, <2>2, <2>3, <1>1, StepKinds DEF AcceptsInv, AcceptsCounted
  <1> QED BY <1>4, <1>5, <1>6, <1>7, <1>8 DEF SocketInv

(* Steps in which a client has a slot or a connection to count.            *)
HoldingSteps == ConnectionStart \cup ListenerStart \cup {"count"}

(* An id that has a status, or is neither unused nor being started.        *)
SocketSettled(r, id) ==
    \/ sockStatus[r][id] # "none"
    \/ id < sockNext[r] /\ \A d \in StartingSocket(r) : sockCall[d].id # id

(* How the status of resources may change outside a start: it leaves the   *)
(* open one, and never that of an id to come or of a start.                *)
StatusKept ==
    /\ DOMAIN sockStatus' = Registries
    /\ \A r \in Registries :
          /\ sockStatus'[r] \in [IdsOf(r) -> SockStatuses(r)]
          /\ \A id \in IdsOf(r) : sockStatus'[r][id] # sockStatus[r][id] =>
                sockStatus'[r][id] # OpenStatus(r) /\ SocketSettled(r, id)

(* What is retained only shrinks, by what is closed.                       *)
SocketsKept ==
    /\ DOMAIN sockets' = Registries
    /\ \A r \in Registries :
          sockets'[r] \subseteq sockets[r] /\ \A id \in sockets[r] \ sockets'[r] : sockStatus[r][id] # OpenStatus(r)

(* The call k works on a resource that was retained.                       *)
GoodUse(k) ==
    \A r \in Registries :
        /\ k.step \in UseStep(r) =>
              /\ k.id \in IdsOf(r) /\ k.id < sockNext[r]
              /\ \A d \in StartingSocket(r) : sockCall[d].id # k.id
        /\ k.step = RemovalStep(r) => sockStatus'[r][k.id] # OpenStatus(r)

(* A client outside a start moves on.                                      *)
LEMMA SocketMoves ==
    ASSUME SocketInv, NEW c \in SocketClients, NEW k \in SockCalls, sockCall' = [sockCall EXCEPT ![c] = k],
           UNCHANGED <<protocol, sockNext, sockPending, accepted, origin, leaked>>,
           sockCall[c].step \notin HoldingSteps, k.step \notin HoldingSteps,
           k.step \in AcceptSteps => k.from \in ListenerIds,
           sockRegLock' \in SocketClients \cup {NoSocketHolder},
           sockLock' \in [ConnectionIds -> SocketClients \cup {NoSocketHolder}],
           StatusKept, SocketsKept, GoodUse(k),
           \A d \in SocketClients : d # c /\ sockCall[d].step = "blocking" =>
               /\ sockLock'[sockCall[d].id] = d
               /\ sockStatus'["connections"][sockCall[d].id] = sockStatus["connections"][sockCall[d].id],
           k.step = "blocking" =>
               /\ sockLock'[k.id] = c /\ sockStatus'["connections"][k.id] = "connected"
               /\ k.id \in sockets'["connections"]
    PROVE  SocketInv'
  <1>a. /\ SocketTypeOK /\ SocketSlots /\ SocketFresh /\ SocketUses /\ SocketsReachable
        /\ AcceptsInv /\ TransferInv /\ sockCall \in [SocketClients -> SockCalls]
        /\ sockNext \in [Registries -> Nat] /\ sockPending \in [Registries -> Nat]
        /\ \A r \in Registries :
              sockets[r] \subseteq IdsOf(r) /\ sockStatus[r] \in [IdsOf(r) -> SockStatuses(r)]
    BY SocketParts
  <1>b. /\ sockCall'[c] = k /\ sockCall' \in [SocketClients -> SockCalls]
        /\ \A d \in SocketClients : d # c => sockCall'[d] = sockCall[d]
    BY <1>a
  <1>c. \A r \in Registries : StartingSocket(r)' = StartingSocket(r)
    <2>1. \A r \in Registries : StartStep(r) \subseteq HoldingSteps
      BY DEF StartStep, HoldingSteps
    <2> QED BY <2>1, <1>b DEF StartingSocket
  <1>d. \A r \in Registries : \A d \in StartingSocket(r) : d \in SocketClients /\ sockCall'[d] = sockCall[d]
    <2>1. \A r \in Registries : c \notin StartingSocket(r)
      BY DEF StartingSocket, StartStep, HoldingSteps
    <2> QED BY <2>1, <1>b DEF StartingSocket
  <1>1. SocketTypeOK'
    <2>1. \A r \in Registries : sockets'[r] \subseteq IdsOf(r)
      BY <1>a DEF SocketsKept
    <2> QED BY <2>1, <1>a, <1>b DEF SocketTypeOK, SockCalls, SockStatuses, StatusKept, SocketsKept
  <1>2. SocketSlots'
    <2> SUFFICES ASSUME NEW r \in Registries
                 PROVE  /\ sockPending[r] = Cardinality(StartingSocket(r)) + LeakedSlots(r)
                        /\ Cardinality(sockets'[r]) + sockPending[r] <= MaxRetainedSockets
      BY <1>c DEF SocketSlots, LeakedSlots
    <2>1. Cardinality(sockets'[r]) <= Cardinality(sockets[r]) /\ Cardinality(sockets'[r]) \in Nat
          /\ Cardinality(sockets[r]) \in Nat
      <3>1. sockets'[r] \subseteq sockets[r] /\ IsFiniteSet(sockets[r])
        BY <1>a, SocketFinite DEF SocketsKept
      <3> QED BY <3>1, FS_Subset, FS_CardinalityType
    <2>2. /\ sockPending[r] = Cardinality(StartingSocket(r)) + LeakedSlots(r)
          /\ Cardinality(sockets[r]) + sockPending[r] <= MaxRetainedSockets
      BY <1>a DEF SocketSlots
    <2>3. sockPending[r] \in Nat /\ MaxRetainedSockets \in Nat
      BY <1>a, SocketIds
    <2>4. Cardinality(sockets'[r]) + sockPending[r] <= MaxRetainedSockets
      BY <2>1, <2>2, <2>3
    <2> QED BY <2>2, <2>4
  <1>3. SocketFresh'
    <2>1. ASSUME NEW r \in Registries
          PROVE  /\ \A id \in IdsOf(r) : id >= sockNext[r] => sockStatus'[r][id] = "none"
                 /\ \A id \in sockets'[r] : id < sockNext[r]
                 /\ \A d \in StartingSocket(r) :
                       /\ sockCall[d].id \in IdsOf(r) /\ sockCall[d].id < sockNext[r]
                       /\ sockCall[d].id \notin sockets'[r]
                       /\ r = "connections" => sockCall[d].id \notin leaked
                       /\ sockCall[d].step \in ClosedStart => sockStatus'[r][sockCall[d].id] = "none"
                 /\ \A d, e \in StartingSocket(r) : sockCall[d].id = sockCall[e].id => d = e
      <3>1. \A id \in IdsOf(r) : id >= sockNext[r] => sockStatus'[r][id] = "none"
        <4>1. \A id \in IdsOf(r) : id >= sockNext[r] => ~(id < sockNext[r])
          BY <1>a, SocketIds
        <4> QED BY <4>1, <1>a DEF StatusKept, SocketFresh, SocketSettled
      <3>2. \A d \in StartingSocket(r) :
               /\ sockCall[d].id \in IdsOf(r)
               /\ sockStatus[r][sockCall[d].id] = "none" => sockStatus'[r][sockCall[d].id] = "none"
        BY <1>a DEF StatusKept, SocketFresh, SocketSettled
      <3>3. sockets'[r] \subseteq sockets[r]
        BY DEF SocketsKept
      <3> QED BY <3>1, <3>2, <3>3, <1>a DEF SocketFresh
    <2>2. /\ \A id \in leaked : id < sockNext["connections"]
          /\ \A id \in ConnectionIds : id >= sockNext["connections"] => origin[id] = NoListener
      BY <1>a DEF SocketFresh
    <2> QED BY <2>1, <2>2, <1>c, <1>d DEF SocketFresh
  <1>4. SocketUses'
    <2> SUFFICES ASSUME NEW r \in Registries, NEW d \in SocketClients
                 PROVE  /\ sockCall'[d].step \in UseStep(r) =>
                              /\ sockCall'[d].id \in IdsOf(r) /\ sockCall'[d].id < sockNext[r]
                              /\ \A e \in StartingSocket(r) : sockCall[e].id # sockCall'[d].id
                        /\ sockCall'[d].step = RemovalStep(r) => sockStatus'[r][sockCall'[d].id] # OpenStatus(r)
      BY <1>c, <1>d DEF SocketUses
    <2>1. CASE d = c
      BY <2>1, <1>b DEF GoodUse
    <2>2. CASE d # c
      <3>1. /\ sockCall[d].step \in UseStep(r) =>
                  /\ sockCall[d].id \in IdsOf(r) /\ sockCall[d].id < sockNext[r]
                  /\ \A e \in StartingSocket(r) : sockCall[e].id # sockCall[d].id
            /\ sockCall[d].step = RemovalStep(r) => sockStatus[r][sockCall[d].id] # OpenStatus(r)
        BY <1>a DEF SocketUses
      <3>2. RemovalStep(r) \in UseStep(r)
        BY StepKinds
      <3>3. \A id \in IdsOf(r) : sockStatus[r][id] # OpenStatus(r) => sockStatus'[r][id] # OpenStatus(r)
        BY DEF StatusKept
      <3> QED BY <2>2, <3>1, <3>2, <3>3, <1>b
    <2> QED BY <2>1, <2>2
  <1>5. SocketsReachable'
    <2> SUFFICES ASSUME NEW r \in Registries, NEW id \in IdsOf(r), sockStatus'[r][id] = OpenStatus(r)
                 PROVE  id \in sockets'[r] \/ \E d \in StartingSocket(r) : sockCall[d].id = id
      BY <1>c, <1>d DEF SocketsReachable
    <2>1. sockStatus[r][id] = OpenStatus(r)
      BY DEF StatusKept
    <2> QED BY <2>1, <1>a DEF SocketsReachable, SocketsKept
  <1>6. AcceptsInv'
    <2>1. \A d \in SocketClients : sockCall'[d].step \in AcceptSteps => sockCall'[d].from \in ListenerIds
      BY <1>a, <1>b DEF AcceptsInv
    <2>2. \A l : {d \in SocketClients : sockCall'[d].step \in {"accepted", "count"} /\ sockCall'[d].from = l}
                 = {d \in SocketClients : sockCall[d].step \in {"accepted", "count"} /\ sockCall[d].from = l}
      <3>1. sockCall[c].step \notin {"accepted", "count"} /\ sockCall'[c].step \notin {"accepted", "count"}
        BY <1>b DEF HoldingSteps, ConnectionStart
      <3> QED BY <3>1, <1>b
    <2>3. ASSUME NEW l \in ListenerIds
          PROVE  accepted[l] + Cardinality({d \in SocketClients :
                          sockCall'[d].step \in {"accepted", "count"} /\ sockCall'[d].from = l})
                     = Cardinality({id \in ConnectionIds : origin[id] = l})
      BY <2>2, <1>a DEF AcceptsInv, AcceptsCounted
    <2> QED BY <2>1, <2>3 DEF AcceptsInv, AcceptsCounted
  <1>7. TransferInv'
    <2> SUFFICES ASSUME NEW d \in SocketClients, sockCall'[d].step = "blocking"
                 PROVE  /\ sockLock'[sockCall'[d].id] = d
                        /\ sockStatus'["connections"][sockCall'[d].id] = "connected"
                        /\ sockCall'[d].id \in sockets'["connections"]
      BY DEF TransferInv, TransferKeepsSocket, AtSocketStep
    <2>1. CASE d = c
      BY <2>1, <1>b
    <2>2. CASE d # c
      <3>1. /\ sockCall'[d] = sockCall[d] /\ sockStatus["connections"][sockCall[d].id] = "connected"
            /\ sockCall[d].id \in sockets["connections"]
        BY <2>2, <1>a, <1>b DEF TransferInv, TransferKeepsSocket, AtSocketStep
      <3>2. OpenStatus("connections") = "connected" /\ "connections" \in Registries
        BY DEF OpenStatus, Registries
      <3> QED BY <2>2, <3>1, <3>2 DEF SocketsKept
    <2> QED BY <2>1, <2>2
  <1> QED BY <1>1, <1>2, <1>3, <1>4, <1>5, <1>6, <1>7 DEF SocketInv

(* The new call of a client that goes on, or returns.                      *)
LEMMA GoToCall ==
    ASSUME NEW c \in SocketClients, sockCall \in [SocketClients -> SockCalls],
           NEW step \in SocketSteps, SocketGoTo(c, step)
    PROVE  \E k \in SockCalls :
              /\ sockCall' = [sockCall EXCEPT ![c] = k] /\ k.step = step
              /\ k.id = sockCall[c].id /\ k.from = sockCall[c].from
  <1> DEFINE k == [sockCall[c] EXCEPT !.step = step]
  <1>1. k \in SockCalls /\ k.step = step /\ k.id = sockCall[c].id /\ k.from = sockCall[c].from
    BY DEF SockCalls
  <1>2. sockCall' = [sockCall EXCEPT ![c] = k]
    BY DEF SocketGoTo
  <1> HIDE DEF k
  <1> QED BY <1>1, <1>2

(* The new call of a client that starts one.                               *)
LEMMA NewCall ==
    ASSUME NEW c \in SocketClients, NEW step \in SocketSteps, NEW id \in Nat, SocketCalls(c, step, id)
    PROVE  \E k \in SockCalls :
              sockCall' = [sockCall EXCEPT ![c] = k] /\ k.step = step /\ k.id = id /\ k.from = NoListener
  <1> DEFINE k == [NoCall EXCEPT !.step = step, !.id = id]
  <1>1. k \in SockCalls /\ k.step = step /\ k.id = id /\ k.from = NoListener
    BY DEF SockCalls, NoCall
  <1>2. sockCall' = [sockCall EXCEPT ![c] = k]
    BY DEF SocketCalls
  <1> HIDE DEF k
  <1> QED BY <1>1, <1>2

(* Only the call of a client changes, and possibly who holds the registry. *)
LEMMA CallMoves ==
    ASSUME SocketInv, NEW c \in SocketClients, NEW k \in SockCalls, sockCall' = [sockCall EXCEPT ![c] = k],
           UNCHANGED <<protocol, sockNext, sockPending, sockets, sockStatus, sockLock, accepted, origin, leaked>>,
           sockRegLock' \in SocketClients \cup {NoSocketHolder},
           sockCall[c].step \notin HoldingSteps, k.step \notin HoldingSteps \cup {"blocking"},
           k.step \in AcceptSteps => k.from \in ListenerIds, GoodUse(k)
    PROVE  SocketInv'
  <1>1. StatusKept /\ SocketsKept
    BY SocketParts DEF StatusKept, SocketsKept
  <1>2. sockLock' \in [ConnectionIds -> SocketClients \cup {NoSocketHolder}]
    BY SocketParts
  <1>3. \A d \in SocketClients : sockCall[d].step = "blocking" => sockLock'[sockCall[d].id] = d
    BY SocketParts DEF TransferInv
  <1> QED BY <1>1, <1>2, <1>3, SocketMoves

(* The transfers of other clients keep their mutexes, and are not on a     *)
(* resource whose status changes.                                          *)
TransfersElsewhere(c, r, id) ==
    \A d \in SocketClients : d # c /\ sockCall[d].step = "blocking" =>
        sockLock'[sockCall[d].id] = d /\ (r = "connections" => sockCall[d].id # id)

(* The status of one resource leaves the open one, and the call returns.   *)
LEMMA StatusMoves ==
    ASSUME SocketInv, NEW c \in SocketClients, sockCall' = [sockCall EXCEPT ![c] = NoCall],
           NEW r \in Registries, NEW id \in IdsOf(r), NEW s \in {"closed", "failed"}, SetStatus(r, id, s),
           SocketSettled(r, id),
           UNCHANGED <<protocol, sockNext, sockPending, sockets, sockRegLock, accepted, origin, leaked>>,
           sockCall[c].step \notin HoldingSteps,
           sockLock' \in [ConnectionIds -> SocketClients \cup {NoSocketHolder}],
           TransfersElsewhere(c, r, id)
    PROVE  SocketInv'
  <1>a. /\ DOMAIN sockets = Registries /\ DOMAIN sockStatus = Registries
        /\ \A q \in Registries :
              sockets[q] \subseteq IdsOf(q) /\ sockStatus[q] \in [IdsOf(q) -> SockStatuses(q)]
        /\ sockRegLock \in SocketClients \cup {NoSocketHolder} /\ SocketUses
    BY SocketParts
  <1>b. /\ sockStatus' = [sockStatus EXCEPT ![r] = [sockStatus[r] EXCEPT ![id] = s]]
        /\ sockStatus'[r] = [sockStatus[r] EXCEPT ![id] = s]
        /\ \A q \in Registries : q # r => sockStatus'[q] = sockStatus[q]
    BY <1>a DEF SetStatus
  <1>c. \A j \in IdsOf(r) : sockStatus'[r][j] = IF j = id THEN s ELSE sockStatus[r][j]
    BY <1>a, <1>b
  <1>d. s \in SockStatuses(r) /\ s # OpenStatus(r)
    BY DEF SockStatuses, OpenStatus
  <1>1. StatusKept
    <2>1. DOMAIN sockStatus' = Registries
      BY <1>a, <1>b
    <2>2. \A q \in Registries : sockStatus'[q] \in [IdsOf(q) -> SockStatuses(q)]
      BY <1>a, <1>b, <1>d
    <2> QED BY <2>1, <2>2, <1>b, <1>c, <1>d DEF StatusKept
  <1>2. SocketsKept
    BY <1>a DEF SocketsKept
  <1>3. GoodUse(NoCall) /\ NoCall.step \notin HoldingSteps \cup {"blocking"} /\ NoCall.step \notin AcceptSteps
        /\ NoCall \in SockCalls
    BY NoCallType, StepKinds DEF GoodUse, HoldingSteps, ConnectionStart, ListenerStart
  <1>4. \A d \in SocketClients : d # c /\ sockCall[d].step = "blocking" =>
               /\ sockLock'[sockCall[d].id] = d
               /\ sockStatus'["connections"][sockCall[d].id] = sockStatus["connections"][sockCall[d].id]
    <2> SUFFICES ASSUME NEW d \in SocketClients, d # c, sockCall[d].step = "blocking"
                 PROVE  sockStatus'["connections"][sockCall[d].id] = sockStatus["connections"][sockCall[d].id]
      BY DEF TransfersElsewhere
    <2>1. sockCall[d].id \in IdsOf("connections")
      BY <1>a, StepKinds DEF SocketUses
    <2>2. "connections" \in Registries
      BY StepKinds
    <2> QED BY <2>1, <2>2, <1>b, <1>c DEF TransfersElsewhere
  <1> QED BY <1>1, <1>2, <1>3, <1>4, <1>a, SocketMoves

(* Calls that begin.                                                       *)
LEMMA SocketCallKeeps ==
    ASSUME SocketInv, NEW c \in SocketClients,
           \/ BeginSocketList(c)
           \/ \E id \in ConnectionIds, op \in {"io", "close", "release"} : ConnectionArc(c, op, id)
           \/ \E l \in ListenerIds :
                 \/ ListenerArc(c, l)
                 \/ \E op \in {"close_listener", "release_listener"} : ListenerCall(c, op, l)
    PROVE  SocketInv'
  <1>a. /\ sockCall \in [SocketClients -> SockCalls] /\ sockRegLock \in SocketClients \cup {NoSocketHolder}
        /\ SocketFresh /\ \A r \in Registries : sockets[r] \subseteq IdsOf(r)
    BY SocketParts
  <1>b. "idle" \notin HoldingSteps
    BY DEF HoldingSteps, ConnectionStart, ListenerStart
  <1>1. CASE BeginSocketList(c)
    <2> DEFINE k == [sockCall[c] EXCEPT !.step = "list", !.todo = sockets["connections"]]
    <2>1. sockets["connections"] \subseteq ConnectionIds
      BY <1>a, SocketIds, StepKinds
    <2>2. k \in SockCalls /\ k.step = "list"
      BY <2>1, <1>a DEF SockCalls, SocketSteps
    <2>3. /\ sockCall' = [sockCall EXCEPT ![c] = k] /\ sockCall[c].step = "idle" /\ sockRegLock' = c
          /\ UNCHANGED <<protocol, sockNext, sockPending, sockets, sockStatus, sockLock, accepted, origin, leaked>>
      BY <1>1 DEF BeginSocketList, AtSocketStep, sockHistory
    <2> HIDE DEF k
    <2>4. k.step \notin HoldingSteps \cup {"blocking"} /\ k.step \notin AcceptSteps /\ GoodUse(k)
      BY <2>2 DEF HoldingSteps, ConnectionStart, ListenerStart, AcceptSteps, GoodUse, UseStep, RemovalStep
    <2> QED BY <2>2, <2>3, <2>4, <1>b, CallMoves
  <1>2. ASSUME NEW r \in Registries, NEW id \in sockets[r], NEW op,
               op \in {"io", "close", "release"} \/ op \in {"close_listener", "release_listener"},
               \A q \in Registries : op \in UseStep(q) => q = r,
               sockCall[c].step = "idle", SocketCalls(c, op, id),
               UNCHANGED <<protocol, sockRegistryVars, sockStatus, sockLock, accepted, sockHistory>>
        PROVE  SocketInv'
    <2>1. id \in IdsOf(r) /\ id \in Nat /\ op \in SocketSteps
      BY <1>2, <1>a, SocketIds DEF SocketSteps
    <2>2. PICK k \in SockCalls : sockCall' = [sockCall EXCEPT ![c] = k] /\ k.step = op /\ k.id = id
      BY <2>1, <1>2, NewCall
    <2>3. k.step \notin HoldingSteps \cup {"blocking"} /\ k.step \notin AcceptSteps
          /\ \A q \in Registries : k.step # RemovalStep(q)
      BY <2>2, <1>2 DEF HoldingSteps, ConnectionStart, ListenerStart, AcceptSteps, RemovalStep
    <2>4. id < sockNext[r] /\ \A d \in StartingSocket(r) : sockCall[d].id # id
      BY <1>a DEF SocketFresh
    <2>5. GoodUse(k)
      BY <2>1, <2>2, <2>3, <2>4, <1>2 DEF GoodUse
    <2>6. UNCHANGED <<protocol, sockNext, sockPending, sockets, sockRegLock, sockStatus, sockLock, accepted, origin, leaked>>
      BY <1>2 DEF sockRegistryVars, sockHistory
    <2> QED BY <2>2, <2>3, <2>5, <2>6, <1>2, <1>a, <1>b, CallMoves
  <1>3. CASE \E id \in ConnectionIds, op \in {"io", "close", "release"} : ConnectionArc(c, op, id)
    <2>1. PICK id \in ConnectionIds, op \in {"io", "close", "release"} : ConnectionArc(c, op, id)
      BY <1>3
    <2>2. /\ id \in sockets["connections"] /\ sockCall[c].step = "idle" /\ SocketCalls(c, op, id)
          /\ UNCHANGED <<protocol, sockRegistryVars, sockStatus, sockLock, accepted, sockHistory>>
      BY <2>1 DEF ConnectionArc, AtSocketStep
    <2>3. "connections" \in Registries /\ \A q \in Registries : op \in UseStep(q) => q = "connections"
      BY DEF Registries, UseStep
    <2> QED BY <2>2, <2>3, <1>2
  <1>4. CASE \E l \in ListenerIds, op \in {"close_listener", "release_listener"} : ListenerCall(c, op, l)
    <2>1. PICK l \in ListenerIds, op \in {"close_listener", "release_listener"} : ListenerCall(c, op, l)
      BY <1>4
    <2>2. /\ l \in sockets["listeners"] /\ sockCall[c].step = "idle" /\ SocketCalls(c, op, l)
          /\ UNCHANGED <<protocol, sockRegistryVars, sockStatus, sockLock, accepted, sockHistory>>
      BY <2>1 DEF ListenerCall, AtSocketStep
    <2>3. "listeners" \in Registries /\ \A q \in Registries : op \in UseStep(q) => q = "listeners"
      BY DEF Registries, UseStep
    <2> QED BY <2>2, <2>3, <1>2
  <1>5. CASE \E l \in ListenerIds : ListenerArc(c, l)
    <2>1. PICK l \in ListenerIds : ListenerArc(c, l)
      BY <1>5
    <2> DEFINE k == [sockCall[c] EXCEPT !.step = "accept", !.from = l]
    <2>2. k \in SockCalls /\ k.step = "accept" /\ k.from = l
      BY <1>a DEF SockCalls, SocketSteps, AcceptSteps
    <2>3. /\ sockCall' = [sockCall EXCEPT ![c] = k] /\ sockCall[c].step = "idle"
          /\ UNCHANGED <<protocol, sockNext, sockPending, sockets, sockRegLock, sockStatus, sockLock, accepted,
                         origin, leaked>>
      BY <2>1 DEF ListenerArc, AtSocketStep, sockRegistryVars, sockHistory
    <2> HIDE DEF k
    <2>4. k.step \notin HoldingSteps \cup {"blocking"} /\ GoodUse(k)
      BY <2>2 DEF HoldingSteps, ConnectionStart, ListenerStart, GoodUse, UseStep, RemovalStep
    <2> QED BY <2>2, <2>3, <2>4, <1>a, <1>b, CallMoves
  <1> QED BY <1>1, <1>3, <1>4, <1>5

(* An accept waits for a peer.                                             *)
LEMMA AcceptKeeps ==
    ASSUME SocketInv, NEW c \in SocketClients,
           \/ AcceptRefused(c) \/ CloneListener(c) \/ AcceptStream(c) \/ AcceptTimesOut(c)
           \/ AcceptFails(c) \/ AcceptShakesHands(c) \/ AcceptFull(c)
    PROVE  SocketInv'
  <1>a. /\ sockCall \in [SocketClients -> SockCalls] /\ sockRegLock \in SocketClients \cup {NoSocketHolder}
        /\ SocketFresh /\ AcceptsInv /\ TransferInv
        /\ sockLock \in [ConnectionIds -> SocketClients \cup {NoSocketHolder}]
    BY SocketParts
  <1>b. sockCall[c].step \in {"accept", "waiting", "handshake", "retain"}
    BY DEF AcceptRefused, CloneListener, AcceptStream, AcceptTimesOut, AcceptFails, AcceptShakesHands, AcceptFull,
           AtSocketStep
  <1>c. sockCall[c].step \notin HoldingSteps /\ sockCall[c].from \in ListenerIds
    BY <1>a, <1>b DEF HoldingSteps, ConnectionStart, ListenerStart, AcceptsInv, AcceptSteps
  <1>1. ASSUME NEW step \in {"waiting", "handshake", "retain"}, SocketGoTo(c, step),
               UNCHANGED <<protocol, sockRegistryVars, sockStatus, sockLock, accepted, sockHistory>>
        PROVE  SocketInv'
    <2>1. step \in SocketSteps
      BY DEF SocketSteps, AcceptSteps
    <2>2. PICK k \in SockCalls : /\ sockCall' = [sockCall EXCEPT ![c] = k] /\ k.step = step
                                 /\ k.from = sockCall[c].from
      BY <2>1, <1>1, <1>a, GoToCall
    <2>3. k.step \notin HoldingSteps \cup {"blocking"} /\ GoodUse(k)
      BY <2>2 DEF HoldingSteps, ConnectionStart, ListenerStart, GoodUse, UseStep, RemovalStep
    <2>4. UNCHANGED <<protocol, sockNext, sockPending, sockets, sockRegLock, sockStatus, sockLock, accepted, origin, leaked>>
      BY <1>1 DEF sockRegistryVars, sockHistory
    <2> QED BY <2>2, <2>3, <2>4, <1>a, <1>c, CallMoves
  <1>2. ASSUME SocketReturns(c), UNCHANGED <<protocol, sockRegistryVars, sockStatus, sockLock, accepted, sockHistory>>
        PROVE  SocketInv'
    <2>1. sockCall' = [sockCall EXCEPT ![c] = NoCall]
      BY <1>2 DEF SocketReturns
    <2>2. GoodUse(NoCall) /\ NoCall.step \notin HoldingSteps \cup {"blocking"} /\ NoCall.step \notin AcceptSteps
          /\ NoCall \in SockCalls
      BY NoCallType, StepKinds DEF GoodUse, HoldingSteps, ConnectionStart, ListenerStart
    <2>3. UNCHANGED <<protocol, sockNext, sockPending, sockets, sockRegLock, sockStatus, sockLock, accepted, origin, leaked>>
      BY <1>2 DEF sockRegistryVars, sockHistory
    <2> QED BY <2>1, <2>2, <2>3, <1>a, <1>c, CallMoves
  <1>3. CASE AcceptRefused(c)
    <2>1. CASE UNCHANGED sockStatus
      BY <2>1, <1>2, <1>3 DEF AcceptRefused
    <2>2. CASE /\ sockStatus["listeners"][sockCall[c].from] = "listening"
               /\ SetStatus("listeners", sockCall[c].from, "failed")
      <3>1. PICK l \in IdsOf("listeners") : l = sockCall[c].from
        BY <1>c, SocketIds
      <3>2. /\ "listeners" \in Registries /\ "listeners" # "connections"
            /\ SocketSettled("listeners", l) /\ SetStatus("listeners", l, "failed")
        BY <2>2, <3>1, StepKinds DEF SocketSettled
      <3>3. /\ sockCall' = [sockCall EXCEPT ![c] = NoCall]
            /\ UNCHANGED <<protocol, sockNext, sockPending, sockets, sockRegLock, sockLock, accepted, origin, leaked>>
        BY <1>3 DEF AcceptRefused, SocketReturns, sockRegistryVars, sockHistory
      <3>4. TransfersElsewhere(c, "listeners", l)
        BY <3>2, <3>3, <1>a DEF TransferInv, TransfersElsewhere
      <3> QED BY <3>2, <3>3, <3>4, <1>a, <1>c, StatusMoves
    <2> QED BY <1>3, <2>1, <2>2 DEF AcceptRefused
  <1> QED BY <1>1, <1>2, <1>3
          DEF CloneListener, AcceptStream, AcceptTimesOut, AcceptFails, AcceptShakesHands, AcceptFull

(* A transfer, a close or a release on a connection or a listener.         *)
LEMMA SocketUseKeeps ==
    ASSUME SocketInv, NEW c \in SocketClients,
           \/ BeginTransfer(c) \/ TcpTransfer(c) \/ WebSocketTransfer(c)
           \/ CloseSocket(c) \/ CheckClosed(c) \/ RemoveSocket(c)
           \/ CloseListener(c) \/ CheckListenerClosed(c) \/ RemoveListener(c)
    PROVE  SocketInv'
  <1>a. /\ sockCall \in [SocketClients -> SockCalls] /\ sockRegLock \in SocketClients \cup {NoSocketHolder}
        /\ SocketFresh /\ SocketUses /\ SocketsReachable /\ TransferInv
        /\ sockLock \in [ConnectionIds -> SocketClients \cup {NoSocketHolder}]
        /\ DOMAIN sockets = Registries /\ DOMAIN sockStatus = Registries
        /\ \A r \in Registries : sockStatus[r] \in [IdsOf(r) -> SockStatuses(r)]
    BY SocketParts
  <1>b. /\ GoodUse(NoCall) /\ NoCall.step \notin HoldingSteps \cup {"blocking"} /\ NoCall.step \notin AcceptSteps
        /\ NoCall \in SockCalls
    BY NoCallType, StepKinds DEF GoodUse, HoldingSteps, ConnectionStart, ListenerStart
  <1>c. PICK r \in Registries : sockCall[c].step \in UseStep(r)
                                /\ (r = "connections" <=> sockCall[c].step \in UseStep("connections"))
    <2>1. sockCall[c].step \in UseStep("connections") \/ sockCall[c].step \in UseStep("listeners")
      BY DEF BeginTransfer, TcpTransfer, WebSocketTransfer, CloseSocket, CheckClosed, RemoveSocket, CloseListener,
             CheckListenerClosed, RemoveListener, AtSocketStep, UseStep
    <2>2. UseStep("connections") \cap UseStep("listeners") = {}
      BY DEF UseStep
    <2> QED BY <2>1, <2>2, StepKinds DEF Registries
  <1>d. PICK id \in IdsOf(r) : id = sockCall[c].id /\ id < sockNext[r]
                               /\ \A d \in StartingSocket(r) : sockCall[d].id # id
    BY <1>a, <1>c DEF SocketUses
  <1>e. sockCall[c].step \notin HoldingSteps
    BY <1>c DEF UseStep, HoldingSteps, ConnectionStart, ListenerStart
  <1>f. /\ r \in {"connections", "listeners"}
        /\ sockCall[c].step \in {"io", "blocking", "close", "release", "remove"} => r = "connections"
        /\ sockCall[c].step \in {"close_listener", "release_listener", "remove_listener"} => r = "listeners"
    BY <1>c DEF UseStep, Registries
  <1>g. \A d \in SocketClients : sockCall[d].step = "blocking" => sockLock[sockCall[d].id] = d
    BY <1>a DEF TransferInv
  <1>1. ASSUME SocketReturns(c), UNCHANGED <<protocol, sockRegistryVars, sockStatus, sockLock, accepted, sockHistory>>
        PROVE  SocketInv'
    <2>1. sockCall' = [sockCall EXCEPT ![c] = NoCall]
      BY <1>1 DEF SocketReturns
    <2>2. UNCHANGED <<protocol, sockNext, sockPending, sockets, sockRegLock, sockStatus, sockLock, accepted, origin, leaked>>
      BY <1>1 DEF sockRegistryVars, sockHistory
    <2> QED BY <2>1, <2>2, <1>a, <1>b, <1>e, CallMoves
  <1>2. ASSUME SocketGoTo(c, RemovalStep(r)), sockStatus[r][id] # OpenStatus(r),
               UNCHANGED <<protocol, sockRegistryVars, sockStatus, sockLock, accepted, sockHistory>>
        PROVE  SocketInv'
    <2>1. RemovalStep(r) \in SocketSteps
      BY DEF RemovalStep, SocketSteps
    <2>2. PICK k \in SockCalls : sockCall' = [sockCall EXCEPT ![c] = k] /\ k.step = RemovalStep(r) /\ k.id = id
      BY <2>1, <1>2, <1>a, <1>d, GoToCall
    <2>3. k.step \notin HoldingSteps \cup {"blocking"} /\ k.step \notin AcceptSteps
      BY <2>2 DEF RemovalStep, HoldingSteps, ConnectionStart, ListenerStart, AcceptSteps
    <2>4. \A q \in Registries : k.step \in UseStep(q) => q = r
      BY <2>2, <1>f DEF RemovalStep, UseStep, Registries
    <2>5. UNCHANGED <<protocol, sockNext, sockPending, sockets, sockRegLock, sockStatus, sockLock, accepted, origin, leaked>>
      BY <1>2 DEF sockRegistryVars, sockHistory
    <2>6. GoodUse(k)
      BY <2>2, <2>4, <2>5, <1>2, <1>d, StepKinds DEF GoodUse
    <2> QED BY <2>2, <2>3, <2>5, <2>6, <1>a, <1>e, CallMoves
  <1>3. ASSUME sockCall[c].step = RemovalStep(r), SocketReturns(c), sockets' = [sockets EXCEPT ![r] = @ \ {id}],
               UNCHANGED <<protocol, sockNext, sockPending, sockRegLock, sockStatus, sockLock, accepted, sockHistory>>
        PROVE  SocketInv'
    <2>1. sockStatus[r][id] # OpenStatus(r)
      BY <1>3, <1>a, <1>d DEF SocketUses
    <2>2. /\ DOMAIN sockets' = Registries /\ sockets'[r] = sockets[r] \ {id}
          /\ \A q \in Registries : q # r => sockets'[q] = sockets[q]
      BY <1>3, <1>a
    <2>3. SocketsKept
      BY <2>1, <2>2 DEF SocketsKept
    <2>4. StatusKept
      BY <1>3, <1>a DEF StatusKept
    <2>5. UNCHANGED <<protocol, sockNext, sockPending, sockRegLock, sockStatus, sockLock, accepted, origin, leaked>>
          /\ sockCall' = [sockCall EXCEPT ![c] = NoCall]
      BY <1>3 DEF SocketReturns, sockHistory
    <2> QED BY <2>3, <2>4, <2>5, <1>a, <1>b, <1>e, <1>g, SocketMoves
  <1>4. ASSUME r = "connections", sockCall[c].step = "blocking", EndTransfer(c),
               UNCHANGED sockStatus \/ \E s \in {"closed", "failed"} : SetStatus("connections", id, s)
        PROVE  SocketInv'
    <2>1. /\ sockCall' = [sockCall EXCEPT ![c] = NoCall] /\ sockLock' = [sockLock EXCEPT ![id] = NoSocketHolder]
          /\ UNCHANGED <<protocol, sockNext, sockPending, sockets, sockRegLock, accepted, origin, leaked>>
      BY <1>4, <1>d DEF EndTransfer, SocketReturns, sockRegistryVars, sockHistory
    <2>2. \A d \in SocketClients : d # c /\ sockCall[d].step = "blocking" => sockCall[d].id # id
      BY <1>4, <1>d, <1>g
    <2>3. /\ sockLock' \in [ConnectionIds -> SocketClients \cup {NoSocketHolder}]
          /\ \A d \in SocketClients : d # c /\ sockCall[d].step = "blocking" => sockLock'[sockCall[d].id] = d
      <3>1. \A d \in SocketClients : sockCall[d].step = "blocking" => sockCall[d].id \in ConnectionIds
        BY <1>a, StepKinds, SocketIds DEF SocketUses
      <3>2. id \in ConnectionIds
        BY <1>4, SocketIds
      <3> QED BY <2>1, <2>2, <3>1, <3>2, <1>a, <1>g
    <2>4. CASE UNCHANGED sockStatus
      <3>1. StatusKept /\ SocketsKept
        BY <2>1, <2>4, <1>a DEF StatusKept, SocketsKept
      <3> QED BY <2>1, <2>3, <2>4, <3>1, <1>a, <1>b, <1>e, SocketMoves
    <2>5. CASE \E s \in {"closed", "failed"} : SetStatus("connections", id, s)
      <3>1. PICK s \in {"closed", "failed"} : SetStatus("connections", id, s)
        BY <2>5
      <3>2. SetStatus(r, id, s) /\ SocketSettled(r, id)
        BY <3>1, <1>4, <1>d DEF SocketSettled
      <3>3. TransfersElsewhere(c, r, id)
        BY <2>2, <2>3 DEF TransfersElsewhere
      <3>4. UNCHANGED <<protocol, sockNext, sockPending, sockets, sockRegLock, accepted, origin, leaked>>
            /\ sockCall' = [sockCall EXCEPT ![c] = NoCall]
            /\ sockLock' \in [ConnectionIds -> SocketClients \cup {NoSocketHolder}]
        BY <2>1, <2>3
      <3> QED BY <3>2, <3>3, <3>4, <1>e, StatusMoves
    <2> QED BY <1>4, <2>4, <2>5
  <1>5. CASE BeginTransfer(c)
    <2>1. r = "connections" /\ sockCall[c].step = "io" /\ sockLock[id] = NoSocketHolder
      BY <1>5, <1>d, <1>f DEF BeginTransfer, AtSocketStep, ConnectionUnlocked
    <2>2. CASE SocketReturns(c) /\ UNCHANGED sockLock
      BY <2>2, <1>1, <1>5 DEF BeginTransfer
    <2>3. CASE /\ sockStatus["connections"][id] = "connected"
               /\ sockLock' = [sockLock EXCEPT ![id] = c] /\ SocketGoTo(c, "blocking")
      <3>1. PICK k \in SockCalls : sockCall' = [sockCall EXCEPT ![c] = k] /\ k.step = "blocking" /\ k.id = id
        <4>1. "blocking" \in SocketSteps
          BY DEF SocketSteps
        <4> QED BY <4>1, <2>3, <1>a, <1>d, GoToCall
      <3>2. UNCHANGED <<protocol, sockNext, sockPending, sockets, sockRegLock, sockStatus, accepted, origin, leaked>>
        BY <1>5 DEF BeginTransfer, sockRegistryVars, sockHistory
      <3>3. StatusKept /\ SocketsKept
        BY <3>2, <1>a DEF StatusKept, SocketsKept
      <3>4. k.step \notin HoldingSteps /\ k.step \notin AcceptSteps /\ \A q \in Registries : k.step # RemovalStep(q)
        BY <3>1 DEF RemovalStep, HoldingSteps, ConnectionStart, ListenerStart, AcceptSteps
      <3>5. GoodUse(k)
        BY <3>1, <3>4, <2>1, <1>d, StepKinds DEF GoodUse, Registries
      <3>6. id \in sockets["connections"]
        <4>1. OpenStatus("connections") = "connected"
          BY DEF OpenStatus
        <4> QED BY <4>1, <2>1, <2>3, <1>a, <1>d DEF SocketsReachable
      <3>7. /\ sockLock' \in [ConnectionIds -> SocketClients \cup {NoSocketHolder}] /\ sockLock'[id] = c
            /\ \A d \in SocketClients : d # c /\ sockCall[d].step = "blocking" => sockLock'[sockCall[d].id] = d
        <4>1. \A d \in SocketClients : sockCall[d].step = "blocking" => sockCall[d].id \in ConnectionIds
          BY <1>a, StepKinds, SocketIds DEF SocketUses
        <4>2. id \in ConnectionIds
          BY <2>1, SocketIds
        <4>3. \A d \in SocketClients : sockCall[d].step = "blocking" => sockCall[d].id # id
          BY <2>1, <1>g, SocketAssumption
        <4> QED BY <2>3, <4>1, <4>2, <4>3, <1>a, <1>g
      <3> QED BY <2>3, <3>1, <3>2, <3>3, <3>4, <3>5, <3>6, <3>7, <1>a, <1>e, SocketMoves
    <2> QED BY <1>5, <1>d, <2>2, <2>3 DEF BeginTransfer
  <1>6. CASE TcpTransfer(c) \/ WebSocketTransfer(c)
    <2>1. sockCall[c].step = "blocking" /\ r = "connections"
      BY <1>6, <1>f DEF TcpTransfer, WebSocketTransfer, AtSocketStep
    <2>2. EndTransfer(c) /\ (UNCHANGED sockStatus \/ \E s \in {"closed", "failed"} : SetStatus("connections", id, s))
      BY <1>6, <1>d DEF TcpTransfer, WebSocketTransfer
    <2> QED BY <2>1, <2>2, <1>4
  <1>7. CASE CloseSocket(c)
    <2>1. /\ r = "connections" /\ sockLock[id] = NoSocketHolder /\ SetStatus("connections", id, "closed")
      BY <1>7, <1>d, <1>f DEF CloseSocket, AtSocketStep, ConnectionUnlocked
    <2>2. /\ sockCall' = [sockCall EXCEPT ![c] = NoCall]
          /\ UNCHANGED <<protocol, sockNext, sockPending, sockets, sockRegLock, sockLock, accepted, origin, leaked>>
      BY <1>7 DEF CloseSocket, SocketReturns, sockRegistryVars, sockHistory
    <2>3. \A d \in SocketClients : sockCall[d].step = "blocking" => sockCall[d].id # id /\ sockLock'[sockCall[d].id] = d
      BY <2>1, <2>2, <1>g, SocketAssumption
    <2>4. sockLock' \in [ConnectionIds -> SocketClients \cup {NoSocketHolder}]
      BY <2>2, <1>a
    <2>5. SetStatus(r, id, "closed") /\ SocketSettled(r, id)
      BY <2>1, <1>d DEF SocketSettled
    <2>6. TransfersElsewhere(c, r, id)
      BY <2>3 DEF TransfersElsewhere
    <2>7. UNCHANGED <<protocol, sockNext, sockPending, sockets, sockRegLock, accepted, origin, leaked>>
      BY <2>2
    <2> QED BY <2>2, <2>4, <2>5, <2>6, <2>7, <1>e, StatusMoves
  <1>8. CASE CheckClosed(c) \/ CheckListenerClosed(c)
    <2>1. UNCHANGED <<protocol, sockRegistryVars, sockStatus, sockLock, accepted, sockHistory>>
      BY <1>8 DEF CheckClosed, CheckListenerClosed
    <2>2. SocketReturns(c) \/ (SocketGoTo(c, RemovalStep(r)) /\ sockStatus[r][id] # OpenStatus(r))
      <3>1. CASE CheckClosed(c)
        <4>1. r = "connections"
          BY <3>1, <1>f DEF CheckClosed, AtSocketStep
        <4> QED BY <3>1, <4>1, <1>d DEF CheckClosed, RemovalStep, OpenStatus
      <3>2. CASE CheckListenerClosed(c)
        <4>1. r = "listeners"
          BY <3>2, <1>f DEF CheckListenerClosed, AtSocketStep
        <4> QED BY <3>2, <4>1, <1>d DEF CheckListenerClosed, RemovalStep, OpenStatus
      <3> QED BY <1>8, <3>1, <3>2
    <2> QED BY <2>1, <2>2, <1>1, <1>2
  <1>9. CASE RemoveSocket(c) \/ RemoveListener(c)
    <2>1. sockCall[c].step = RemovalStep(r) /\ sockets' = [sockets EXCEPT ![r] = @ \ {id}]
      <3>1. CASE RemoveSocket(c)
        <4>1. r = "connections"
          BY <3>1, <1>f DEF RemoveSocket, AtSocketStep
        <4> QED BY <3>1, <4>1, <1>d DEF RemoveSocket, RemovalStep, AtSocketStep
      <3>2. CASE RemoveListener(c)
        <4>1. r = "listeners"
          BY <3>2, <1>f DEF RemoveListener, AtSocketStep
        <4> QED BY <3>2, <4>1, <1>d DEF RemoveListener, RemovalStep, AtSocketStep
      <3> QED BY <1>9, <3>1, <3>2
    <2> QED BY <2>1, <1>3, <1>9 DEF RemoveSocket, RemoveListener
  <1>10. CASE CloseListener(c)
    <2>1. /\ r = "listeners" /\ SetStatus("listeners", id, "closed")
      BY <1>10, <1>d, <1>f DEF CloseListener, AtSocketStep
    <2>2. /\ sockCall' = [sockCall EXCEPT ![c] = NoCall]
          /\ UNCHANGED <<protocol, sockNext, sockPending, sockets, sockRegLock, sockLock, accepted, origin, leaked>>
      BY <1>10 DEF CloseListener, SocketReturns, sockRegistryVars, sockHistory
    <2>3. \A d \in SocketClients : sockCall[d].step = "blocking" => sockLock'[sockCall[d].id] = d
      BY <2>2, <1>g
    <2>4. sockLock' \in [ConnectionIds -> SocketClients \cup {NoSocketHolder}]
      BY <2>2, <1>a
    <2>5. SetStatus(r, id, "closed") /\ SocketSettled(r, id) /\ TransfersElsewhere(c, r, id)
      BY <2>1, <2>3, <1>d DEF SocketSettled, TransfersElsewhere
    <2> QED BY <2>2, <2>4, <2>5, <1>e, StatusMoves
  <1> QED BY <1>5, <1>6, <1>7, <1>8, <1>9, <1>10

(* The listing of the connections.                                         *)
LEMMA SocketListKeeps ==
    ASSUME SocketInv, NEW c \in SocketClients, ListNextSocket(c) \/ EndSocketList(c)
    PROVE  SocketInv'
  <1>a. sockCall \in [SocketClients -> SockCalls] /\ sockRegLock \in SocketClients \cup {NoSocketHolder}
    BY SocketParts
  <1>b. /\ GoodUse(NoCall) /\ NoCall.step \notin HoldingSteps \cup {"blocking"} /\ NoCall.step \notin AcceptSteps
        /\ NoCall \in SockCalls
    BY NoCallType, StepKinds DEF GoodUse, HoldingSteps, ConnectionStart, ListenerStart
  <1>c. "list" \notin HoldingSteps
    BY DEF HoldingSteps, ConnectionStart, ListenerStart
  <1>1. CASE ListNextSocket(c)
    <2>1. PICK m : m = Min(sockCall[c].todo)
      OBVIOUS
    <2> DEFINE k == [sockCall[c] EXCEPT !.todo = sockCall[c].todo \ {m}]
    <2>2. /\ sockCall[c].step = "list" /\ sockCall' = [sockCall EXCEPT ![c] = k]
          /\ UNCHANGED <<protocol, sockNext, sockPending, sockets, sockRegLock, sockStatus, sockLock, accepted, origin, leaked>>
      BY <1>1, <2>1 DEF ListNextSocket, AtSocketStep, sockRegistryVars, sockHistory
    <2>3. k \in SockCalls /\ k.step = "list"
      BY <2>2, <1>a DEF SockCalls
    <2> HIDE DEF k
    <2>4. k.step \notin HoldingSteps \cup {"blocking"} /\ k.step \notin AcceptSteps /\ GoodUse(k)
      BY <2>3, <1>c DEF AcceptSteps, GoodUse, UseStep, RemovalStep
    <2> QED BY <2>2, <2>3, <2>4, <1>a, <1>c, CallMoves
  <1>2. CASE EndSocketList(c)
    <2>1. /\ sockCall[c].step = "list" /\ sockCall' = [sockCall EXCEPT ![c] = NoCall] /\ sockRegLock' = NoSocketHolder
          /\ UNCHANGED <<protocol, sockNext, sockPending, sockets, sockStatus, sockLock, accepted, origin, leaked>>
      BY <1>2 DEF EndSocketList, AtSocketStep, SocketReturns, sockHistory
    <2> QED BY <2>1, <1>b, <1>c, CallMoves
  <1> QED BY <1>1, <1>2

-----------------------------------------------------------------------------
(* How the statuses change when that of one resource is set.               *)
LEMMA SetStatusFacts ==
    ASSUME SocketInv, NEW r \in Registries, NEW id \in IdsOf(r), NEW s \in SockStatuses(r), SetStatus(r, id, s)
    PROVE  /\ DOMAIN sockStatus' = Registries
           /\ \A q \in Registries : sockStatus'[q] \in [IdsOf(q) -> SockStatuses(q)]
           /\ \A q \in Registries : q # r => sockStatus'[q] = sockStatus[q]
           /\ \A j \in IdsOf(r) : sockStatus'[r][j] = IF j = id THEN s ELSE sockStatus[r][j]
  <1>1. /\ DOMAIN sockStatus = Registries
        /\ \A q \in Registries : sockStatus[q] \in [IdsOf(q) -> SockStatuses(q)]
    BY SocketParts
  <1>2. /\ sockStatus' = [sockStatus EXCEPT ![r] = [sockStatus[r] EXCEPT ![id] = s]]
        /\ sockStatus'[r] = [sockStatus[r] EXCEPT ![id] = s]
        /\ \A q \in Registries : q # r => sockStatus'[q] = sockStatus[q]
    BY <1>1 DEF SetStatus
  <1> QED BY <1>1, <1>2

(* A start opens its resource or fails to.                                 *)
LEMMA SocketStartKeeps ==
    ASSUME SocketInv, NEW r \in Registries, NEW c \in StartingSocket(r), NEW id, id = sockCall[c].id,
           sockCall[c].step \in {"connect", "bind"},
           NEW k \in SockCalls, sockCall' = [sockCall EXCEPT ![c] = k], k.id = id,
           k.step \in StartStep(r), k.step \in {"connected", "bound", "give_up", "bind_failed"},
           IF k.step \in {"connected", "bound"} THEN SetStatus(r, id, OpenStatus(r)) ELSE UNCHANGED sockStatus,
           UNCHANGED <<protocol, sockNext, sockPending, sockets, sockRegLock, sockLock, accepted, origin, leaked>>
    PROVE  SocketInv'
  <1>a. /\ SocketTypeOK /\ SocketSlots /\ SocketFresh /\ SocketUses /\ SocketsReachable
        /\ AcceptsInv /\ TransferInv /\ sockCall \in [SocketClients -> SockCalls]
        /\ sockNext \in [Registries -> Nat] /\ DOMAIN sockStatus = Registries
        /\ \A q \in Registries :
              sockets[q] \subseteq IdsOf(q) /\ sockStatus[q] \in [IdsOf(q) -> SockStatuses(q)]
    BY SocketParts
  <1>b. /\ c \in SocketClients /\ id \in IdsOf(r) /\ id < sockNext[r] /\ id \notin sockets[r]
        /\ sockStatus[r][id] = "none" /\ \A d \in StartingSocket(r) : sockCall[d].id = id => d = c
    BY <1>a DEF SocketFresh, StartingSocket, ClosedStart
  <1>c. /\ sockCall'[c] = k /\ sockCall' \in [SocketClients -> SockCalls]
        /\ \A d \in SocketClients : d # c => sockCall'[d] = sockCall[d]
    BY <1>a, <1>b
  <1>d. /\ \A q \in Registries : StartingSocket(q)' = StartingSocket(q)
        /\ \A q \in Registries : q # r => c \notin StartingSocket(q)
        /\ \A q \in Registries : \A d \in StartingSocket(q) :
              d \in SocketClients /\ sockCall'[d].id = sockCall[d].id /\ (d # c => sockCall'[d] = sockCall[d])
    <2>1. \A q \in Registries : q # r => StartStep(q) \cap StartStep(r) = {}
      BY StepKinds
    <2>2. sockCall[c].step \in StartStep(r)
      BY DEF StartingSocket
    <2>3. \A q \in Registries, d \in SocketClients : sockCall'[d].step \in StartStep(q) <=> sockCall[d].step \in StartStep(q)
      BY <2>1, <2>2, <1>c
    <2> QED BY <2>1, <2>2, <2>3, <1>c DEF StartingSocket
  <1>e. /\ DOMAIN sockStatus' = Registries
        /\ \A q \in Registries : sockStatus'[q] \in [IdsOf(q) -> SockStatuses(q)]
        /\ \A q \in Registries : q # r => sockStatus'[q] = sockStatus[q]
        /\ \A j \in IdsOf(r) : j # id => sockStatus'[r][j] = sockStatus[r][j]
        /\ k.step \notin {"connected", "bound"} => sockStatus'[r][id] = "none"
    <2>1. OpenStatus(r) \in SockStatuses(r)
      BY DEF SockStatuses
    <2>2. CASE k.step \in {"connected", "bound"}
      BY <2>1, <2>2, <1>b, SetStatusFacts
    <2>3. CASE k.step \notin {"connected", "bound"}
      BY <2>3, <1>a, <1>b
    <2> QED BY <2>2, <2>3
  <1>f. /\ k.step \notin AcceptSteps \cup {"blocking"} /\ sockCall[c].step \notin AcceptSteps \cup {"blocking"}
        /\ \A q \in Registries : k.step \notin UseStep(q) /\ k.step # RemovalStep(q)
        /\ k.step \in ClosedStart => k.step \notin {"connected", "bound"}
    BY DEF AcceptSteps, UseStep, RemovalStep, ClosedStart
  <1>1. SocketTypeOK'
    BY <1>a, <1>c, <1>e DEF SocketTypeOK, SockCalls, SockStatuses
  <1>2. SocketSlots'
    BY <1>a, <1>d DEF SocketSlots, LeakedSlots
  <1>3. SocketFresh'
    <2>1. ASSUME NEW q \in Registries
          PROVE  /\ \A j \in IdsOf(q) : j >= sockNext[q] => sockStatus'[q][j] = "none"
                 /\ \A d \in StartingSocket(q) :
                       sockCall'[d].step \in ClosedStart => sockStatus'[q][sockCall[d].id] = "none"
      <3>1. \A j \in IdsOf(r) : j >= sockNext[r] => j # id
        BY <1>a, <1>b, SocketIds
      <3>2. \A j \in IdsOf(q) : j >= sockNext[q] => sockStatus'[q][j] = "none"
        BY <3>1, <1>a, <1>e DEF SocketFresh
      <3>3. ASSUME NEW d \in StartingSocket(q), sockCall'[d].step \in ClosedStart
            PROVE  sockStatus'[q][sockCall[d].id] = "none"
        <4>1. CASE d = c
          BY <3>3, <4>1, <1>c, <1>d, <1>e, <1>f
        <4>2. CASE d # c
          <5>1. sockCall[d].step \in ClosedStart /\ sockStatus[q][sockCall[d].id] = "none" /\ sockCall[d].id \in IdsOf(q)
            BY <3>3, <4>2, <1>a, <1>d DEF SocketFresh
          <5>2. q = r => sockCall[d].id # id
            BY <4>2, <1>b
          <5> QED BY <5>1, <5>2, <1>e
        <4> QED BY <4>1, <4>2
      <3> QED BY <3>2, <3>3
    <2> QED BY <2>1, <1>a, <1>d DEF SocketFresh
  <1>4. SocketUses'
    <2> SUFFICES ASSUME NEW q \in Registries, NEW d \in SocketClients
                 PROVE  /\ sockCall'[d].step \in UseStep(q) =>
                              /\ sockCall'[d].id \in IdsOf(q) /\ sockCall'[d].id < sockNext[q]
                              /\ \A e \in StartingSocket(q) : sockCall[e].id # sockCall'[d].id
                        /\ sockCall'[d].step = RemovalStep(q) => sockStatus'[q][sockCall'[d].id] # OpenStatus(q)
      BY <1>d DEF SocketUses
    <2>1. CASE d = c
      BY <2>1, <1>c, <1>f
    <2>2. CASE d # c
      <3>1. /\ sockCall[d].step \in UseStep(q) =>
                  /\ sockCall[d].id \in IdsOf(q) /\ sockCall[d].id < sockNext[q]
                  /\ \A e \in StartingSocket(q) : sockCall[e].id # sockCall[d].id
            /\ sockCall[d].step = RemovalStep(q) => sockStatus[q][sockCall[d].id] # OpenStatus(q)
        BY <1>a DEF SocketUses
      <3>2. RemovalStep(q) \in UseStep(q)
        BY StepKinds
      <3>3. sockCall[d].step \in UseStep(q) /\ q = r => sockCall[d].id # id
        BY <3>1
      <3> QED BY <2>2, <3>1, <3>2, <3>3, <1>c, <1>e
    <2> QED BY <2>1, <2>2
  <1>5. SocketsReachable'
    <2> SUFFICES ASSUME NEW q \in Registries, NEW j \in IdsOf(q), sockStatus'[q][j] = OpenStatus(q)
                 PROVE  j \in sockets[q] \/ \E d \in StartingSocket(q) : sockCall[d].id = j
      BY <1>d DEF SocketsReachable
    <2>1. CASE q = r /\ j = id
      BY <2>1
    <2>2. CASE ~(q = r /\ j = id)
      BY <2>2, <1>a, <1>e DEF SocketsReachable
    <2> QED BY <2>1, <2>2
  <1>6. AcceptsInv'
    <2>1. \A d \in SocketClients : sockCall'[d].step \in AcceptSteps => sockCall'[d].from \in ListenerIds
      BY <1>a, <1>c, <1>f DEF AcceptsInv
    <2>2. \A l : {d \in SocketClients : sockCall'[d].step \in {"accepted", "count"} /\ sockCall'[d].from = l}
                 = {d \in SocketClients : sockCall[d].step \in {"accepted", "count"} /\ sockCall[d].from = l}
      <3>1. sockCall[c].step \notin {"accepted", "count"} /\ sockCall'[c].step \notin {"accepted", "count"}
        BY <1>c, <1>f DEF AcceptSteps
      <3> QED BY <3>1, <1>c
    <2>3. ASSUME NEW l \in ListenerIds
          PROVE  accepted[l] + Cardinality({d \in SocketClients :
                          sockCall'[d].step \in {"accepted", "count"} /\ sockCall'[d].from = l})
                     = Cardinality({j \in ConnectionIds : origin[j] = l})
      BY <2>2, <1>a DEF AcceptsInv, AcceptsCounted
    <2> QED BY <2>1, <2>3 DEF AcceptsInv, AcceptsCounted
  <1>7. TransferInv'
    <2> SUFFICES ASSUME NEW d \in SocketClients, sockCall'[d].step = "blocking"
                 PROVE  /\ sockLock[sockCall'[d].id] = d
                        /\ sockStatus'["connections"][sockCall'[d].id] = "connected"
                        /\ sockCall'[d].id \in sockets["connections"]
      BY DEF TransferInv, TransferKeepsSocket, AtSocketStep
    <2>1. d # c /\ sockCall'[d] = sockCall[d]
      BY <1>c, <1>f
    <2>2. /\ sockLock[sockCall[d].id] = d /\ sockStatus["connections"][sockCall[d].id] = "connected"
          /\ sockCall[d].id \in sockets["connections"]
      BY <2>1, <1>a DEF TransferInv, TransferKeepsSocket, AtSocketStep
    <2>3. sockCall[d].id \in IdsOf("connections") /\ "connections" \in Registries
      BY <2>2, <1>a, StepKinds
    <2> QED BY <2>1, <2>2, <2>3, <1>b, <1>e
  <1> QED BY <1>1, <1>2, <1>3, <1>4, <1>5, <1>6, <1>7 DEF SocketInv

(* A start ends: it gave up, its resource is retained, or it returned and  *)
(* left its slot reserved.                                                 *)
LEMMA SocketStartEnds ==
    ASSUME SocketInv, NEW r \in Registries, NEW c \in StartingSocket(r), NEW id, id = sockCall[c].id,
           NEW k \in SockCalls, sockCall' = [sockCall EXCEPT ![c] = k],
           \/ sockCall[c].step = "accepted" /\ k.step = "count" /\ k.from = sockCall[c].from
           \/ sockCall[c].step # "accepted" /\ k.step = "idle",
           UNCHANGED <<protocol, sockNext, sockStatus, sockRegLock, sockLock, accepted, origin>>,
           \/ sockCall[c].step \in ClosedStart /\ ReleasePendingSocket(r) /\ UNCHANGED <<sockets, leaked>>
           \/ ReleasePendingSocket(r) /\ sockets' = [sockets EXCEPT ![r] = @ \cup {id}] /\ UNCHANGED leaked
           \/ /\ r = "connections" /\ sockCall[c].step \in ClosedStart
              /\ leaked' = leaked \cup {id} /\ UNCHANGED <<sockets, sockPending>>
    PROVE  SocketInv'
  <1>a. /\ SocketTypeOK /\ SocketSlots /\ SocketFresh /\ SocketUses /\ SocketsReachable
        /\ AcceptsInv /\ TransferInv /\ sockCall \in [SocketClients -> SockCalls]
        /\ sockNext \in [Registries -> Nat] /\ sockPending \in [Registries -> Nat]
        /\ DOMAIN sockets = Registries /\ leaked \subseteq ConnectionIds
        /\ \A q \in Registries : sockets[q] \subseteq IdsOf(q)
    BY SocketParts
  <1>b. /\ c \in SocketClients /\ id \in IdsOf(r) /\ id < sockNext[r] /\ id \notin sockets[r]
        /\ r = "connections" => id \notin leaked
        /\ sockCall[c].step \in ClosedStart => sockStatus[r][id] # OpenStatus(r)
        /\ \A d \in StartingSocket(r) : sockCall[d].id = id => d = c
    BY <1>a DEF SocketFresh, StartingSocket, OpenStatus
  <1>c. /\ sockCall'[c] = k /\ sockCall' \in [SocketClients -> SockCalls]
        /\ \A d \in SocketClients : d # c => sockCall'[d] = sockCall[d]
    BY <1>a, <1>b
  <1>d. \A q \in Registries : k.step \notin StartStep(q) \cup UseStep(q) /\ k.step # RemovalStep(q)
    BY DEF StartStep, UseStep, RemovalStep, ConnectionStart, ListenerStart
  <1>e. /\ StartingSocket(r)' = StartingSocket(r) \ {c}
        /\ \A q \in Registries : q # r => StartingSocket(q)' = StartingSocket(q)
        /\ \A q \in Registries : \A d \in StartingSocket(q)' :
              /\ d \in StartingSocket(q) /\ d \in SocketClients /\ sockCall'[d] = sockCall[d]
              /\ q = r => sockCall[d].id # id
    <2>1. \A q \in Registries : q # r => c \notin StartingSocket(q)
      BY StepKinds DEF StartingSocket
    <2>2. \A q \in Registries : StartingSocket(q)' = StartingSocket(q) \ {c}
      BY <1>c, <1>d DEF StartingSocket
    <2> QED BY <2>1, <2>2, <1>b, <1>c DEF StartingSocket
  <1>f. /\ DOMAIN sockets' = Registries
        /\ \A q \in Registries : q # r => sockets'[q] = sockets[q] /\ sockPending'[q] = sockPending[q]
        /\ \A q \in Registries : sockets[q] \subseteq sockets'[q]
        /\ sockets'[r] \subseteq sockets[r] \cup {id}
        /\ leaked \subseteq leaked' /\ (r # "connections" => leaked' = leaked)
        /\ leaked' \subseteq leaked \cup {id} /\ (leaked' # leaked => r = "connections")
    BY <1>a, <1>b DEF ReleasePendingSocket
  <1>g. /\ sockPending' \in [Registries -> Nat]
        /\ \/ /\ sockPending'[r] = sockPending[r] - 1 /\ leaked' = leaked
           \/ /\ sockPending' = sockPending /\ leaked' = leaked \cup {id} /\ r = "connections" /\ sockets' = sockets
    <2>1. sockPending[r] \in Nat /\ sockPending[r] > 0
      <3>1. sockPending[r] = Cardinality(StartingSocket(r)) + LeakedSlots(r) /\ LeakedSlots(r) \in Nat
        BY <1>a, SocketFinite DEF SocketSlots, LeakedSlots
      <3>2. Cardinality(StartingSocket(r)) # 0 /\ Cardinality(StartingSocket(r)) \in Nat
        BY <1>a, SocketFinite, FS_EmptySet
      <3> QED BY <3>1, <3>2
    <2>2. CASE ReleasePendingSocket(r) /\ leaked' = leaked
      <3>2. sockPending[r] - 1 \in Nat /\ sockPending[r] # 0
        BY <2>1
      <3>1. sockPending' = [sockPending EXCEPT ![r] = sockPending[r] - 1]
        BY <2>2, <3>2 DEF ReleasePendingSocket
      <3> QED BY <2>2, <3>1, <3>2, <1>a
    <2>3. CASE r = "connections" /\ leaked' = leaked \cup {id} /\ UNCHANGED <<sockets, sockPending>>
      BY <2>3, <1>a
    <2> QED BY <2>2, <2>3
  <1>1. SocketTypeOK'
    <2>1. \A q \in Registries : sockets'[q] \subseteq IdsOf(q)
      BY <1>a, <1>b, <1>f
    <2>2. leaked' \subseteq ConnectionIds
      BY <1>a, <1>b, <1>f, SocketIds
    <2> QED BY <2>1, <2>2, <1>a, <1>c, <1>f, <1>g DEF SocketTypeOK, SockCalls
  <1>2. SocketSlots'
    <2> SUFFICES ASSUME NEW q \in Registries
                 PROVE  /\ sockPending'[q] = Cardinality(StartingSocket(q)') + LeakedSlots(q)'
                        /\ Cardinality(sockets'[q]) + sockPending'[q] <= MaxRetainedSockets
      BY DEF SocketSlots
    <2>1. CASE q # r
      <3>1. LeakedSlots(q)' = LeakedSlots(q)
        BY <2>1, <1>f DEF LeakedSlots
      <3> QED BY <2>1, <3>1, <1>a, <1>e, <1>f DEF SocketSlots
    <2>2. CASE q = r
      <3>1. /\ sockPending[r] = Cardinality(StartingSocket(r)) + LeakedSlots(r)
            /\ Cardinality(sockets[r]) + sockPending[r] <= MaxRetainedSockets
            /\ sockPending[r] \in Nat /\ MaxRetainedSockets \in Nat
        BY <1>a, SocketIds DEF SocketSlots
      <3>2. /\ IsFiniteSet(StartingSocket(r)) /\ Cardinality(StartingSocket(r)) \in Nat
            /\ IsFiniteSet(sockets[r]) /\ Cardinality(sockets[r]) \in Nat
            /\ IsFiniteSet(leaked) /\ Cardinality(leaked) \in Nat /\ LeakedSlots(r) \in Nat
        BY <1>a, SocketFinite DEF LeakedSlots
      <3>3. Cardinality(StartingSocket(r)') = Cardinality(StartingSocket(r)) - 1
        BY <3>2, <1>e, FS_RemoveElement
      <3>4. Cardinality(sockets'[r]) <= Cardinality(sockets[r]) + 1 /\ Cardinality(sockets'[r]) \in Nat
        <4>1. IsFiniteSet(sockets[r] \cup {id}) /\ Cardinality(sockets[r] \cup {id}) = Cardinality(sockets[r]) + 1
          BY <3>2, <1>b, FS_AddElement
        <4> QED BY <4>1, <1>f, FS_Subset, FS_CardinalityType
      <3>5. CASE sockPending'[r] = sockPending[r] - 1 /\ leaked' = leaked
        <4>1. LeakedSlots(r)' = LeakedSlots(r)
          BY <3>5 DEF LeakedSlots
        <4>2. Cardinality(sockets'[r]) + sockPending'[r] <= MaxRetainedSockets
          BY <3>1, <3>2, <3>4, <3>5
        <4>3. sockPending'[r] = Cardinality(StartingSocket(r)') + LeakedSlots(r)'
          BY <3>1, <3>2, <3>3, <3>5, <4>1
        <4> QED BY <2>2, <4>2, <4>3
      <3>6. CASE sockPending' = sockPending /\ leaked' = leaked \cup {id} /\ r = "connections" /\ sockets' = sockets
        <4>1. LeakedSlots(r)' = LeakedSlots(r) + 1
          <5>1. Cardinality(leaked \cup {id}) = Cardinality(leaked) + 1
            BY <3>2, <3>6, <1>b, FS_AddElement
          <5> QED BY <3>6, <5>1 DEF LeakedSlots
        <4>2. sockPending'[r] = Cardinality(StartingSocket(r)') + LeakedSlots(r)'
          BY <3>1, <3>2, <3>3, <3>6, <4>1
        <4> QED BY <2>2, <3>1, <3>6, <4>2
      <3> QED BY <3>5, <3>6, <1>g
    <2> QED BY <2>1, <2>2
  <1>3. SocketFresh'
    <2>1. ASSUME NEW q \in Registries
          PROVE  /\ \A j \in sockets'[q] : j < sockNext[q]
                 /\ \A d \in StartingSocket(q)' :
                       /\ sockCall[d].id \notin sockets'[q]
                       /\ q = "connections" => sockCall[d].id \notin leaked'
      BY <1>a, <1>b, <1>e, <1>f DEF SocketFresh
    <2>2. \A j \in leaked' : j < sockNext["connections"]
      BY <1>a, <1>b, <1>f DEF SocketFresh
    <2>3. ASSUME NEW q \in Registries
          PROVE  /\ \A j \in IdsOf(q) : j >= sockNext[q] => sockStatus[q][j] = "none"
                 /\ \A d \in StartingSocket(q)' :
                       /\ sockCall[d].id \in IdsOf(q) /\ sockCall[d].id < sockNext[q]
                       /\ sockCall[d].step \in ClosedStart => sockStatus[q][sockCall[d].id] = "none"
                 /\ \A d, e \in StartingSocket(q)' : sockCall[d].id = sockCall[e].id => d = e
      BY <1>a, <1>e DEF SocketFresh
    <2>4. \A j \in ConnectionIds : j >= sockNext["connections"] => origin[j] = NoListener
      BY <1>a DEF SocketFresh
    <2> QED BY <2>1, <2>2, <2>3, <2>4, <1>e DEF SocketFresh
  <1>4. SocketUses'
    <2> SUFFICES ASSUME NEW q \in Registries, NEW d \in SocketClients
                 PROVE  /\ sockCall'[d].step \in UseStep(q) =>
                              /\ sockCall'[d].id \in IdsOf(q) /\ sockCall'[d].id < sockNext[q]
                              /\ \A e \in StartingSocket(q)' : sockCall'[e].id # sockCall'[d].id
                        /\ sockCall'[d].step = RemovalStep(q) => sockStatus[q][sockCall'[d].id] # OpenStatus(q)
      BY DEF SocketUses
    <2>1. CASE d = c
      BY <2>1, <1>c, <1>d
    <2>2. CASE d # c
      BY <2>2, <1>a, <1>c, <1>e DEF SocketUses
    <2> QED BY <2>1, <2>2
  <1>5. SocketsReachable'
    <2> SUFFICES ASSUME NEW q \in Registries, NEW j \in IdsOf(q), sockStatus[q][j] = OpenStatus(q)
                 PROVE  j \in sockets'[q] \/ \E d \in StartingSocket(q)' : sockCall'[d].id = j
      BY DEF SocketsReachable
    <2>1. j \in sockets[q] \/ \E d \in StartingSocket(q) : sockCall[d].id = j
      BY <1>a DEF SocketsReachable
    <2>2. CASE q = r /\ j = id
      <3>1. sockCall[c].step \notin ClosedStart
        BY <2>2, <1>b
      <3>2. sockets' = [sockets EXCEPT ![r] = @ \cup {id}]
        BY <3>1
      <3> QED BY <2>2, <3>2, <1>a
    <2>3. CASE ~(q = r /\ j = id)
      <3>1. \A d \in StartingSocket(q) : sockCall[d].id = j => d \in StartingSocket(q)'
        BY <2>3, <1>e
      <3> QED BY <2>1, <3>1, <1>e, <1>f
    <2> QED BY <2>2, <2>3
  <1>6. AcceptsInv'
    <2>1. \A d \in SocketClients : sockCall'[d].step \in AcceptSteps => sockCall'[d].from \in ListenerIds
      BY <1>a, <1>b, <1>c DEF AcceptsInv, AcceptSteps
    <2>2. \A l : {d \in SocketClients : sockCall'[d].step \in {"accepted", "count"} /\ sockCall'[d].from = l}
                 = {d \in SocketClients : sockCall[d].step \in {"accepted", "count"} /\ sockCall[d].from = l}
      <3>1. sockCall[c].step # "count"
        BY DEF StartingSocket, StartStep, ConnectionStart, ListenerStart
      <3>2. \A l, d \in SocketClients : (sockCall'[d].step \in {"accepted", "count"} /\ sockCall'[d].from = l)
                   <=> (sockCall[d].step \in {"accepted", "count"} /\ sockCall[d].from = l)
        BY <3>1, <1>c
      <3> QED BY <3>1, <1>c
    <2>3. ASSUME NEW l \in ListenerIds
          PROVE  accepted[l] + Cardinality({d \in SocketClients :
                          sockCall'[d].step \in {"accepted", "count"} /\ sockCall'[d].from = l})
                     = Cardinality({j \in ConnectionIds : origin[j] = l})
      BY <2>2, <1>a DEF AcceptsInv, AcceptsCounted
    <2> QED BY <2>1, <2>3 DEF AcceptsInv, AcceptsCounted
  <1>7. TransferInv'
    <2> SUFFICES ASSUME NEW d \in SocketClients, sockCall'[d].step = "blocking"
                 PROVE  /\ sockLock[sockCall'[d].id] = d
                        /\ sockStatus["connections"][sockCall'[d].id] = "connected"
                        /\ sockCall'[d].id \in sockets'["connections"]
      BY DEF TransferInv, TransferKeepsSocket, AtSocketStep
    <2>1. d # c /\ sockCall'[d] = sockCall[d]
      BY <1>c
    <2>2. /\ sockLock[sockCall[d].id] = d /\ sockStatus["connections"][sockCall[d].id] = "connected"
          /\ sockCall[d].id \in sockets["connections"]
      BY <2>1, <1>a DEF TransferInv, TransferKeepsSocket, AtSocketStep
    <2> QED BY <2>1, <2>2, <1>f, StepKinds
  <1> QED BY <1>1, <1>2, <1>3, <1>4, <1>5, <1>6, <1>7 DEF SocketInv

(* A start reserves a slot and a fresh id; the one of an accept opens its  *)
(* connection at once.                                                     *)
LEMMA SocketReserves ==
    ASSUME SocketInv, NEW r \in Registries, NEW c \in SocketClients, NEW id, id = sockNext[r], ReserveSlot(r),
           NEW k \in SockCalls, sockCall' = [sockCall EXCEPT ![c] = k], k.id = id, k.step \in StartStep(r),
           sockCall[c].step \notin HoldingSteps, sockCall[c].step # "blocking",
           UNCHANGED <<protocol, sockets, sockRegLock, sockLock, accepted, leaked>>,
           \/ k.step \in {"connect", "bind"} /\ UNCHANGED <<sockStatus, origin>>
           \/ /\ r = "connections" /\ k.step = "accepted" /\ k.from \in ListenerIds
              /\ SetStatus(r, id, "connected") /\ origin' = [origin EXCEPT ![id] = k.from]
    PROVE  SocketInv'
  <1>a. /\ SocketTypeOK /\ SocketSlots /\ SocketFresh /\ SocketUses /\ SocketsReachable
        /\ AcceptsInv /\ TransferInv /\ sockCall \in [SocketClients -> SockCalls]
        /\ sockNext \in [Registries -> Nat] /\ sockPending \in [Registries -> Nat] /\ DOMAIN sockStatus = Registries
        /\ leaked \subseteq ConnectionIds /\ origin \in [ConnectionIds -> ListenerIds \cup {NoListener}]
        /\ \A q \in Registries :
              sockets[q] \subseteq IdsOf(q) /\ sockStatus[q] \in [IdsOf(q) -> SockStatuses(q)]
    BY SocketParts
  <1>b. /\ id \in IdsOf(r) /\ id \in Nat /\ sockStatus[r][id] = "none"
        /\ \A j \in sockets[r] : j # id
        /\ r = "connections" => id \notin leaked /\ origin[id] = NoListener
        /\ \A d \in StartingSocket(r) : sockCall[d].id # id
        /\ \A d \in SocketClients : sockCall[d].step \in UseStep(r) => sockCall[d].id # id
    <2>1. id \in IdsOf(r) /\ id \in Nat /\ id >= sockNext[r] /\ ~(id < sockNext[r])
      BY <1>a, SocketIds DEF ReserveSlot
    <2>2. \A j \in sockets[r] : j < sockNext[r]
      BY <1>a DEF SocketFresh
    <2>3. r = "connections" => id \notin leaked /\ origin[id] = NoListener
      BY <2>1, <1>a, SocketIds DEF SocketFresh
    <2>4. \A d \in StartingSocket(r) : sockCall[d].id # id
      BY <2>1, <1>a DEF SocketFresh
    <2>5. \A d \in SocketClients : sockCall[d].step \in UseStep(r) => sockCall[d].id # id
      BY <2>1, <1>a DEF SocketUses
    <2>6. sockStatus[r][id] = "none"
      BY <2>1, <1>a DEF SocketFresh
    <2> QED BY <2>1, <2>2, <2>3, <2>4, <2>5, <2>6
  <1>c. /\ sockCall'[c] = k /\ sockCall' \in [SocketClients -> SockCalls]
        /\ \A d \in SocketClients : d # c => sockCall'[d] = sockCall[d]
    BY <1>a
  <1>d. /\ StartingSocket(r)' = StartingSocket(r) \cup {c} /\ c \notin StartingSocket(r)
        /\ \A q \in Registries : q # r => StartingSocket(q)' = StartingSocket(q)
        /\ \A q \in Registries : \A d \in StartingSocket(q) : d \in SocketClients /\ d # c /\ sockCall'[d] = sockCall[d]
    <2>1. \A q \in Registries : sockCall[c].step \notin StartStep(q) /\ (q # r => k.step \notin StartStep(q))
      BY StepKinds DEF StartStep, HoldingSteps
    <2> QED BY <2>1, <1>c DEF StartingSocket
  <1>e. /\ sockNext' \in [Registries -> Nat] /\ sockPending' \in [Registries -> Nat]
        /\ sockNext'[r] = sockNext[r] + 1 /\ sockPending'[r] = sockPending[r] + 1
        /\ \A q \in Registries : q # r => sockNext'[q] = sockNext[q] /\ sockPending'[q] = sockPending[q]
    <2>1. sockNext[r] + 1 \in Nat /\ sockPending[r] + 1 \in Nat
      BY <1>a
    <2> QED BY <2>1, <1>a DEF ReserveSlot
  <1>f. /\ DOMAIN sockStatus' = Registries
        /\ \A q \in Registries : sockStatus'[q] \in [IdsOf(q) -> SockStatuses(q)]
        /\ \A q \in Registries : q # r => sockStatus'[q] = sockStatus[q]
        /\ \A j \in IdsOf(r) : j # id => sockStatus'[r][j] = sockStatus[r][j]
        /\ k.step # "accepted" => sockStatus'[r][id] = "none"
    <2>1. r = "connections" => "connected" \in SockStatuses(r)
      BY DEF SockStatuses, OpenStatus
    <2>2. CASE r = "connections" /\ k.step = "accepted" /\ SetStatus(r, id, "connected")
      BY <2>1, <2>2, <1>b, SetStatusFacts
    <2>3. CASE k.step \in {"connect", "bind"} /\ UNCHANGED sockStatus
      BY <2>3, <1>a, <1>b
    <2> QED BY <2>2, <2>3
  <1>g. /\ \A q \in Registries : k.step \notin UseStep(q) /\ k.step # RemovalStep(q)
        /\ k.step \notin {"blocking", "count"} /\ sockCall[c].step \notin {"accepted", "count"}
    BY StepKinds DEF HoldingSteps, ConnectionStart, ListenerStart, StartStep
  <1>h. \A q \in Registries : \A j \in IdsOf(q) :
            /\ j >= sockNext'[q] => j >= sockNext[q] /\ (q = r => j # id)
            /\ j < sockNext[q] => j < sockNext'[q]
    BY <1>a, <1>e, SocketIds
  <1>i. \A q \in Registries : \A d \in StartingSocket(q)' : d # c => d \in StartingSocket(q)
    BY <1>d
  <1>1. SocketTypeOK'
    <2>1. origin' \in [ConnectionIds -> ListenerIds \cup {NoListener}]
      BY <1>a, <1>b, SocketIds
    <2> QED BY <2>1, <1>a, <1>c, <1>e, <1>f DEF SocketTypeOK, SockCalls, SockStatuses
  <1>2. SocketSlots'
    <2> SUFFICES ASSUME NEW q \in Registries
                 PROVE  /\ sockPending'[q] = Cardinality(StartingSocket(q)') + LeakedSlots(q)
                        /\ Cardinality(sockets[q]) + sockPending'[q] <= MaxRetainedSockets
      BY DEF SocketSlots, LeakedSlots
    <2>1. CASE q # r
      BY <2>1, <1>a, <1>d, <1>e DEF SocketSlots
    <2>2. CASE q = r
      <3>1. /\ sockPending[r] = Cardinality(StartingSocket(r)) + LeakedSlots(r)
            /\ Cardinality(sockets[r]) + sockPending[r] < MaxRetainedSockets
            /\ sockPending[r] \in Nat /\ MaxRetainedSockets \in Nat
        BY <1>a, SocketIds DEF SocketSlots, ReserveSlot, SocketSlotAvailable
      <3>2. /\ IsFiniteSet(StartingSocket(r)) /\ Cardinality(StartingSocket(r)) \in Nat
            /\ Cardinality(sockets[r]) \in Nat /\ LeakedSlots(r) \in Nat
        BY <1>a, SocketFinite DEF LeakedSlots
      <3>3. Cardinality(StartingSocket(r)') = Cardinality(StartingSocket(r)) + 1
        <4>1. Cardinality(StartingSocket(r) \cup {c}) = Cardinality(StartingSocket(r)) + 1
          BY <3>2, <1>d, FS_AddElement
        <4> QED BY <4>1, <1>d
      <3>4. sockPending'[r] = Cardinality(StartingSocket(r)') + LeakedSlots(r)
        BY <3>1, <3>2, <3>3, <1>e
      <3>5. Cardinality(sockets[r]) + sockPending'[r] <= MaxRetainedSockets
        BY <3>1, <3>2, <1>e
      <3> QED BY <2>2, <3>4, <3>5
    <2> QED BY <2>1, <2>2
  <1>3. SocketFresh'
    <2>1. ASSUME NEW q \in Registries
          PROVE  /\ \A j \in IdsOf(q) : j >= sockNext'[q] => sockStatus'[q][j] = "none"
                 /\ \A j \in sockets[q] : j < sockNext'[q]
                 /\ \A d, e \in StartingSocket(q)' : sockCall'[d].id = sockCall'[e].id => d = e
      <3>1. \A j \in IdsOf(q) : j >= sockNext'[q] => sockStatus'[q][j] = "none"
        BY <1>a, <1>f, <1>h DEF SocketFresh
      <3>2. \A j \in sockets[q] : j < sockNext'[q]
        BY <1>a, <1>h DEF SocketFresh
      <3>3. ASSUME NEW d \in StartingSocket(q)', NEW e \in StartingSocket(q)', sockCall'[d].id = sockCall'[e].id
            PROVE  d = e
        <4>1. CASE d # c /\ e # c
          BY <3>3, <4>1, <1>a, <1>d, <1>i DEF SocketFresh
        <4>2. CASE d = c \/ e = c
          <5>1. q = r
            BY <4>2, <1>d
          <5>2. \A x \in StartingSocket(r) : sockCall'[x].id # id
            BY <1>b, <1>d
          <5> QED BY <3>3, <4>2, <5>1, <5>2, <1>c, <1>i
        <4> QED BY <4>1, <4>2
      <3> QED BY <3>1, <3>2, <3>3
    <2>2. ASSUME NEW q \in Registries, NEW d \in StartingSocket(q)'
          PROVE  /\ sockCall'[d].id \in IdsOf(q) /\ sockCall'[d].id < sockNext'[q]
                 /\ sockCall'[d].id \notin sockets[q]
                 /\ q = "connections" => sockCall'[d].id \notin leaked
                 /\ sockCall'[d].step \in ClosedStart => sockStatus'[q][sockCall'[d].id] = "none"
      <3>1. CASE d = c
        <4>1. q = r
          BY <3>1, <1>d
        <4>2. id < sockNext'[r]
          BY <1>a, <1>e
        <4>3. k.step \in ClosedStart => k.step # "accepted"
          BY DEF ClosedStart
        <4> QED BY <3>1, <4>1, <4>2, <4>3, <1>b, <1>c, <1>f
      <3>2. CASE d # c
        <4>1. /\ d \in StartingSocket(q) /\ sockCall'[d] = sockCall[d] /\ (q = r => sockCall[d].id # id)
          BY <3>2, <1>b, <1>d, <1>i
        <4>2. /\ sockCall[d].id \in IdsOf(q) /\ sockCall[d].id < sockNext[q]
              /\ sockCall[d].id \notin sockets[q]
              /\ q = "connections" => sockCall[d].id \notin leaked
              /\ sockCall[d].step \in ClosedStart => sockStatus[q][sockCall[d].id] = "none"
          BY <4>1, <1>a DEF SocketFresh
        <4> QED BY <4>1, <4>2, <1>f, <1>h
      <3> QED BY <3>1, <3>2
    <2>3. \A j \in leaked : j < sockNext'["connections"]
      BY <1>a, <1>h, StepKinds, SocketIds DEF SocketFresh
    <2>4. \A j \in ConnectionIds : j >= sockNext'["connections"] => origin'[j] = NoListener
      <3>1. \A j \in ConnectionIds : j >= sockNext'["connections"] =>
                j >= sockNext["connections"] /\ (r = "connections" => j # id)
        BY <1>h, StepKinds, SocketIds
      <3>2. \A j \in ConnectionIds : (r = "connections" => j # id) => origin'[j] = origin[j]
        BY <1>a
      <3> QED BY <3>1, <3>2, <1>a DEF SocketFresh
    <2> QED BY <2>1, <2>2, <2>3, <2>4 DEF SocketFresh
  <1>4. SocketUses'
    <2> SUFFICES ASSUME NEW q \in Registries, NEW d \in SocketClients
                 PROVE  /\ sockCall'[d].step \in UseStep(q) =>
                              /\ sockCall'[d].id \in IdsOf(q) /\ sockCall'[d].id < sockNext'[q]
                              /\ \A e \in StartingSocket(q)' : sockCall'[e].id # sockCall'[d].id
                        /\ sockCall'[d].step = RemovalStep(q) => sockStatus'[q][sockCall'[d].id] # OpenStatus(q)
      BY DEF SocketUses
    <2>1. CASE d = c
      BY <2>1, <1>c, <1>g
    <2>2. CASE d # c
      <3>1. /\ sockCall[d].step \in UseStep(q) =>
                  /\ sockCall[d].id \in IdsOf(q) /\ sockCall[d].id < sockNext[q]
                  /\ \A e \in StartingSocket(q) : sockCall[e].id # sockCall[d].id
            /\ sockCall[d].step = RemovalStep(q) => sockStatus[q][sockCall[d].id] # OpenStatus(q)
        BY <1>a DEF SocketUses
      <3>2. RemovalStep(q) \in UseStep(q)
        BY StepKinds
      <3>3. sockCall[d].step \in UseStep(q) /\ q = r => sockCall[d].id # id
        BY <1>b
      <3>4. sockCall[d].step \in UseStep(q) => \A e \in StartingSocket(q)' : sockCall'[e].id # sockCall[d].id
        <4>1. \A e \in StartingSocket(q)' : e = c => q = r /\ sockCall'[e].id = id
          BY <1>c, <1>d
        <4> QED BY <3>1, <3>3, <4>1, <1>d, <1>i
      <3> QED BY <2>2, <3>1, <3>2, <3>3, <3>4, <1>c, <1>f, <1>h
    <2> QED BY <2>1, <2>2
  <1>5. SocketsReachable'
    <2> SUFFICES ASSUME NEW q \in Registries, NEW j \in IdsOf(q), sockStatus'[q][j] = OpenStatus(q)
                 PROVE  j \in sockets[q] \/ \E d \in StartingSocket(q)' : sockCall'[d].id = j
      BY DEF SocketsReachable
    <2>1. CASE q = r /\ j = id
      BY <2>1, <1>c, <1>d
    <2>2. CASE ~(q = r /\ j = id)
      <3>1. sockStatus[q][j] = OpenStatus(q)
        BY <2>2, <1>f
      <3>2. \A d \in StartingSocket(q) : d \in StartingSocket(q)' /\ sockCall'[d].id = sockCall[d].id
        BY <1>d
      <3> QED BY <3>1, <3>2, <1>a DEF SocketsReachable
    <2> QED BY <2>1, <2>2
  <1>6. AcceptsInv'
    <2>1. \A d \in SocketClients : sockCall'[d].step \in AcceptSteps => sockCall'[d].from \in ListenerIds
      BY <1>a, <1>c DEF AcceptsInv, AcceptSteps
    <2> SUFFICES ASSUME NEW l \in ListenerIds
                 PROVE  accepted[l] + Cardinality({d \in SocketClients :
                          sockCall'[d].step \in {"accepted", "count"} /\ sockCall'[d].from = l})
                     = Cardinality({j \in ConnectionIds : origin'[j] = l})
      BY <2>1 DEF AcceptsInv, AcceptsCounted
    <2> DEFINE A == {d \in SocketClients : sockCall[d].step \in {"accepted", "count"} /\ sockCall[d].from = l}
               O == {j \in ConnectionIds : origin[j] = l}
    <2>2. /\ accepted[l] + Cardinality(A) = Cardinality(O) /\ accepted[l] \in Nat
          /\ IsFiniteSet(A) /\ IsFiniteSet(O) /\ Cardinality(A) \in Nat /\ Cardinality(O) \in Nat
      <3>1. IsFiniteSet(A) /\ IsFiniteSet(O)
        BY SocketAssumption, SocketIds, FS_Subset
      <3> QED BY <3>1, <1>a, FS_CardinalityType, SocketParts DEF AcceptsInv, AcceptsCounted
    <2>3. CASE k.step = "accepted" /\ k.from = l /\ r = "connections" /\ origin' = [origin EXCEPT ![id] = k.from]
      <3>1. id \in ConnectionIds /\ origin[id] = NoListener /\ l # NoListener
        BY <2>3, <1>b, SocketIds DEF NoListener
      <3>2. /\ {d \in SocketClients : sockCall'[d].step \in {"accepted", "count"} /\ sockCall'[d].from = l} = A \cup {c}
            /\ c \notin A
        BY <2>3, <1>c, <1>g
      <3>3. {j \in ConnectionIds : origin'[j] = l} = O \cup {id} /\ id \notin O
        BY <2>3, <3>1, <1>a
      <3> HIDE DEF A, O
      <3>4. Cardinality(A \cup {c}) = Cardinality(A) + 1 /\ Cardinality(O \cup {id}) = Cardinality(O) + 1
        BY <2>2, <3>2, <3>3, FS_AddElement
      <3>5. accepted[l] + Cardinality(A \cup {c}) = Cardinality(O \cup {id})
        BY <2>2, <3>4
      <3> QED BY <3>2, <3>3, <3>5
    <2>4. CASE ~(k.step = "accepted" /\ k.from = l)
      <3>1. {d \in SocketClients : sockCall'[d].step \in {"accepted", "count"} /\ sockCall'[d].from = l} = A
        BY <2>4, <1>c, <1>g
      <3>2. {j \in ConnectionIds : origin'[j] = l} = O
        <4>1. CASE UNCHANGED origin
          BY <4>1
        <4>2. CASE k.step = "accepted" /\ r = "connections" /\ origin' = [origin EXCEPT ![id] = k.from]
          <5>1. id \in ConnectionIds /\ origin[id] = NoListener /\ l # NoListener /\ k.from # l
            BY <2>4, <4>2, <1>b, SocketIds DEF NoListener
          <5> QED BY <4>2, <5>1, <1>a
        <4> QED BY <4>1, <4>2
      <3> QED BY <2>2, <3>1, <3>2
    <2> QED BY <2>3, <2>4
  <1>7. TransferInv'
    <2> SUFFICES ASSUME NEW d \in SocketClients, sockCall'[d].step = "blocking"
                 PROVE  /\ sockLock[sockCall'[d].id] = d
                        /\ sockStatus'["connections"][sockCall'[d].id] = "connected"
                        /\ sockCall'[d].id \in sockets["connections"]
      BY DEF TransferInv, TransferKeepsSocket, AtSocketStep
    <2>1. d # c /\ sockCall'[d] = sockCall[d]
      BY <1>c, <1>g
    <2>2. /\ sockLock[sockCall[d].id] = d /\ sockStatus["connections"][sockCall[d].id] = "connected"
          /\ sockCall[d].id \in sockets["connections"]
      BY <2>1, <1>a DEF TransferInv, TransferKeepsSocket, AtSocketStep
    <2>3. sockCall[d].id \in IdsOf("connections") /\ "connections" \in Registries
      BY <2>2, <1>a, StepKinds
    <2> QED BY <2>1, <2>2, <2>3, <1>b, <1>f
  <1> QED BY <1>1, <1>2, <1>3, <1>4, <1>5, <1>6, <1>7 DEF SocketInv

(* accepted_connections counts a connection that was retained.             *)
LEMMA CountKeeps ==
    ASSUME SocketInv, NEW c \in SocketClients, CountAccepted(c)
    PROVE  SocketInv'
  <1>a. /\ SocketTypeOK /\ SocketSlots /\ SocketFresh /\ SocketUses /\ SocketsReachable
        /\ AcceptsInv /\ TransferInv /\ sockCall \in [SocketClients -> SockCalls]
        /\ accepted \in [ListenerIds -> Nat]
    BY SocketParts
  <1>b. /\ sockCall[c].step = "count" /\ sockCall' = [sockCall EXCEPT ![c] = NoCall]
        /\ accepted' = [accepted EXCEPT ![sockCall[c].from] = @ + 1]
        /\ UNCHANGED <<protocol, sockNext, sockPending, sockets, sockRegLock, sockStatus, sockLock, origin, leaked>>
    BY DEF CountAccepted, AtSocketStep, SocketReturns, sockRegistryVars, sockHistory
  <1>c. /\ sockCall'[c] = NoCall /\ sockCall'[c].step = "idle" /\ sockCall' \in [SocketClients -> SockCalls]
        /\ \A d \in SocketClients : d # c => sockCall'[d] = sockCall[d]
    BY <1>a, <1>b, NoCallType
  <1>d. PICK f \in ListenerIds : f = sockCall[c].from
    BY <1>a, <1>b DEF AcceptsInv, AcceptSteps
  <1>e. \A q \in Registries : /\ StartingSocket(q)' = StartingSocket(q)
                              /\ \A d \in StartingSocket(q) : d # c /\ d \in SocketClients /\ sockCall'[d] = sockCall[d]
    <2>1. \A q \in Registries : "idle" \notin StartStep(q) /\ "count" \notin StartStep(q)
      BY DEF StartStep, ConnectionStart, ListenerStart
    <2> QED BY <2>1, <1>b, <1>c DEF StartingSocket
  <1>f. \A q \in Registries : "idle" \notin UseStep(q) /\ "idle" # RemovalStep(q)
    BY StepKinds
  <1>1. SocketTypeOK'
    <2>1. accepted' \in [ListenerIds -> Nat]
      BY <1>a, <1>b, <1>d
    <2> QED BY <2>1, <1>a, <1>b, <1>c DEF SocketTypeOK, SockCalls
  <1>2. SocketSlots' /\ SocketFresh'
    <2>1. SocketSlots'
      BY <1>a, <1>b, <1>e DEF SocketSlots, LeakedSlots
    <2>2. SocketFresh'
      BY <1>a, <1>b, <1>e DEF SocketFresh
    <2> QED BY <2>1, <2>2
  <1>3. SocketUses'
    BY <1>a, <1>b, <1>c, <1>e, <1>f DEF SocketUses
  <1>4. SocketsReachable'
    BY <1>a, <1>b, <1>e DEF SocketsReachable
  <1>5. AcceptsInv'
    <2>1. \A d \in SocketClients : sockCall'[d].step \in AcceptSteps => sockCall'[d].from \in ListenerIds
      BY <1>a, <1>c DEF AcceptsInv, AcceptSteps
    <2> SUFFICES ASSUME NEW l \in ListenerIds
                 PROVE  accepted'[l] + Cardinality({d \in SocketClients :
                          sockCall'[d].step \in {"accepted", "count"} /\ sockCall'[d].from = l})
                     = Cardinality({j \in ConnectionIds : origin[j] = l})
      BY <2>1, <1>b DEF AcceptsInv, AcceptsCounted
    <2> DEFINE A == {d \in SocketClients : sockCall[d].step \in {"accepted", "count"} /\ sockCall[d].from = l}
    <2>2. /\ accepted[l] + Cardinality(A) = Cardinality({j \in ConnectionIds : origin[j] = l}) /\ accepted[l] \in Nat
          /\ IsFiniteSet(A) /\ Cardinality(A) \in Nat
      <3>1. IsFiniteSet(A)
        BY SocketAssumption, FS_Subset
      <3> QED BY <3>1, <1>a, FS_CardinalityType DEF AcceptsInv, AcceptsCounted
    <2>3. CASE l = f
      <3>1. /\ {d \in SocketClients : sockCall'[d].step \in {"accepted", "count"} /\ sockCall'[d].from = l} = A \ {c}
            /\ c \in A
        BY <2>3, <1>b, <1>c, <1>d
      <3>2. accepted'[l] = accepted[l] + 1
        BY <2>3, <1>a, <1>b, <1>d
      <3> HIDE DEF A
      <3>3. Cardinality(A \ {c}) = Cardinality(A) - 1
        BY <2>2, <3>1, FS_RemoveElement
      <3>4. accepted'[l] + Cardinality(A \ {c}) = Cardinality({j \in ConnectionIds : origin[j] = l})
        BY <2>2, <3>2, <3>3
      <3> QED BY <3>1, <3>4
    <2>4. CASE l # f
      <3>1. {d \in SocketClients : sockCall'[d].step \in {"accepted", "count"} /\ sockCall'[d].from = l} = A
        BY <2>4, <1>b, <1>c, <1>d
      <3>2. accepted'[l] = accepted[l]
        BY <2>4, <1>a, <1>b, <1>d
      <3> QED BY <2>2, <3>1, <3>2
    <2> QED BY <2>3, <2>4
  <1>6. TransferInv'
    BY <1>a, <1>b, <1>c DEF TransferInv, TransferKeepsSocket, AtSocketStep
  <1> QED BY <1>1, <1>2, <1>3, <1>4, <1>5, <1>6 DEF SocketInv

(* connect, listen and the start of an accepted connection                 *)
LEMMA SocketStartSteps ==
    ASSUME SocketInv, NEW c \in SocketClients,
           \/ BeginConnect(c) \/ BeginListen(c) \/ RetainAccepted(c)
           \/ ConnectFails(c) \/ TcpConnect(c) \/ WebSocketConnect(c) \/ ListenFails(c) \/ Listen(c)
           \/ ConnectGivesUp(c) \/ FinishConnect(c) \/ ListenGivesUp(c) \/ FinishListen(c) \/ FinishAccept(c)
    PROVE  SocketInv'
  <1>a. /\ sockCall \in [SocketClients -> SockCalls] /\ sockNext \in [Registries -> Nat]
        /\ AcceptsInv /\ SocketFresh
    BY SocketParts
  <1>b. "connections" \in Registries /\ "listeners" \in Registries
    BY StepKinds
  <1>c. NoCall \in SockCalls /\ NoCall.step = "idle"
    BY NoCallType
  <1>d. /\ "connect" \in StartStep("connections") /\ "bind" \in StartStep("listeners")
        /\ "accepted" \in StartStep("connections")
        /\ {"connect", "bind", "accepted", "connected", "bound", "give_up", "bind_failed", "count"} \subseteq SocketSteps
        /\ "idle" \notin HoldingSteps /\ "retain" \notin HoldingSteps
    BY DEF StartStep, ConnectionStart, ListenerStart, SocketSteps, AcceptSteps, HoldingSteps
  <1>1. ASSUME NEW r \in Registries, NEW step \in {"connect", "bind"}, step \in StartStep(r),
               sockCall[c].step = "idle", ReserveSlot(r), SocketCalls(c, step, sockNext[r]),
               UNCHANGED <<protocol, sockets, sockRegLock, sockStatus, sockLock, accepted, sockHistory>>
        PROVE  SocketInv'
    <2>1. sockNext[r] \in Nat /\ step \in SocketSteps
      BY <1>a, <1>d
    <2>2. PICK k \in SockCalls : sockCall' = [sockCall EXCEPT ![c] = k] /\ k.step = step /\ k.id = sockNext[r]
      BY <1>1, <2>1, NewCall
    <2>3. UNCHANGED <<protocol, sockets, sockRegLock, sockLock, accepted, leaked>> /\ UNCHANGED <<sockStatus, origin>>
      BY <1>1 DEF sockHistory
    <2> QED BY <1>1, <2>2, <2>3, <1>d, SocketReserves
  <1>2. CASE BeginConnect(c)
    BY <1>2, <1>1, <1>b, <1>d DEF BeginConnect, AtSocketStep
  <1>3. CASE BeginListen(c)
    BY <1>3, <1>1, <1>b, <1>d DEF BeginListen, AtSocketStep
  <1>4. CASE RetainAccepted(c)
    <2>1. PICK id \in Nat : id = sockNext["connections"]
      BY <1>a, <1>b
    <2> DEFINE k == [sockCall[c] EXCEPT !.step = "accepted", !.id = id]
    <2>2. k \in SockCalls /\ k.step = "accepted" /\ k.id = id /\ k.from = sockCall[c].from
      BY <1>a, <1>d DEF SockCalls
    <2>3. /\ sockCall' = [sockCall EXCEPT ![c] = k] /\ sockCall[c].step = "retain" /\ ReserveSlot("connections")
          /\ SetStatus("connections", id, "connected") /\ origin' = [origin EXCEPT ![id] = sockCall[c].from]
          /\ UNCHANGED <<protocol, sockets, sockRegLock, sockLock, accepted, leaked>>
      BY <1>4, <2>1 DEF RetainAccepted, AtSocketStep
    <2> HIDE DEF k
    <2>4. k.from \in ListenerIds
      BY <2>2, <2>3, <1>a DEF AcceptsInv, AcceptSteps
    <2>5. sockCall[c].step \notin HoldingSteps /\ sockCall[c].step # "blocking" /\ origin' = [origin EXCEPT ![id] = k.from]
          /\ k.step \in StartStep("connections")
      BY <2>2, <2>3, <1>d
    <2> QED BY <2>1, <2>2, <2>3, <2>4, <2>5, <1>b, SocketReserves
  <1>5. ASSUME NEW r \in Registries, sockCall[c].step \in {"connect", "bind"}, sockCall[c].step \in StartStep(r),
               NEW step \in {"connected", "bound", "give_up", "bind_failed"}, step \in StartStep(r), SocketGoTo(c, step),
               IF step \in {"connected", "bound"} THEN SetStatus(r, sockCall[c].id, OpenStatus(r)) ELSE UNCHANGED sockStatus,
               UNCHANGED <<protocol, sockRegistryVars, sockLock, accepted, sockHistory>>
        PROVE  SocketInv'
    <2>1. PICK k \in SockCalls : sockCall' = [sockCall EXCEPT ![c] = k] /\ k.step = step /\ k.id = sockCall[c].id
      BY <1>5, <1>a, <1>d, GoToCall
    <2>2. c \in StartingSocket(r)
      BY <1>5 DEF StartingSocket
    <2>3. UNCHANGED <<protocol, sockNext, sockPending, sockets, sockRegLock, sockLock, accepted, origin, leaked>>
      BY <1>5 DEF sockRegistryVars, sockHistory
    <2> QED BY <1>5, <2>1, <2>2, <2>3, SocketStartKeeps
  <1>6. /\ {"connect", "connected", "give_up"} \subseteq StartStep("connections")
        /\ {"bind", "bound", "bind_failed"} \subseteq StartStep("listeners")
        /\ OpenStatus("connections") = "connected" /\ OpenStatus("listeners") = "listening"
    BY DEF StartStep, ConnectionStart, ListenerStart, OpenStatus
  <1>7. CASE ConnectFails(c) \/ TcpConnect(c)
    BY <1>7, <1>5, <1>6, <1>b DEF ConnectFails, TcpConnect, AtSocketStep
  <1>8. CASE ListenFails(c) \/ Listen(c)
    BY <1>8, <1>5, <1>6, <1>b DEF ListenFails, Listen, AtSocketStep
  <1>9. CASE WebSocketConnect(c)
    <2>1. CASE /\ SetStatus("connections", sockCall[c].id, "connected") /\ SocketGoTo(c, "connected") /\ UNCHANGED leaked
      <3>1. UNCHANGED <<protocol, sockRegistryVars, sockLock, accepted, sockHistory>> /\ sockCall[c].step = "connect"
        BY <2>1, <1>9 DEF WebSocketConnect, AtSocketStep, sockHistory
      <3> QED BY <2>1, <3>1, <1>5, <1>6, <1>b
    <2>2. CASE SocketReturns(c) /\ leaked' = leaked \cup {sockCall[c].id} /\ UNCHANGED sockStatus
      <3>1. /\ sockCall[c].step = "connect" /\ sockCall' = [sockCall EXCEPT ![c] = NoCall]
            /\ UNCHANGED <<protocol, sockNext, sockPending, sockets, sockRegLock, sockStatus, sockLock, accepted, origin>>
        BY <2>2, <1>9 DEF WebSocketConnect, AtSocketStep, SocketReturns, sockRegistryVars
      <3>2. c \in StartingSocket("connections") /\ sockCall[c].step \in ClosedStart
        BY <3>1, <1>d DEF StartingSocket, ClosedStart
      <3> QED BY <2>2, <3>1, <3>2, <1>b, <1>c, SocketStartEnds
    <2> QED BY <1>9, <2>1, <2>2 DEF WebSocketConnect
  <1>10. ASSUME NEW r \in Registries, sockCall[c].step \in StartStep(r), sockCall[c].step \in ClosedStart, GiveUpStart(c, r)
         PROVE  SocketInv'
    <2>1. /\ ReleasePendingSocket(r) /\ sockCall' = [sockCall EXCEPT ![c] = NoCall]
          /\ UNCHANGED <<protocol, sockNext, sockets, sockStatus, sockRegLock, sockLock, accepted, origin, leaked>>
      BY <1>10 DEF GiveUpStart, SocketReturns, sockHistory
    <2>2. c \in StartingSocket(r) /\ sockCall[c].step # "accepted"
      BY <1>10 DEF StartingSocket, ClosedStart
    <2> QED BY <1>10, <2>1, <2>2, <1>c, SocketStartEnds
  <1>11. CASE ConnectGivesUp(c)
    BY <1>11, <1>10, <1>6, <1>b DEF ConnectGivesUp, AtSocketStep, ClosedStart
  <1>12. CASE ListenGivesUp(c)
    BY <1>12, <1>10, <1>6, <1>b DEF ListenGivesUp, AtSocketStep, ClosedStart
  <1>13. ASSUME NEW r \in Registries, sockCall[c].step \in StartStep(r), FinishStart(c, r), NEW k \in SockCalls,
                sockCall' = [sockCall EXCEPT ![c] = k],
                \/ sockCall[c].step = "accepted" /\ k.step = "count" /\ k.from = sockCall[c].from
                \/ sockCall[c].step # "accepted" /\ k.step = "idle"
         PROVE  SocketInv'
    <2>1. /\ ReleasePendingSocket(r) /\ sockets' = [sockets EXCEPT ![r] = @ \cup {sockCall[c].id}]
          /\ UNCHANGED <<protocol, sockNext, sockStatus, sockRegLock, sockLock, accepted, origin, leaked>>
      BY <1>13 DEF FinishStart, sockHistory
    <2>2. c \in StartingSocket(r)
      BY <1>13 DEF StartingSocket
    <2> QED BY <1>13, <2>1, <2>2, SocketStartEnds
  <1>14. CASE FinishConnect(c)
    <2>1. sockCall[c].step = "connected" /\ FinishStart(c, "connections") /\ sockCall' = [sockCall EXCEPT ![c] = NoCall]
      BY <1>14 DEF FinishConnect, AtSocketStep, SocketReturns
    <2> QED BY <2>1, <1>13, <1>6, <1>b, <1>c
  <1>15. CASE FinishListen(c)
    <2>1. sockCall[c].step = "bound" /\ FinishStart(c, "listeners") /\ sockCall' = [sockCall EXCEPT ![c] = NoCall]
      BY <1>15 DEF FinishListen, AtSocketStep, SocketReturns
    <2> QED BY <2>1, <1>13, <1>6, <1>b, <1>c
  <1>16. CASE FinishAccept(c)
    <2>1. sockCall[c].step = "accepted" /\ FinishStart(c, "connections") /\ SocketGoTo(c, "count")
      BY <1>16 DEF FinishAccept, AtSocketStep
    <2>2. PICK k \in SockCalls : /\ sockCall' = [sockCall EXCEPT ![c] = k] /\ k.step = "count"
                                 /\ k.from = sockCall[c].from
      BY <2>1, <1>a, <1>d, GoToCall
    <2> QED BY <2>1, <2>2, <1>13, <1>d, <1>b
  <1> QED BY <1>2, <1>3, <1>4, <1>7, <1>8, <1>9, <1>11, <1>12, <1>14, <1>15, <1>16

(* Every step keeps the invariant.                                         *)
LEMMA SocketStep == SocketInv /\ [SocketNext]_socketVars => SocketInv'
  <1> SUFFICES ASSUME SocketInv, [SocketNext]_socketVars PROVE SocketInv'
    OBVIOUS
  <1>1. ASSUME NEW c \in SocketClients, SocketCall(c) PROVE SocketInv'
    BY <1>1, SocketStartSteps, SocketCallKeeps DEF SocketCall
  <1>2. ASSUME NEW c \in SocketClients, SocketProceed(c) PROVE SocketInv'
    BY <1>2, SocketStartSteps, AcceptKeeps, CountKeeps, SocketUseKeeps, SocketListKeeps DEF SocketProceed
  <1>3. CASE UNCHANGED socketVars
    <2>1. /\ SocketTypeOK /\ SocketSlots /\ SocketFresh /\ SocketUses /\ SocketsReachable
          /\ AcceptsInv /\ TransferInv
      BY DEF SocketInv
    <2>2. UNCHANGED <<protocol, sockNext, sockPending, sockets, sockRegLock, sockStatus, sockLock, sockCall, accepted,
                      origin, leaked>>
      BY <1>3 DEF socketVars, sockRegistryVars, sockHistory
    <2>3. \A r \in Registries : StartingSocket(r)' = StartingSocket(r) /\ LeakedSlots(r)' = LeakedSlots(r)
      BY <2>2 DEF StartingSocket, LeakedSlots
    <2>4. SocketTypeOK' /\ TransferInv'
      BY <2>1, <2>2 DEF SocketTypeOK, TransferInv, TransferKeepsSocket, AtSocketStep
    <2>5. SocketSlots' /\ SocketsReachable'
      BY <2>1, <2>2, <2>3 DEF SocketSlots, SocketsReachable
    <2>6. SocketFresh'
      BY <2>1, <2>2, <2>3 DEF SocketFresh
    <2>7. SocketUses'
      BY <2>1, <2>2, <2>3 DEF SocketUses
    <2>8. AcceptsInv'
      BY <2>1, <2>2 DEF AcceptsInv, AcceptsCounted
    <2> QED BY <2>4, <2>5, <2>6, <2>7, <2>8 DEF SocketInv
  <1> QED BY <1>1, <1>2, <1>3 DEF SocketNext

(* Connections and listeners are accounted for: pending starts are the     *)
(* ones threads are in and the ones WebSocket connects leaked, the limit   *)
(* covers them with what is retained, what is open can be reached, every   *)
(* accepted connection is counted once, and a read or a write keeps its    *)
(* connection open and retained until it returns.                          *)
THEOREM SocketsAreAccounted == SocketSpec => []SocketsAccounted
  <1>1. SocketInv => SocketsAccounted
    <2> SUFFICES ASSUME SocketInv PROVE SocketsAccounted
      OBVIOUS
    <2>1. SocketSlots /\ SocketsReachable /\ AcceptsInv /\ TransferInv
      BY DEF SocketInv
    <2>2. SlotsHeld
      BY <2>1 DEF SocketSlots, SocketsReachable, SlotsHeld
    <2> QED BY <2>1, <2>2 DEF AcceptsInv, TransferInv, SocketsAccounted
  <1> QED BY InitSockets, SocketStep, <1>1, PTL DEF SocketSpec

(* The ids that are reserved in a registry: those of its starts and those  *)
(* whose start kept its slot.                                              *)
SockReserved(r) == {sockCall[c].id : c \in StartingSocket(r)} \cup (IF r = "connections" THEN leaked ELSE {})

(* What may happen to a registry, as RetainedRegistry has it.              *)
SockSame(r) == sockNext'[r] = sockNext[r] /\ sockets'[r] = sockets[r] /\ SockReserved(r)' = SockReserved(r)
(* An id is reserved.                                                      *)
SockTaken(r) ==
    /\ sockNext[r] \in IdsOf(r)
    /\ Cardinality(SockReserved(r)) + Cardinality(sockets[r]) < MaxRetainedSockets
    /\ SockReserved(r)' = SockReserved(r) \cup {sockNext[r]}
    /\ sockNext'[r] = sockNext[r] + 1 /\ sockets'[r] = sockets[r]
(* A reservation is given up.                                              *)
SockGivenUp(r, id) ==
    /\ id \in SockReserved(r) /\ SockReserved(r)' = SockReserved(r) \ {id}
    /\ sockNext'[r] = sockNext[r] /\ sockets'[r] = sockets[r]
(* What was reserved is retained.                                          *)
SockRetained(r, id) ==
    /\ id \in SockReserved(r) /\ SockReserved(r)' = SockReserved(r) \ {id}
    /\ sockNext'[r] = sockNext[r] /\ sockets'[r] = sockets[r] \cup {id}
(* What was retained is released.                                          *)
SockReleased(r, id) ==
    /\ id \in sockets[r] /\ sockets'[r] = sockets[r] \ {id}
    /\ sockNext'[r] = sockNext[r] /\ SockReserved(r)' = SockReserved(r)
(* Any of these.                                                           *)
SockStep(r) ==
    \/ SockSame(r) \/ SockTaken(r)
    \/ \E id \in IdsOf(r) : SockGivenUp(r, id) \/ SockRetained(r, id) \/ SockReleased(r, id)

(* Only the call of c changes.                                             *)
OnlyCallOf(c) == \A d \in SocketClients : d # c => sockCall'[d] = sockCall[d]

(* The steps of a start in either registry.                                *)
AnyStart == ConnectionStart \cup ListenerStart

(* No more ids are reserved than slots are pending.                        *)
LEMMA SockReservedFit ==
    ASSUME SocketInv, NEW r \in Registries
    PROVE  Cardinality(SockReserved(r)) \in Nat /\ Cardinality(SockReserved(r)) <= sockPending[r]
  <1>a. SocketTypeOK /\ SocketSlots
    BY SocketParts
  <1> DEFINE f == [c \in StartingSocket(r) |-> sockCall[c].id]
             T == {sockCall[c].id : c \in StartingSocket(r)}
             L == IF r = "connections" THEN leaked ELSE {}
  <1>1. IsFiniteSet(StartingSocket(r)) /\ Cardinality(StartingSocket(r)) \in Nat
    BY <1>a, SocketFinite
  <1>2. f \in Surjection(StartingSocket(r), T)
    BY DEF Surjection
  <1>3. IsFiniteSet(T) /\ Cardinality(T) <= Cardinality(StartingSocket(r))
    <2> HIDE DEF f, T
    <2> QED BY <1>1, <1>2, FS_Surjection
  <1>4. IsFiniteSet(L) /\ Cardinality(L) = LeakedSlots(r) /\ Cardinality(L) \in Nat
    BY <1>a, SocketFinite, FS_EmptySet DEF LeakedSlots
  <1>5. SockReserved(r) = T \cup L
    BY DEF SockReserved
  <1>6. /\ IsFiniteSet(T \cup L) /\ Cardinality(T \cup L) <= Cardinality(T) + Cardinality(L)
        /\ Cardinality(T \cup L) \in Nat
    <2> HIDE DEF T, L
    <2>1. IsFiniteSet(T \cap L)
      BY <1>3, FS_Subset
    <2>2. Cardinality(T \cap L) \in Nat /\ Cardinality(T) \in Nat /\ Cardinality(L) \in Nat
      BY <1>3, <1>4, <2>1, FS_CardinalityType
    <2>3. IsFiniteSet(T \cup L) /\ Cardinality(T \cup L) = Cardinality(T) + Cardinality(L) - Cardinality(T \cap L)
      BY <1>3, <1>4, FS_Union
    <2>4. Cardinality(T \cup L) \in Nat
      BY <2>3, FS_CardinalityType
    <2> QED BY <2>2, <2>3, <2>4
  <1>7. Cardinality(T) \in Nat
    BY <1>3, FS_CardinalityType
  <1>8. sockPending[r] = Cardinality(StartingSocket(r)) + LeakedSlots(r)
    BY <1>a DEF SocketSlots
  <1> HIDE DEF T, L
  <1> QED BY <1>1, <1>3, <1>4, <1>5, <1>6, <1>7, <1>8

(* A call that stays in its start, or outside of one, reserves nothing.    *)
LEMMA SockReservedStays ==
    ASSUME NEW c \in SocketClients, OnlyCallOf(c), NEW r \in Registries, UNCHANGED leaked,
           sockCall[c].step \in StartStep(r) <=> sockCall'[c].step \in StartStep(r),
           sockCall[c].step \in StartStep(r) => sockCall'[c].id = sockCall[c].id
    PROVE  SockReserved(r)' = SockReserved(r)
  <1>1. StartingSocket(r)' = StartingSocket(r)
    BY DEF StartingSocket, OnlyCallOf
  <1>2. \A d \in StartingSocket(r) : sockCall'[d].id = sockCall[d].id
    BY DEF StartingSocket, OnlyCallOf
  <1> QED BY <1>1, <1>2 DEF SockReserved

(* A call that is in no start before or after.                             *)
LEMMA SockQuiet ==
    ASSUME NEW c \in SocketClients, OnlyCallOf(c), UNCHANGED <<sockNext, sockets, leaked>>,
           sockCall[c].step \notin AnyStart, sockCall'[c].step \notin AnyStart
    PROVE  \A r \in Registries : SockSame(r)
  <1>1. \A r \in Registries : StartStep(r) \subseteq AnyStart
    BY DEF StartStep, AnyStart
  <1> QED BY <1>1, SockReservedStays DEF SockSame

(* A start that goes on.                                                   *)
LEMMA SockGoesOn ==
    ASSUME SocketInv, NEW c \in SocketClients, NEW step \in SocketSteps, SocketGoTo(c, step),
           UNCHANGED <<sockNext, sockets, leaked>>, NEW q \in Registries,
           sockCall[c].step \in StartStep(q), step \in StartStep(q)
    PROVE  \A r \in Registries : SockSame(r)
  <1>1. sockCall \in [SocketClients -> SockCalls]
    BY SocketParts
  <1>2. OnlyCallOf(c) /\ sockCall'[c].step = step /\ sockCall'[c].id = sockCall[c].id
    BY <1>1 DEF SocketGoTo, OnlyCallOf, SockCalls
  <1>3. \A r \in Registries : r # q => StartStep(r) \cap StartStep(q) = {}
    BY StepKinds
  <1> QED BY <1>2, <1>3, SockReservedStays DEF SockSame

(* A slot is taken.                                                        *)
LEMMA SockReserves ==
    ASSUME SocketInv, NEW c \in SocketClients, OnlyCallOf(c), NEW q \in Registries, ReserveSlot(q),
           UNCHANGED <<sockets, leaked>>, sockCall[c].step \notin AnyStart,
           sockCall'[c].step \in StartStep(q), sockCall'[c].id = sockNext[q]
    PROVE  \A r \in Registries : SockStep(r)
  <1>a. /\ sockNext \in [Registries -> Nat] /\ sockPending \in [Registries -> Nat] /\ SocketTypeOK
    BY SocketParts
  <1>b. /\ SocketSlotAvailable(q) /\ sockNext[q] \in IdsOf(q)
        /\ sockNext' = [sockNext EXCEPT ![q] = sockNext[q] + 1]
    BY DEF ReserveSlot
  <1>c. \A r \in Registries : StartStep(r) \subseteq AnyStart /\ (r # q => StartStep(r) \cap StartStep(q) = {})
    BY StepKinds DEF StartStep, AnyStart
  <1>1. SockTaken(q)
    <2>1. StartingSocket(q)' = StartingSocket(q) \cup {c} /\ c \notin StartingSocket(q)
      BY <1>c DEF StartingSocket, OnlyCallOf
    <2>2. \A d \in StartingSocket(q) : sockCall'[d].id = sockCall[d].id
      BY <2>1 DEF StartingSocket, OnlyCallOf
    <2>3. SockReserved(q)' = SockReserved(q) \cup {sockNext[q]}
      BY <2>1, <2>2 DEF SockReserved
    <2>4. Cardinality(SockReserved(q)) + Cardinality(sockets[q]) < MaxRetainedSockets
      <3>1. Cardinality(SockReserved(q)) \in Nat /\ Cardinality(SockReserved(q)) <= sockPending[q]
        BY SockReservedFit
      <3>2. Cardinality(sockets[q]) \in Nat /\ MaxRetainedSockets \in Nat
        BY <1>a, SocketFinite, SocketIds
      <3> QED BY <3>1, <3>2, <1>a, <1>b DEF SocketSlotAvailable
    <2> QED BY <2>3, <2>4, <1>a, <1>b DEF SockTaken
  <1>2. ASSUME NEW r \in Registries, r # q PROVE SockSame(r)
    BY <1>2, <1>a, <1>b, <1>c, SockReservedStays DEF SockSame
  <1> QED BY <1>1, <1>2 DEF SockStep

(* A start ends: its id, and no other, is no longer reserved.              *)
LEMMA SockStartEnds ==
    ASSUME SocketInv, NEW c \in SocketClients, OnlyCallOf(c), NEW q \in Registries,
           UNCHANGED <<sockNext, leaked>>, sockCall[c].step \in StartStep(q), sockCall'[c].step \notin AnyStart
    PROVE  /\ sockCall[c].id \in SockReserved(q) /\ sockCall[c].id \in IdsOf(q)
           /\ SockReserved(q)' = SockReserved(q) \ {sockCall[c].id}
           /\ \A r \in Registries : r # q => SockReserved(r)' = SockReserved(r)
  <1>a. SocketFresh
    BY SocketParts
  <1>c. \A r \in Registries : StartStep(r) \subseteq AnyStart /\ (r # q => StartStep(r) \cap StartStep(q) = {})
    BY StepKinds DEF StartStep, AnyStart
  <1>1. StartingSocket(q)' = StartingSocket(q) \ {c} /\ c \in StartingSocket(q)
    BY <1>c DEF StartingSocket, OnlyCallOf
  <1>2. \A d \in StartingSocket(q) : d # c => sockCall'[d].id = sockCall[d].id /\ sockCall[d].id # sockCall[c].id
    BY <1>1, <1>a DEF StartingSocket, OnlyCallOf, SocketFresh
  <1>3. q = "connections" => sockCall[c].id \notin leaked
    BY <1>1, <1>a DEF SocketFresh
  <1>4. SockReserved(q)' = SockReserved(q) \ {sockCall[c].id}
    BY <1>1, <1>2, <1>3 DEF SockReserved
  <1>5. sockCall[c].id \in SockReserved(q) /\ sockCall[c].id \in IdsOf(q)
    BY <1>1, <1>a DEF SockReserved, SocketFresh
  <1> QED BY <1>4, <1>5, <1>c, SockReservedStays

(* connect, listen and the start of an accepted connection                 *)
LEMMA SockStartsRefine ==
    ASSUME SocketInv, NEW c \in SocketClients,
           \/ BeginConnect(c) \/ BeginListen(c) \/ RetainAccepted(c)
           \/ ConnectFails(c) \/ TcpConnect(c) \/ WebSocketConnect(c) \/ ListenFails(c) \/ Listen(c)
           \/ ConnectGivesUp(c) \/ FinishConnect(c) \/ ListenGivesUp(c) \/ FinishListen(c) \/ FinishAccept(c)
    PROVE  \A r \in Registries : SockStep(r)
  <1>a. /\ sockCall \in [SocketClients -> SockCalls] /\ sockCall[c] \in SockCalls
        /\ sockNext \in [Registries -> Nat] /\ DOMAIN sockets = Registries
    BY SocketParts
  <1>b. /\ "connections" \in Registries /\ "listeners" \in Registries
        /\ ConnectionStart = StartStep("connections") /\ ListenerStart = StartStep("listeners")
    BY DEF Registries, StartStep
  <1>c. NoCall.step \notin AnyStart /\ "idle" \notin AnyStart /\ "retain" \notin AnyStart /\ "count" \notin AnyStart
    BY NoCallType DEF AnyStart, ConnectionStart, ListenerStart
  <1>d. /\ {"connect", "connected", "give_up", "accepted"} = ConnectionStart
        /\ {"bind", "bound", "bind_failed"} = ListenerStart
        /\ ConnectionStart \cup ListenerStart \cup {"count"} \subseteq SocketSteps
    BY DEF ConnectionStart, ListenerStart, SocketSteps, AcceptSteps
  <1>1. ASSUME NEW q \in Registries, NEW step \in StartStep(q), sockCall[c].step = "idle", ReserveSlot(q),
               SocketCalls(c, step, sockNext[q]), UNCHANGED <<sockets, leaked>>
        PROVE  \A r \in Registries : SockStep(r)
    <2>1. OnlyCallOf(c) /\ sockCall'[c].step = step /\ sockCall'[c].id = sockNext[q]
      BY <1>1, <1>a DEF SocketCalls, OnlyCallOf, NoCall
    <2> QED BY <2>1, <1>1, <1>c, SockReserves
  <1>2. CASE BeginConnect(c)
    BY <1>2, <1>1, <1>b, <1>d DEF BeginConnect, AtSocketStep, sockHistory
  <1>3. CASE BeginListen(c)
    BY <1>3, <1>1, <1>b, <1>d DEF BeginListen, AtSocketStep, sockHistory
  <1>4. CASE RetainAccepted(c)
    <2>1. /\ sockCall[c].step = "retain" /\ ReserveSlot("connections") /\ UNCHANGED <<sockets, leaked>>
          /\ sockCall' = [sockCall EXCEPT ![c].step = "accepted", ![c].id = sockNext["connections"]]
      BY <1>4 DEF RetainAccepted, AtSocketStep
    <2>2. OnlyCallOf(c) /\ sockCall'[c].step = "accepted" /\ sockCall'[c].id = sockNext["connections"]
      BY <2>1, <1>a DEF OnlyCallOf, SockCalls
    <2> QED BY <2>1, <2>2, <1>b, <1>c, <1>d, SockReserves
  <1>5. CASE ConnectFails(c) \/ TcpConnect(c)
    <2>1. /\ sockCall[c].step = "connect" /\ UNCHANGED <<sockNext, sockets, leaked>>
          /\ SocketGoTo(c, "give_up") \/ SocketGoTo(c, "connected")
      BY <1>5 DEF ConnectFails, TcpConnect, AtSocketStep, sockRegistryVars, sockHistory
    <2> QED BY <2>1, <1>b, <1>d, SockGoesOn DEF SockStep
  <1>6. CASE ListenFails(c) \/ Listen(c)
    <2>1. /\ sockCall[c].step = "bind" /\ UNCHANGED <<sockNext, sockets, leaked>>
          /\ SocketGoTo(c, "bind_failed") \/ SocketGoTo(c, "bound")
      BY <1>6 DEF ListenFails, Listen, AtSocketStep, sockRegistryVars, sockHistory
    <2> QED BY <2>1, <1>b, <1>d, SockGoesOn DEF SockStep
  <1>7. CASE WebSocketConnect(c)
    <2>1. /\ sockCall[c].step = "connect" /\ UNCHANGED <<sockNext, sockets>>
          /\ \/ SocketGoTo(c, "connected") /\ UNCHANGED leaked
             \/ SocketReturns(c) /\ leaked' = leaked \cup {sockCall[c].id}
      BY <1>7 DEF WebSocketConnect, AtSocketStep, sockRegistryVars
    <2>2. CASE SocketGoTo(c, "connected") /\ UNCHANGED leaked
      BY <2>1, <2>2, <1>b, <1>d, SockGoesOn DEF SockStep
    <2>3. CASE SocketReturns(c) /\ leaked' = leaked \cup {sockCall[c].id}
      <3>1. OnlyCallOf(c) /\ sockCall'[c].step \notin AnyStart
        BY <2>3, <1>a, <1>c DEF SocketReturns, OnlyCallOf
      <3>2. /\ StartingSocket("connections")' = StartingSocket("connections") \ {c}
            /\ c \in StartingSocket("connections")
            /\ StartingSocket("listeners")' = StartingSocket("listeners")
            /\ c \notin StartingSocket("listeners")
        BY <3>1, <2>1, <1>b, <1>d DEF StartingSocket, OnlyCallOf, AnyStart
      <3>3. \A r \in Registries : \A d \in StartingSocket(r) : d # c => sockCall'[d].id = sockCall[d].id
        BY <3>1 DEF StartingSocket, OnlyCallOf
      <3>4. SockReserved("connections")' = SockReserved("connections")
        BY <3>2, <3>3, <2>3, <1>b DEF SockReserved
      <3>5. SockReserved("listeners")' = SockReserved("listeners")
        BY <3>2, <3>3, <1>b DEF SockReserved
      <3> QED BY <3>4, <3>5, <2>1 DEF SockStep, SockSame, Registries
    <2> QED BY <2>1, <2>2, <2>3
  <1>8. ASSUME NEW q \in Registries, sockCall[c].step \in StartStep(q), GiveUpStart(c, q)
        PROVE  \A r \in Registries : SockStep(r)
    <2>1. UNCHANGED <<sockNext, sockets, leaked>> /\ SocketReturns(c)
      BY <1>8 DEF GiveUpStart, sockHistory
    <2>2. OnlyCallOf(c) /\ sockCall'[c].step \notin AnyStart
      BY <2>1, <1>a, <1>c DEF SocketReturns, OnlyCallOf
    <2>3. /\ sockCall[c].id \in SockReserved(q) /\ sockCall[c].id \in IdsOf(q)
          /\ SockReserved(q)' = SockReserved(q) \ {sockCall[c].id}
          /\ \A r \in Registries : r # q => SockReserved(r)' = SockReserved(r)
      BY <2>1, <2>2, <1>8, SockStartEnds
    <2>4. PICK id \in IdsOf(q) : id = sockCall[c].id
      BY <2>3
    <2>5. SockGivenUp(q, id)
      BY <2>1, <2>3, <2>4 DEF SockGivenUp
    <2>6. \A r \in Registries : r # q => SockSame(r)
      BY <2>1, <2>3 DEF SockSame
    <2> QED BY <2>5, <2>6 DEF SockStep
  <1>9. ASSUME NEW q \in Registries, sockCall[c].step \in StartStep(q), FinishStart(c, q),
               OnlyCallOf(c), sockCall'[c].step \notin AnyStart
        PROVE  \A r \in Registries : SockStep(r)
    <2>1. /\ UNCHANGED <<sockNext, leaked>>
          /\ sockets' = [sockets EXCEPT ![q] = sockets[q] \cup {sockCall[c].id}]
      BY <1>9 DEF FinishStart, sockHistory
    <2>3. /\ sockCall[c].id \in SockReserved(q) /\ sockCall[c].id \in IdsOf(q)
          /\ SockReserved(q)' = SockReserved(q) \ {sockCall[c].id}
          /\ \A r \in Registries : r # q => SockReserved(r)' = SockReserved(r)
      BY <2>1, <1>9, SockStartEnds
    <2>4. PICK id \in IdsOf(q) : id = sockCall[c].id
      BY <2>3
    <2>5. SockRetained(q, id)
      BY <2>1, <2>3, <2>4, <1>a DEF SockRetained
    <2>6. \A r \in Registries : r # q => SockSame(r)
      BY <2>1, <2>3, <1>a DEF SockSame
    <2> QED BY <2>5, <2>6 DEF SockStep
  <1>10. CASE ConnectGivesUp(c) \/ ListenGivesUp(c)
    BY <1>10, <1>8, <1>b, <1>d DEF ConnectGivesUp, ListenGivesUp, AtSocketStep
  <1>11. ASSUME SocketReturns(c) PROVE OnlyCallOf(c) /\ sockCall'[c].step \notin AnyStart
    BY <1>11, <1>a, <1>c DEF SocketReturns, OnlyCallOf
  <1>12. CASE FinishConnect(c) \/ FinishListen(c)
    BY <1>12, <1>9, <1>11, <1>b, <1>d DEF FinishConnect, FinishListen, AtSocketStep
  <1>13. CASE FinishAccept(c)
    <2>1. sockCall[c].step = "accepted" /\ FinishStart(c, "connections") /\ SocketGoTo(c, "count")
      BY <1>13 DEF FinishAccept, AtSocketStep
    <2>2. OnlyCallOf(c) /\ sockCall'[c].step \notin AnyStart
      BY <2>1, <1>a, <1>c DEF SocketGoTo, OnlyCallOf, SockCalls
    <2> QED BY <2>1, <2>2, <1>9, <1>b, <1>d
  <1> QED BY <1>2, <1>3, <1>4, <1>5, <1>6, <1>7, <1>10, <1>12, <1>13

(* Everything else leaves the reservations alone, and takes at most a      *)
(* socket out.                                                             *)
LEMMA SockOthersRefine ==
    ASSUME SocketInv, NEW c \in SocketClients,
           \/ BeginSocketList(c)
           \/ \E id \in ConnectionIds, op \in {"io", "close", "release"} : ConnectionArc(c, op, id)
           \/ \E l \in ListenerIds :
                 \/ ListenerArc(c, l)
                 \/ \E op \in {"close_listener", "release_listener"} : ListenerCall(c, op, l)
           \/ AcceptRefused(c) \/ CloneListener(c) \/ AcceptStream(c) \/ AcceptTimesOut(c)
           \/ AcceptFails(c) \/ AcceptShakesHands(c) \/ AcceptFull(c) \/ CountAccepted(c)
           \/ BeginTransfer(c) \/ TcpTransfer(c) \/ WebSocketTransfer(c)
           \/ CloseSocket(c) \/ CheckClosed(c) \/ RemoveSocket(c)
           \/ ListNextSocket(c) \/ EndSocketList(c)
           \/ CloseListener(c) \/ CheckListenerClosed(c) \/ RemoveListener(c)
    PROVE  \A r \in Registries : SockStep(r)
  <1>a. /\ sockCall \in [SocketClients -> SockCalls] /\ sockCall[c] \in SockCalls
        /\ DOMAIN sockets = Registries /\ SocketUses
    BY SocketParts
  <1>b. \A r \in Registries : StartStep(r) \subseteq AnyStart
    BY DEF StartStep, AnyStart
  <1>c. ASSUME SocketReturns(c) PROVE OnlyCallOf(c) /\ sockCall'[c].step \notin AnyStart
    BY <1>c, <1>a, NoCallType DEF SocketReturns, OnlyCallOf, AnyStart, ConnectionStart, ListenerStart
  <1>d. ASSUME NEW step, SocketGoTo(c, step), step \notin AnyStart
        PROVE  OnlyCallOf(c) /\ sockCall'[c].step \notin AnyStart
    BY <1>d, <1>a DEF SocketGoTo, OnlyCallOf, SockCalls
  <1>e. ASSUME NEW step, NEW id, SocketCalls(c, step, id), step \notin AnyStart
        PROVE  OnlyCallOf(c) /\ sockCall'[c].step \notin AnyStart
    BY <1>e, <1>a DEF SocketCalls, OnlyCallOf, NoCall
  <1>f. ASSUME UNCHANGED <<sockNext, sockets, leaked>>, OnlyCallOf(c), sockCall[c].step \notin AnyStart,
               sockCall'[c].step \notin AnyStart
        PROVE  \A r \in Registries : SockStep(r)
    BY <1>f, SockQuiet DEF SockStep
  <1>g. {"idle", "io", "blocking", "close", "release", "remove", "list", "close_listener", "release_listener",
         "remove_listener", "accept", "waiting", "handshake", "retain", "count"} \cap AnyStart = {}
    BY DEF AnyStart, ConnectionStart, ListenerStart
  <1>1. CASE BeginSocketList(c)
    <2>1. /\ sockCall[c].step = "idle" /\ UNCHANGED <<sockNext, sockets, leaked>>
          /\ sockCall' = [sockCall EXCEPT ![c].step = "list", ![c].todo = sockets["connections"]]
      BY <1>1 DEF BeginSocketList, AtSocketStep, sockHistory
    <2>2. OnlyCallOf(c) /\ sockCall'[c].step = "list"
      BY <2>1, <1>a DEF OnlyCallOf, SockCalls
    <2> QED BY <2>1, <2>2, <1>f, <1>g
  <1>2. CASE \E id \in ConnectionIds, op \in {"io", "close", "release"} : ConnectionArc(c, op, id)
    <2>1. PICK id \in ConnectionIds, op \in {"io", "close", "release"} : ConnectionArc(c, op, id)
      BY <1>2
    <2>2. SocketCalls(c, op, id) /\ sockCall[c].step = "idle" /\ UNCHANGED <<sockNext, sockets, leaked>>
      BY <2>1 DEF ConnectionArc, AtSocketStep, sockRegistryVars, sockHistory
    <2> QED BY <2>2, <1>e, <1>f, <1>g
  <1>3. CASE \E l \in ListenerIds, op \in {"close_listener", "release_listener"} : ListenerCall(c, op, l)
    <2>1. PICK l \in ListenerIds, op \in {"close_listener", "release_listener"} : ListenerCall(c, op, l)
      BY <1>3
    <2>2. SocketCalls(c, op, l) /\ sockCall[c].step = "idle" /\ UNCHANGED <<sockNext, sockets, leaked>>
      BY <2>1 DEF ListenerCall, AtSocketStep, sockRegistryVars, sockHistory
    <2> QED BY <2>2, <1>e, <1>f, <1>g
  <1>4. CASE \E l \in ListenerIds : ListenerArc(c, l)
    <2>1. PICK l \in ListenerIds : ListenerArc(c, l)
      BY <1>4
    <2>2. /\ sockCall[c].step = "idle" /\ UNCHANGED <<sockNext, sockets, leaked>>
          /\ sockCall' = [sockCall EXCEPT ![c].step = "accept", ![c].from = l]
      BY <2>1 DEF ListenerArc, AtSocketStep, sockRegistryVars, sockHistory
    <2>3. OnlyCallOf(c) /\ sockCall'[c].step = "accept"
      BY <2>2, <1>a DEF OnlyCallOf, SockCalls
    <2> QED BY <2>2, <2>3, <1>f, <1>g
  <1>5. CASE \/ AcceptRefused(c) \/ CloneListener(c) \/ AcceptStream(c) \/ AcceptTimesOut(c)
             \/ AcceptFails(c) \/ AcceptShakesHands(c) \/ AcceptFull(c) \/ CountAccepted(c)
    <2>1. /\ sockCall[c].step \in {"accept", "waiting", "handshake", "retain", "count"}
          /\ UNCHANGED <<sockNext, sockets, leaked>>
          /\ SocketReturns(c) \/ \E step \in {"waiting", "handshake", "retain"} : SocketGoTo(c, step)
      BY <1>5 DEF AcceptRefused, CloneListener, AcceptStream, AcceptTimesOut, AcceptFails, AcceptShakesHands,
                  AcceptFull, CountAccepted, AtSocketStep, sockRegistryVars, sockHistory
    <2> QED BY <2>1, <1>c, <1>d, <1>f, <1>g
  <1>6. CASE \/ BeginTransfer(c) \/ TcpTransfer(c) \/ WebSocketTransfer(c)
             \/ CloseSocket(c) \/ CheckClosed(c)
    <2>1. /\ sockCall[c].step \in {"io", "blocking", "close", "release"}
          /\ UNCHANGED <<sockNext, sockets, leaked>>
          /\ SocketReturns(c) \/ \E step \in {"blocking", "remove"} : SocketGoTo(c, step)
      BY <1>6 DEF BeginTransfer, TcpTransfer, WebSocketTransfer, EndTransfer, CloseSocket, CheckClosed,
                  AtSocketStep, sockRegistryVars, sockHistory
    <2> QED BY <2>1, <1>c, <1>d, <1>f, <1>g
  <1>7. CASE CloseListener(c) \/ CheckListenerClosed(c)
    <2>1. /\ sockCall[c].step \in {"close_listener", "release_listener"}
          /\ UNCHANGED <<sockNext, sockets, leaked>>
          /\ SocketReturns(c) \/ SocketGoTo(c, "remove_listener")
      BY <1>7 DEF CloseListener, CheckListenerClosed, AtSocketStep, sockRegistryVars, sockHistory
    <2> QED BY <2>1, <1>c, <1>d, <1>f, <1>g
  <1>8. CASE ListNextSocket(c) \/ EndSocketList(c)
    <2>1. /\ sockCall[c].step = "list" /\ UNCHANGED <<sockNext, sockets, leaked>>
          /\ \/ SocketReturns(c)
             \/ sockCall' = [sockCall EXCEPT ![c].todo = sockCall[c].todo \ {Min(sockCall[c].todo)}]
      BY <1>8 DEF ListNextSocket, EndSocketList, AtSocketStep, sockRegistryVars, sockHistory
    <2>2. ASSUME NEW T, sockCall' = [sockCall EXCEPT ![c].todo = T]
          PROVE  OnlyCallOf(c) /\ sockCall'[c].step = sockCall[c].step
      BY <2>2, <1>a DEF OnlyCallOf, SockCalls
    <2> QED BY <2>1, <2>2, <1>c, <1>f, <1>g
  <1>9. ASSUME NEW q \in Registries, sockCall[c].step = RemovalStep(q), SocketReturns(c),
               UNCHANGED <<sockNext, leaked>>, sockets' = [sockets EXCEPT ![q] = sockets[q] \ {sockCall[c].id}]
        PROVE  \A r \in Registries : SockStep(r)
    <2>1. sockCall[c].step \notin AnyStart
      BY <1>9, <1>g DEF RemovalStep
    <2>2. \A r \in Registries : SockReserved(r)' = SockReserved(r)
      BY <2>1, <1>9, <1>b, <1>c, SockReservedStays
    <2>3. \A r \in Registries : r # q => SockSame(r)
      BY <2>2, <1>9, <1>a DEF SockSame
    <2>4. PICK id \in IdsOf(q) : id = sockCall[c].id
      BY <1>9, <1>a, StepKinds DEF SocketUses
    <2>5. SockReleased(q, id) \/ SockSame(q)
      BY <2>2, <2>4, <1>9, <1>a DEF SockReleased, SockSame
    <2> QED BY <2>3, <2>5 DEF SockStep
  <1>10. CASE RemoveSocket(c)
    <2>1. "connections" \in Registries /\ RemovalStep("connections") = "remove"
      BY DEF Registries, RemovalStep
    <2> QED BY <1>10, <2>1, <1>9 DEF RemoveSocket, AtSocketStep, sockHistory
  <1>11. CASE RemoveListener(c)
    <2>1. "listeners" \in Registries /\ RemovalStep("listeners") = "remove_listener"
      BY DEF Registries, RemovalStep
    <2> QED BY <1>11, <2>1, <1>9 DEF RemoveListener, AtSocketStep, sockHistory
  <1> QED BY <1>1, <1>2, <1>3, <1>4, <1>5, <1>6, <1>7, <1>8, <1>10, <1>11

(* The steps of the two registries are those of RetainedRegistry.          *)
LEMMA SockStepsRefine ==
    ASSUME \A r \in Registries : SockStep(r)
    PROVE  /\ [RetainedConnections!Next]_(RetainedConnections!vars)
           /\ [RetainedListeners!Next]_(RetainedListeners!vars)
  <1>1. /\ \A S : RetainedConnections!Cardinality(S) = Cardinality(S)
        /\ \A S : RetainedListeners!Cardinality(S) = Cardinality(S)
    BY DEF RetainedConnections!Cardinality, RetainedListeners!Cardinality, Cardinality
  <1>2. /\ SockStep("connections") /\ SockStep("listeners")
        /\ IdsOf("connections") = RetainedConnections!Ids /\ IdsOf("listeners") = RetainedListeners!Ids
    BY DEF Registries, IdsOf, RetainedConnections!Ids, RetainedListeners!Ids, ConnectionIds, ListenerIds
  <1>3. [RetainedConnections!Next]_(RetainedConnections!vars)
    <2>1. CASE SockSame("connections")
      BY <2>1 DEF SockSame, SockReserved, RetainedConnections!vars
    <2>2. CASE SockTaken("connections")
      <3>1. RetainedConnections!Reserve
        BY <2>2, <1>1, <1>2 DEF SockTaken, SockReserved, RetainedConnections!Reserve
      <3> QED BY <3>1 DEF RetainedConnections!Next
    <2>3. ASSUME NEW id \in IdsOf("connections"), SockGivenUp("connections", id)
          PROVE  RetainedConnections!Next
      <3>1. RetainedConnections!GiveUp(id)
        BY <2>3 DEF SockGivenUp, SockReserved, RetainedConnections!GiveUp
      <3> QED BY <3>1, <1>2 DEF RetainedConnections!Next
    <2>4. ASSUME NEW id \in IdsOf("connections"), SockRetained("connections", id)
          PROVE  RetainedConnections!Next
      <3>1. RetainedConnections!Retain(id)
        BY <2>4 DEF SockRetained, SockReserved, RetainedConnections!Retain
      <3> QED BY <3>1, <1>2 DEF RetainedConnections!Next
    <2>5. ASSUME NEW id \in IdsOf("connections"), SockReleased("connections", id)
          PROVE  RetainedConnections!Next
      <3>1. RetainedConnections!Release(id)
        BY <2>5 DEF SockReleased, SockReserved, RetainedConnections!Release
      <3> QED BY <3>1, <1>2 DEF RetainedConnections!Next
    <2> QED BY <1>2, <2>1, <2>2, <2>3, <2>4, <2>5 DEF SockStep
  <1>4. [RetainedListeners!Next]_(RetainedListeners!vars)
    <2>0. SockReserved("listeners") = {sockCall[c].id : c \in StartingSocket("listeners")}
          /\ SockReserved("listeners")' = {sockCall[c].id : c \in StartingSocket("listeners")}'
      BY DEF SockReserved
    <2>1. CASE SockSame("listeners")
      BY <2>0, <2>1 DEF SockSame, RetainedListeners!vars
    <2>2. CASE SockTaken("listeners")
      <3>1. RetainedListeners!Reserve
        BY <2>0, <2>2, <1>1, <1>2 DEF SockTaken, RetainedListeners!Reserve
      <3> QED BY <3>1 DEF RetainedListeners!Next
    <2>3. ASSUME NEW id \in IdsOf("listeners"), SockGivenUp("listeners", id)
          PROVE  RetainedListeners!Next
      <3>1. RetainedListeners!GiveUp(id)
        BY <2>0, <2>3 DEF SockGivenUp, RetainedListeners!GiveUp
      <3> QED BY <3>1, <1>2 DEF RetainedListeners!Next
    <2>4. ASSUME NEW id \in IdsOf("listeners"), SockRetained("listeners", id)
          PROVE  RetainedListeners!Next
      <3>1. RetainedListeners!Retain(id)
        BY <2>0, <2>4 DEF SockRetained, RetainedListeners!Retain
      <3> QED BY <3>1, <1>2 DEF RetainedListeners!Next
    <2>5. ASSUME NEW id \in IdsOf("listeners"), SockReleased("listeners", id)
          PROVE  RetainedListeners!Next
      <3>1. RetainedListeners!Release(id)
        BY <2>0, <2>5 DEF SockReleased, RetainedListeners!Release
      <3> QED BY <3>1, <1>2 DEF RetainedListeners!Next
    <2> QED BY <1>2, <2>1, <2>2, <2>3, <2>4, <2>5 DEF SockStep
  <1> QED BY <1>3, <1>4

(* The connection and the listener registries each implement               *)
(* RetainedRegistry, whatever connects, accepts, listens, failing starts   *)
(* and racing releases interleave (reserve_connection_slot,                *)
(* finish_connection_start, release_pending_start, retain_accepted,        *)
(* release and their counterparts for listeners).                          *)
THEOREM SocketsImplementRetained == SocketSpec => SocketsRetained
  <1>1. SocketInit => RetainedConnections!Init /\ RetainedListeners!Init
    <2> SUFFICES ASSUME SocketInit PROVE RetainedConnections!Init /\ RetainedListeners!Init
      OBVIOUS
    <2>1. \A r \in Registries : StartingSocket(r) = {}
      <3>1. \A c \in SocketClients : sockCall[c].step = "idle"
        BY NoCallType DEF SocketInit
      <3> QED BY <3>1, StepKinds DEF StartingSocket
    <2>2. StartingSocket("connections") = {} /\ StartingSocket("listeners") = {}
      BY <2>1 DEF Registries
    <2>3. \A r \in Registries : sockNext[r] = 0 /\ sockets[r] = {}
      BY DEF SocketInit
    <2> QED BY <2>2, <2>3 DEF SocketInit, Registries, RetainedConnections!Init, RetainedListeners!Init
  <1>2. SocketInv /\ [SocketNext]_socketVars =>
           [RetainedConnections!Next]_(RetainedConnections!vars) /\ [RetainedListeners!Next]_(RetainedListeners!vars)
    <2> SUFFICES ASSUME SocketInv, [SocketNext]_socketVars PROVE \A r \in Registries : SockStep(r)
      BY SockStepsRefine
    <2>1. ASSUME NEW c \in SocketClients, SocketCall(c) PROVE \A r \in Registries : SockStep(r)
      BY <2>1, SockStartsRefine, SockOthersRefine DEF SocketCall
    <2>2. ASSUME NEW c \in SocketClients, SocketProceed(c) PROVE \A r \in Registries : SockStep(r)
      BY <2>2, SockStartsRefine, SockOthersRefine DEF SocketProceed
    <2>3. CASE UNCHANGED socketVars
      <3>1. UNCHANGED <<sockNext, sockets, sockCall, leaked>>
        BY <2>3 DEF socketVars, sockRegistryVars, sockHistory
      <3>2. \A r \in Registries : StartingSocket(r)' = StartingSocket(r)
        BY <3>1 DEF StartingSocket
      <3> QED BY <3>1, <3>2 DEF SockStep, SockSame, SockReserved
    <2> QED BY <2>1, <2>2, <2>3 DEF SocketNext
  <1> QED BY <1>1, <1>2, InitSockets, SocketStep, PTL
          DEF SocketSpec, SocketsRetained, RetainedConnections!Spec, RetainedListeners!Spec

=============================================================================
