---------------------------- MODULE StreamRuntime ----------------------------
(***************************************************************************)
(* Retained HTTP response streams and uploaded files                       *)
(* (crates/ricochet_vm/src/http_stream_runtime.rs, upload_runtime.rs).     *)
(*                                                                         *)
(* http_stream_start retains a stream and starts its worker thread, which  *)
(* sends the request and appends the body chunk by chunk.  VM threads      *)
(* read, cancel and release the stream meanwhile; a cancelled stream can   *)
(* be released while its worker still waits for the server.  An upload is  *)
(* a finished temporary file that lives until its last handle is dropped.  *)
(* The two registries share no state, so a behaviour is about one of them. *)
(* Bytes are counted, not stored.  The server is external.                 *)
(***************************************************************************)
EXTENDS Integers, FiniteSets, FiniteSetsExt

CONSTANTS
    StreamClients,      \* VM threads that call the stream words
    MaxStreams,         \* bound: streams, and uploads, that are ever retained
    MaxRetainedStreams, \* max_retained of both registries
    BodyMax,            \* max_response_bytes of every request
    ServerBytes,        \* bound: bytes the server sends
    ChunkMax,           \* bound: bytes of one chunk
    ReadSizes,          \* max_bytes a reader passes
    UploadSize          \* bytes of an uploaded file

ASSUME StreamAssumption ==
    /\ IsFiniteSet(StreamClients)
    /\ {MaxStreams, MaxRetainedStreams, BodyMax, ServerBytes, ChunkMax, UploadSize} \subseteq Nat
    /\ ReadSizes \subseteq Nat

VARIABLES
    streamKind,             \* the registry this behaviour is about
    streamNext, streams,    \* HTTP streams: next_id and the map
    stream,                 \* HttpStreamJobState of every id, and its worker
    uploadNext, uploads,    \* uploads: next_id and the map
    uploadFile,             \* uploads whose temporary file is on disk
    streamCall,             \* each client: its step and the stream it works on
    reader                  \* each client: the stream it follows, its offset, done or eof

streamVars ==
    <<streamKind, streamNext, streams, stream, uploadNext, uploads, uploadFile, streamCall, reader>>

StreamIds == 0 .. MaxStreams - 1
Active == {"connecting", "running"}
StreamStatuses == Active \cup {"none", "completed", "failed", "cancelled"}
WorkerSteps == {"none", "started", "sending", "loop", "reading", "append", "completing",
                "failing", "ended"}
StreamCallSteps == {"idle", "cancel", "release", "remove", "read", "read_upload", "eof_upload"}
NoStream == [status |-> "none", cancelRequested |-> FALSE, body |-> 0, truncated |-> FALSE,
             worker |-> "none", chunk |-> 0, received |-> 0]
NoStreamCall == [step |-> "idle", id |-> 0]
NoReader == [kind |-> "none", id |-> 0, offset |-> 0, done |-> FALSE]

StreamInit ==
    /\ streamKind \in {"http", "upload"}
    /\ streamNext = 0 /\ streams = {}
    /\ stream = [id \in StreamIds |-> NoStream]
    /\ uploadNext = 0 /\ uploads = {} /\ uploadFile = {}
    /\ streamCall = [c \in StreamClients |-> NoStreamCall]
    /\ reader = [c \in StreamClients |-> NoReader]

AtStreamStep(c, step) == streamCall[c].step = step
StreamReturns(c) == streamCall' = [streamCall EXCEPT ![c] = NoStreamCall]
WorkerAt(id, step) == stream[id].worker = step
WorkerGoesTo(id, step) == stream' = [stream EXCEPT ![id].worker = step]
uploadVars == <<uploadNext, uploads, uploadFile>>

-----------------------------------------------------------------------------
(* HttpStreamRegistry *)

(* start: the limit is checked, the stream inserted and its worker spawned *)
(* by one call; a full registry answers an error.                          *)
StartStream(c) ==
    /\ AtStreamStep(c, "idle")
    /\ streamKind = "http"
    /\ streamNext \in StreamIds
    /\ Cardinality(streams) < MaxRetainedStreams
    /\ streamNext' = streamNext + 1
    /\ streams' = streams \cup {streamNext}
    /\ stream' = [stream EXCEPT ![streamNext].status = "connecting", ![streamNext].worker = "started"]
    /\ UNCHANGED <<streamKind, uploadVars, streamCall, reader>>

(* stream_arc; an unknown id answers None                                  *)
StreamArc(c, op, id) ==
    /\ AtStreamStep(c, "idle")
    /\ id \in streams
    /\ streamCall' = [streamCall EXCEPT ![c] = [step |-> op, id |-> id]]
    /\ UNCHANGED <<streamKind, streamNext, streams, stream, uploadVars, reader>>

CancelStream(c) ==
    /\ AtStreamStep(c, "cancel")
    /\ stream' = [stream EXCEPT ![streamCall[c].id].cancelRequested = TRUE,
                                ![streamCall[c].id].status = IF @ \in Active THEN "cancelled" ELSE @]
    /\ StreamReturns(c)
    /\ UNCHANGED <<streamKind, streamNext, streams, uploadVars, reader>>

(* release looks at the status under the stream's mutex ...                *)
CheckStreamOver(c) ==
    /\ AtStreamStep(c, "release")
    /\ IF stream[streamCall[c].id].status \in Active
       THEN StreamReturns(c)
       ELSE streamCall' = [streamCall EXCEPT ![c].step = "remove"]
    /\ UNCHANGED <<streamKind, streamNext, streams, stream, uploadVars, reader>>

(* ... and removes it under the registry's.                                *)
RemoveStream(c) ==
    /\ AtStreamStep(c, "remove")
    /\ streams' = streams \ {streamCall[c].id}
    /\ StreamReturns(c)
    /\ UNCHANGED <<streamKind, streamNext, stream, uploadVars, reader>>

(* Mutant: a read is done once it has caught up, whatever the status.      *)
DoneWhenCaughtUp(s, nextOffset) == nextOffset >= s.body

StreamDone(s, nextOffset) == s.status \notin Active /\ nextOffset >= s.body

(* HttpStreamJob::read from where this reader stopped, or from the start   *)
(* when it turns to another stream.                                        *)
ReadStream(c) ==
    LET id == streamCall[c].id
        follows == reader[c].kind = "http" /\ reader[c].id = id
        from == Min({IF follows THEN reader[c].offset ELSE 0, stream[id].body})
    IN /\ AtStreamStep(c, "read")
       /\ \E max \in ReadSizes :
             LET next == from + Min({stream[id].body - from, max})
             IN reader' = [reader EXCEPT ![c] =
                    [kind |-> "http", id |-> id, offset |-> next, done |-> StreamDone(stream[id], next)]]
       /\ StreamReturns(c)
       /\ UNCHANGED <<streamKind, streamNext, streams, stream, uploadVars>>

-----------------------------------------------------------------------------
(* the worker: run_http_stream *)

WorkerStarts(id) ==
    /\ WorkerAt(id, "started")
    /\ WorkerGoesTo(id, IF stream[id].cancelRequested THEN "ended" ELSE "sending")
    /\ UNCHANGED <<streamKind, streamNext, streams, uploadVars, streamCall, reader>>

(* The client cannot be built, the request cannot be sent or is refused.   *)
SendFails(id) ==
    /\ WorkerAt(id, "sending")
    /\ WorkerGoesTo(id, "failing")
    /\ UNCHANGED <<streamKind, streamNext, streams, uploadVars, streamCall, reader>>

(* the response's head arrives: mark_running                               *)
MarkRunning(id) ==
    /\ WorkerAt(id, "sending")
    /\ stream' = [stream EXCEPT ![id].status = IF @ = "cancelled" THEN @ ELSE "running",
                                ![id].worker = "loop"]
    /\ UNCHANGED <<streamKind, streamNext, streams, uploadVars, streamCall, reader>>

WorkerLoops(id) ==
    /\ WorkerAt(id, "loop")
    /\ WorkerGoesTo(id, IF stream[id].cancelRequested THEN "ended" ELSE "reading")
    /\ UNCHANGED <<streamKind, streamNext, streams, uploadVars, streamCall, reader>>

(* read_chunk: a chunk, the end of the body, or an error                   *)
ReadChunk(id) ==
    /\ WorkerAt(id, "reading")
    /\ \E n \in 1 .. ChunkMax :
          /\ stream[id].received + n <= ServerBytes
          /\ stream' = [stream EXCEPT ![id].worker = "append", ![id].chunk = n,
                                      ![id].received = @ + n]
    /\ UNCHANGED <<streamKind, streamNext, streams, uploadVars, streamCall, reader>>

EndOfBody(id) ==
    /\ WorkerAt(id, "reading")
    /\ WorkerGoesTo(id, "completing")
    /\ UNCHANGED <<streamKind, streamNext, streams, uploadVars, streamCall, reader>>

ReadChunkFails(id) ==
    /\ WorkerAt(id, "reading")
    /\ WorkerGoesTo(id, "failing")
    /\ UNCHANGED <<streamKind, streamNext, streams, uploadVars, streamCall, reader>>

(* Mutant: a chunk that arrives after the cancellation is kept.            *)
KeepLateChunk(s) ==
    LET keep == Min({BodyMax - s.body, s.chunk})
    IN [s EXCEPT !.body = @ + keep, !.truncated = @ \/ keep < s.chunk, !.chunk = 0,
                 !.worker = IF keep < s.chunk THEN "completing" ELSE "loop"]

(* Mutant: the whole chunk is kept, past max_response_bytes.               *)
KeepWholeChunk(s) ==
    IF s.cancelRequested \/ s.status = "cancelled"
    THEN [s EXCEPT !.status = "cancelled", !.chunk = 0, !.worker = "completing"]
    ELSE [s EXCEPT !.body = @ + s.chunk, !.chunk = 0, !.worker = "loop"]

(* What append_body makes of a chunk: nothing once the stream is           *)
(* cancelled, otherwise the part that fits; it ends the loop when it kept  *)
(* less than the chunk.                                                    *)
AppendChunk(s) ==
    LET keep == Min({BodyMax - s.body, s.chunk})
    IN IF s.cancelRequested \/ s.status = "cancelled"
       THEN [s EXCEPT !.status = "cancelled", !.chunk = 0, !.worker = "completing"]
       ELSE [s EXCEPT !.body = @ + keep, !.truncated = @ \/ keep < s.chunk, !.chunk = 0,
                      !.worker = IF keep < s.chunk THEN "completing" ELSE "loop"]

AppendBody(id) ==
    /\ WorkerAt(id, "append")
    /\ stream' = [stream EXCEPT ![id] = AppendChunk(@)]
    /\ UNCHANGED <<streamKind, streamNext, streams, uploadVars, streamCall, reader>>

MarkCompleted(id) ==
    /\ WorkerAt(id, "completing")
    /\ stream' = [stream EXCEPT
           ![id].worker = "ended",
           ![id].status = IF stream[id].cancelRequested \/ @ = "cancelled" THEN "cancelled"
                          ELSE IF @ = "failed" THEN @ ELSE "completed"]
    /\ UNCHANGED <<streamKind, streamNext, streams, uploadVars, streamCall, reader>>

MarkFailed(id) ==
    /\ WorkerAt(id, "failing")
    /\ stream' = [stream EXCEPT ![id].worker = "ended",
                                ![id].status = IF @ = "cancelled" THEN @ ELSE "failed"]
    /\ UNCHANGED <<streamKind, streamNext, streams, uploadVars, streamCall, reader>>

-----------------------------------------------------------------------------
(* UploadStreamRegistry *)

HoldsUpload(c, id) == streamCall[c].step \in {"read_upload", "eof_upload"} /\ streamCall[c].id = id

(* retain_temp_file: a full registry drops the path, and with it the file  *)
RetainTempFile(c) ==
    /\ AtStreamStep(c, "idle")
    /\ streamKind = "upload"
    /\ uploadNext \in StreamIds
    /\ Cardinality(uploads) < MaxRetainedStreams
    /\ uploadNext' = uploadNext + 1
    /\ uploads' = uploads \cup {uploadNext}
    /\ uploadFile' = uploadFile \cup {uploadNext}
    /\ UNCHANGED <<streamKind, streamNext, streams, stream, streamCall, reader>>

UploadArc(c, id) ==
    /\ AtStreamStep(c, "idle")
    /\ id \in uploads
    /\ streamCall' = [streamCall EXCEPT ![c] = [step |-> "read_upload", id |-> id]]
    /\ UNCHANGED <<streamKind, streamNext, streams, stream, uploadVars, reader>>

(* UploadStream::read: the file is opened anew for every read, which may   *)
(* return fewer bytes than asked for; a missing file is an error.          *)
ReadUpload(c) ==
    LET id == streamCall[c].id
        follows == reader[c].kind = "upload" /\ reader[c].id = id
        from == IF follows THEN reader[c].offset ELSE 0
    IN /\ AtStreamStep(c, "read_upload")
       /\ id \in uploadFile
       /\ \E n \in 0 .. UploadSize - from :
             /\ from < UploadSize => n > 0
             /\ reader' = [reader EXCEPT ![c] =
                    [kind |-> "upload", id |-> id, offset |-> from + n, done |-> from + n >= UploadSize]]
       /\ streamCall' = [streamCall EXCEPT ![c].step = "eof_upload"]
       /\ UNCHANGED <<streamKind, streamNext, streams, stream, uploadVars>>

(* TempPath deletes the file when the last Arc to the upload is dropped.   *)
LastHandle(id, registered, holders) == ~registered /\ holders = {}

DropUpload(id, registered, holders) ==
    uploadFile' = IF LastHandle(id, registered, holders) THEN uploadFile \ {id} ELSE uploadFile

ReadUploadReturns(c) ==
    LET id == streamCall[c].id
    IN /\ AtStreamStep(c, "eof_upload")
       /\ DropUpload(id, id \in uploads, {d \in StreamClients \ {c} : HoldsUpload(d, id)})
       /\ StreamReturns(c)
       /\ UNCHANGED <<streamKind, streamNext, streams, stream, uploadNext, uploads, reader>>

ReleaseUpload(c, id) ==
    /\ AtStreamStep(c, "idle")
    /\ id \in uploads
    /\ uploads' = uploads \ {id}
    /\ DropUpload(id, FALSE, {d \in StreamClients : HoldsUpload(d, id)})
    /\ UNCHANGED <<streamKind, streamNext, streams, stream, uploadNext, streamCall, reader>>

-----------------------------------------------------------------------------
StreamClient(c) ==
    \/ StartStream(c)
    \/ \E id \in StreamIds :
          \/ \E op \in {"cancel", "release", "read"} : StreamArc(c, op, id)
          \/ UploadArc(c, id) \/ ReleaseUpload(c, id)
    \/ CancelStream(c) \/ CheckStreamOver(c) \/ RemoveStream(c) \/ ReadStream(c)
    \/ RetainTempFile(c) \/ ReadUpload(c) \/ ReadUploadReturns(c)

StreamWorker(id) ==
    \/ WorkerStarts(id) \/ SendFails(id) \/ MarkRunning(id) \/ WorkerLoops(id)
    \/ ReadChunk(id) \/ EndOfBody(id) \/ ReadChunkFails(id) \/ AppendBody(id)
    \/ MarkCompleted(id) \/ MarkFailed(id)

StreamNext ==
    \/ \E c \in StreamClients : StreamClient(c)
    \/ \E id \in StreamIds : StreamWorker(id)

StreamSpec == StreamInit /\ [][StreamNext]_streamVars

-----------------------------------------------------------------------------
(* Every variable has its type.                                            *)
StreamTypeOK ==
    /\ streamKind \in {"http", "upload"}
    /\ streamNext \in 0 .. MaxStreams /\ streams \subseteq StreamIds
    /\ stream \in [StreamIds -> [status : StreamStatuses, cancelRequested : BOOLEAN,
                                 body : 0 .. BodyMax, truncated : BOOLEAN, worker : WorkerSteps,
                                 chunk : 0 .. ChunkMax, received : 0 .. ServerBytes]]
    /\ uploadNext \in 0 .. MaxStreams /\ uploads \subseteq StreamIds /\ uploadFile \subseteq StreamIds
    /\ streamCall \in [StreamClients -> [step : StreamCallSteps, id : StreamIds \cup {0}]]
    /\ reader \in [StreamClients -> [kind : {"none", "http", "upload"}, id : StreamIds \cup {0},
                                     offset : Nat, done : BOOLEAN]]

(* A reader that was told done has everything there is to read: the whole  *)
(* body of its stream, which is all the server sent up to max_response     *)
(* bytes if the stream completed, with body_truncated telling whether more *)
(* came; nothing is appended behind its back, not even by the worker of a  *)
(* stream that was cancelled and released.  A reader of an upload finds    *)
(* its file even when the upload is released under it.                     *)
ReadersComplete ==
    \A c \in StreamClients :
        LET s == stream[reader[c].id]
        IN /\ reader[c].kind = "http" /\ reader[c].done =>
                 /\ reader[c].offset = s.body
                 /\ s.status = "completed" =>
                       /\ s.body = Min({s.received, BodyMax})
                       /\ s.truncated = (s.received > BodyMax)
           /\ AtStreamStep(c, "read_upload") => streamCall[c].id \in uploadFile

(* Once a stream is over it stays as it is: a late worker neither appends  *)
(* to a cancelled stream nor reports it completed or failed, and a worker  *)
(* whose stream was released can only be one that was cancelled.           *)
StreamFrozen ==
    [][\A id \in StreamIds :
          /\ stream[id].status \in {"completed", "failed", "cancelled"} =>
                /\ stream'[id].status = stream[id].status
                /\ stream'[id].body = stream[id].body
                /\ stream'[id].truncated = stream[id].truncated
          /\ id \notin streams' /\ stream'[id].worker \notin {"none", "ended"} =>
                stream'[id].status = "cancelled"]_streamVars

=============================================================================
