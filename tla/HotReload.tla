----------------------------- MODULE HotReload -----------------------------
(***************************************************************************)
(* The watched web server, `rco serve --watch`                             *)
(* (crates/ricochet_web/src/server.rs: WatchedRuntime::snapshot,           *)
(* build_watched_app_from_runtime_builder, render_watched_route, and       *)
(* revision.rs).                                                           *)
(*                                                                         *)
(* The server keeps a runtime, compiled from the project's code, and the   *)
(* signature (a hash of every watched file) it took for it.  A request     *)
(* first reads the files' signature, then locks the stored one; if they    *)
(* differ it compiles the project and publishes a new revision.  Reading   *)
(* the project takes time: a developer may save a file between any two     *)
(* reads.  The compiled runtime holds the routes and the controllers; a    *)
(* view is read from disk when a request renders it, after its body came.  *)
(*                                                                         *)
(* The manifest is read like the routes and the models like the            *)
(* controllers.  A hash stands for the contents it was taken of.           *)
(***************************************************************************)
EXTENDS Integers, Sequences, FiniteSets, SequencesExt

CONSTANTS
    WebRequests,   \* the requests, one snapshot each
    FileContents,  \* what a file may hold
    BrokenCode,    \* contents that do not compile
    MaxEdits,      \* bound: how often a file is saved
    Unread         \* no contents, no runtime

ASSUME ReloadAssumption ==
    /\ BrokenCode \in FileContents
    /\ FileContents # {BrokenCode}
    /\ MaxEdits \in Nat
    /\ "startup" \notin WebRequests

WatchedFiles == {"controller", "routes", "view"}

(* project_signature reads app/ before config/; the builder reads the      *)
(* routes before the controllers they name.                                *)
SignatureOrder == <<"controller", "view", "routes">>
BuildOrder == <<"routes", "controller">>

Readers == WebRequests \cup {"startup"}

VARIABLES
    watchedFiles,  \* the files on disk
    current,       \* the runtime: the contents it was compiled from, and its number
    signature,     \* the stored signature
    signatureLock, \* the request that holds the signature's mutex
    revision,      \* RevisionManager::current
    step,          \* where start-up and each request are
    read,          \* the contents they read so far, in the order of their step
    taken,         \* the signature each request took before it locked
    served,        \* the runtime and the revision each request works with
    rendered,      \* the view each request rendered
    edits,         \* how many times a file was saved
    past,          \* history: the contents each file had so far
    begun,         \* history: edits and revision when each request began
    startEdited,   \* history: a file was saved while the server started
    stale          \* history: requests served other code than the files held throughout

reloadVars == <<watchedFiles, current, signature, signatureLock, revision, step, read, taken,
                served, rendered, edits, past, begun, startEdited, stale>>

Runtimes == [routes : FileContents, controller : FileContents, number : Nat]
Signatures == [1 .. 3 -> FileContents]

ReloadInit ==
    /\ watchedFiles \in [WatchedFiles -> {CHOOSE c \in FileContents : c # BrokenCode}]
    /\ current = Unread
    /\ signature = Unread
    /\ signatureLock = Unread
    /\ revision = 0
    /\ step = [p \in Readers |-> IF p = "startup" THEN "build" ELSE "idle"]
    /\ read = [p \in Readers |-> <<>>]
    /\ taken = [r \in WebRequests |-> Unread]
    /\ served = [r \in WebRequests |-> Unread]
    /\ rendered = [r \in WebRequests |-> Unread]
    /\ edits = 0
    /\ past = [f \in WatchedFiles |-> {watchedFiles[f]}]
    /\ begun = [r \in WebRequests |-> [edits |-> 0, revision |-> 0]]
    /\ startEdited = FALSE
    /\ stale = {}

-----------------------------------------------------------------------------
(* The developer saves a file.                                             *)
Edit(f, contents) ==
    /\ edits < MaxEdits
    /\ contents # watchedFiles[f]
    /\ watchedFiles' = [watchedFiles EXCEPT ![f] = contents]
    /\ edits' = edits + 1
    /\ past' = [past EXCEPT ![f] = @ \cup {contents}]
    /\ startEdited' = (startEdited \/ step["startup"] \in {"build", "sign"})
    /\ UNCHANGED <<current, signature, signatureLock, revision, step, read, taken, served,
                   rendered, begun, stale>>

(* A file got contents back that it had before.                            *)
Returned == edits > Cardinality(UNION {{f} \X past[f] : f \in WatchedFiles}) - Cardinality(WatchedFiles)

-----------------------------------------------------------------------------
(* The next file that a reader reads, and what it has read with it.        *)
NextFile(p, order) == order[Len(read[p]) + 1]
WithNext(p, order) == Append(read[p], watchedFiles[NextFile(p, order)])
LastFile(p, order) == Len(read[p]) + 1 = Len(order)

CompiledFrom(contents, number) ==
    [routes |-> contents[1], controller |-> contents[2], number |-> number]

(* build_watched_app_from_runtime_builder: the first build ...             *)
StartBuild ==
    LET contents == WithNext("startup", BuildOrder)
    IN  /\ step["startup"] = "build"
        /\ IF Last(contents) = BrokenCode
           THEN /\ step' = [step EXCEPT !["startup"] = "failed"]
                /\ UNCHANGED <<read, current>>
           ELSE IF LastFile("startup", BuildOrder)
           THEN /\ current' = CompiledFrom(contents, 0)
                /\ step' = [step EXCEPT !["startup"] = "sign"]
                /\ read' = [read EXCEPT !["startup"] = <<>>]
           ELSE /\ read' = [read EXCEPT !["startup"] = contents]
                /\ UNCHANGED <<step, current>>
        /\ UNCHANGED <<watchedFiles, signature, signatureLock, revision, taken, served, rendered,
                       edits, past, begun, startEdited, stale>>

(* ... and then the signature of the files as they are now.                *)
StartSign ==
    LET contents == WithNext("startup", SignatureOrder)
    IN  /\ step["startup"] = "sign"
        /\ read' = [read EXCEPT !["startup"] = contents]
        /\ IF LastFile("startup", SignatureOrder)
           THEN signature' = contents /\ step' = [step EXCEPT !["startup"] = "serving"]
           ELSE UNCHANGED <<signature, step>>
        /\ UNCHANGED <<watchedFiles, current, signatureLock, revision, taken, served, rendered,
                       edits, past, begun, startEdited, stale>>

-----------------------------------------------------------------------------
(* render_watched_route *)

BeginRequest(r) ==
    /\ step["startup"] = "serving"
    /\ step[r] = "idle"
    /\ step' = [step EXCEPT ![r] = "sign"]
    /\ begun' = [begun EXCEPT ![r] = [edits |-> edits, revision |-> revision]]
    /\ UNCHANGED <<watchedFiles, current, signature, signatureLock, revision, read, taken, served,
                   rendered, edits, past, startEdited, stale>>

(* snapshot: project_signature, without a lock                             *)
Sign(r) ==
    LET contents == WithNext(r, SignatureOrder)
    IN  /\ step[r] = "sign"
        /\ IF LastFile(r, SignatureOrder)
           THEN /\ taken' = [taken EXCEPT ![r] = contents]
                /\ read' = [read EXCEPT ![r] = <<>>]
                /\ step' = [step EXCEPT ![r] = "lock"]
           ELSE /\ read' = [read EXCEPT ![r] = contents]
                /\ UNCHANGED <<taken, step>>
        /\ UNCHANGED <<watchedFiles, current, signature, signatureLock, revision, served, rendered,
                       edits, past, begun, startEdited, stale>>

(* The code of the runtime is not the code on disk.                        *)
Outdated(runtime) ==
    \/ runtime.routes # watchedFiles["routes"]
    \/ runtime.controller # watchedFiles["controller"]

(* The request goes on with this runtime; history notes it if no file was  *)
(* saved since the request began and the runtime still is another one.     *)
Serve(r, runtime, rev) ==
    /\ served' = [served EXCEPT ![r] = [runtime |-> runtime, revision |-> rev]]
    /\ stale' = IF edits = begun[r].edits /\ Outdated(runtime) THEN stale \cup {r} ELSE stale

(* The signatures agree: the runtime there is.                             *)
Reuse(r) ==
    /\ step[r] = "lock"
    /\ signatureLock = Unread
    /\ signature = taken[r]
    /\ Serve(r, current, revision)
    /\ step' = [step EXCEPT ![r] = "body"]
    /\ UNCHANGED <<watchedFiles, current, signature, signatureLock, revision, read, taken, rendered,
                   edits, past, begun, startEdited>>

(* They differ: the builder runs under the signature's mutex.              *)
LockToBuild(r) ==
    /\ step[r] = "lock"
    /\ signatureLock = Unread
    /\ signature # taken[r]
    /\ signatureLock' = r
    /\ step' = [step EXCEPT ![r] = "build"]
    /\ UNCHANGED <<watchedFiles, current, signature, revision, read, taken, served, rendered,
                   edits, past, begun, startEdited, stale>>

(* The builder reads a file, not the last one.                             *)
BuildRead(r) ==
    LET contents == WithNext(r, BuildOrder)
    IN  /\ step[r] = "build"
        /\ ~LastFile(r, BuildOrder)
        /\ Last(contents) # BrokenCode
        /\ read' = [read EXCEPT ![r] = contents]
        /\ UNCHANGED <<watchedFiles, current, signature, signatureLock, revision, step, taken, served,
                       rendered, edits, past, begun, startEdited, stale>>

(* It reads code that does not compile: the request is an MVC error, and   *)
(* the old runtime and signature stay.                                     *)
BuildFails(r) ==
    /\ step[r] = "build"
    /\ Last(WithNext(r, BuildOrder)) = BrokenCode
    /\ step' = [step EXCEPT ![r] = "failed"]
    /\ signatureLock' = Unread
    /\ UNCHANGED <<watchedFiles, current, signature, revision, read, taken, served, rendered,
                   edits, past, begun, startEdited, stale>>

(* Mutant: the signature is taken of the files as they are after the build.*)
SignatureAfterBuild(r) == [i \in 1 .. 3 |-> watchedFiles[SignatureOrder[i]]]

(* The stored signature is the one read before the lock.                   *)
SignatureOf(r) == taken[r]

(* Mutant: the runtime is replaced without a new revision.                 *)
SameRevision == revision

(* publish_new_revision *)
NewRevision == revision + 1

(* The build is complete: runtime, signature and revision are replaced.    *)
Reload(r) ==
    LET contents == WithNext(r, BuildOrder)
        runtime == CompiledFrom(contents, current.number + 1)
    IN  /\ step[r] = "build"
        /\ LastFile(r, BuildOrder)
        /\ Last(contents) # BrokenCode
        /\ current' = runtime
        /\ signature' = SignatureOf(r)
        /\ revision' = NewRevision
        /\ Serve(r, runtime, NewRevision)
        /\ signatureLock' = Unread
        /\ step' = [step EXCEPT ![r] = "body"]
        /\ UNCHANGED <<watchedFiles, read, taken, rendered, edits, past, begun, startEdited>>

(* The body arrived; the controller of the runtime runs and names a view,  *)
(* which is read from disk now.                                            *)
Render(r) ==
    /\ step[r] = "body"
    /\ rendered' = [rendered EXCEPT ![r] = watchedFiles["view"]]
    /\ step' = [step EXCEPT ![r] = "done"]
    /\ UNCHANGED <<watchedFiles, current, signature, signatureLock, revision, read, taken, served,
                   edits, past, begun, startEdited, stale>>

ReloadNext ==
    \/ \E f \in WatchedFiles, c \in FileContents : Edit(f, c)
    \/ StartBuild \/ StartSign
    \/ \E r \in WebRequests :
         BeginRequest(r) \/ Sign(r) \/ Reuse(r) \/ LockToBuild(r) \/ BuildRead(r) \/ BuildFails(r)
         \/ Reload(r) \/ Render(r)

ReloadSpec == ReloadInit /\ [][ReloadNext]_reloadVars

-----------------------------------------------------------------------------
(* Every variable has its type.                                            *)
ReloadTypeOK ==
    /\ watchedFiles \in [WatchedFiles -> FileContents]
    /\ current \in Runtimes \cup {Unread}
    /\ signature \in Signatures \cup {Unread}
    /\ signatureLock \in WebRequests \cup {Unread}
    /\ revision \in Nat
    /\ step \in [Readers -> {"idle", "sign", "lock", "build", "serving", "body", "done", "failed"}]
    /\ taken \in [WebRequests -> Signatures \cup {Unread}]
    /\ served \in [WebRequests -> [runtime : Runtimes, revision : Nat] \cup {Unread}]
    /\ rendered \in [WebRequests -> FileContents \cup {Unread}]
    /\ edits \in 0 .. MaxEdits
    /\ startEdited \in BOOLEAN
    /\ stale \subseteq WebRequests

(* "--watch reloads ... between requests": a request that began after the  *)
(* last save is served the code that is on disk.  Two exceptions: a file   *)
(* saved while the server starts, after the first build read it and before *)
(* the first signature did, is taken for the code that was built; and a    *)
(* file that gets contents back that it had before can match a signature   *)
(* taken just before the build read other contents.                        *)
ServedAsSaved == stale # {} => startEdited \/ Returned

(* A revision names one runtime: requests with the same revision work with *)
(* the same runtime and requests with different ones do not, and a request *)
(* never gets an older revision than one published before it began.        *)
RevisionsNameRuntimes ==
    LET Served == {r \in WebRequests : served[r] # Unread}
    IN  /\ \A r, q \in Served :
              (served[r].revision = served[q].revision) <=> (served[r].runtime = served[q].runtime)
        /\ \A r \in Served : served[r].revision >= begun[r].revision

(* Reloading is coherent: what is served is what was saved, under a        *)
(* revision that names it (current_runtime, reload_if_changed).            *)
ReloadCoherent == ServedAsSaved /\ RevisionsNameRuntimes

=============================================================================
