--------------------------- MODULE WorkspaceWrites ---------------------------
(***************************************************************************)
(* Writes to one workspace path (crates/ricochet_vm/src/builtins.rs,       *)
(* workspace_runtime.rs): workspace_write_text with and without overwrite, *)
(* workspace_delete, workspace_copy and workspace_move.                    *)
(*                                                                         *)
(* workspace_write_text runs under the mutex of the host's                 *)
(* WorkspaceWriteRegistry; the other words do not take it.  An overwrite   *)
(* stages its contents beside the destination and renames the staging file *)
(* over it; a copy rewrites the destination in place.  The path names a    *)
(* file; a file has a text, and a SHA-256 digest stands for the text.  The *)
(* directory, permissions and metadata are left out.                       *)
(***************************************************************************)
EXTENDS Integers, FiniteSets

CONSTANTS
    WriteClients,  \* VM threads that call the workspace words
    Texts,         \* the texts they write
    MaxFiles,      \* bound: files that are ever made
    Absent,        \* no file, or no expected_sha256
    Torn           \* the text of a file that is not written completely

ASSUME WorkspaceAssumption ==
    /\ IsFiniteSet(WriteClients)
    /\ MaxFiles \in Nat
    /\ Absent \notin Texts /\ Torn \notin Texts /\ Absent # Torn /\ Absent \notin Int
    /\ Absent \notin WriteClients

VARIABLES
    wsLock,      \* holder of the write registry's mutex
    path,        \* the file the path names, or Absent
    text,        \* the text of every file
    made,        \* files made so far
    wsCall,      \* each client: its step and what it writes, expects, saw and works on
    stale,       \* history: clients whose view of the path an unsynchronized word changed
    retained     \* staging files kept beside the destination

workspaceVars == <<wsLock, path, text, made, wsCall, stale, retained>>

Files == 1 .. MaxFiles
NoWsCall == [step |-> "idle", writes |-> Absent, expects |-> Absent, before |-> Absent, file |-> 0]
WsSteps == {"idle", "write", "create", "filling", "inspect", "stage", "staging", "check", "persist",
            "copy", "copying", "move"}

WorkspaceInit ==
    /\ wsLock = Absent /\ path = Absent
    /\ text = [f \in Files |-> Absent]
    /\ made = 0
    /\ wsCall = [c \in WriteClients |-> NoWsCall]
    /\ stale = {} /\ retained = {}

AtWsStep(c, step) == wsCall[c].step = step
WsGoTo(c, step) == wsCall' = [wsCall EXCEPT ![c].step = step]
WsReturns(c) == wsCall' = [wsCall EXCEPT ![c] = NoWsCall]
TextAtPath == IF path = Absent THEN Absent ELSE text[path]

-----------------------------------------------------------------------------
(* workspace_write_text *)

(* A request without overwrite expects nothing.                            *)
CallWriteText(c) ==
    /\ AtWsStep(c, "idle")
    /\ \E t \in Texts, e \in Texts \cup {Absent} :
          wsCall' = [wsCall EXCEPT ![c] =
              [NoWsCall EXCEPT !.step = "write", !.writes = t, !.expects = e]]
    /\ UNCHANGED <<wsLock, path, text, made, stale, retained>>

(* Mutant: the writes of a host are not serialized.                        *)
NoWriteMutex(c) == TRUE

WriteMutexFree(c) == wsLock = Absent

(* synchronize, then create_new or the overwrite                           *)
EnterWrite(c) ==
    /\ AtWsStep(c, "write")
    /\ WriteMutexFree(c)
    /\ wsLock' = c
    /\ \E overwrite \in {wsCall[c].expects # Absent, TRUE} :
          WsGoTo(c, IF overwrite THEN "inspect" ELSE "create")
    /\ stale' = stale \ {c}
    /\ UNCHANGED <<path, text, made, retained>>

LeaveWrite(c) == wsLock' = Absent /\ WsReturns(c)

(* create_new fails if the path exists, or for a reason of its own;        *)
(* otherwise an empty file is there.                                       *)
CreateRefused(c) ==
    /\ AtWsStep(c, "create")
    /\ LeaveWrite(c)
    /\ UNCHANGED <<path, text, made, stale, retained>>

CreateNew(c) ==
    /\ AtWsStep(c, "create")
    /\ path = Absent /\ made + 1 \in Files
    /\ made' = made + 1
    /\ path' = made + 1
    /\ text' = [text EXCEPT ![made + 1] = Torn]
    /\ wsCall' = [wsCall EXCEPT ![c].step = "filling", ![c].file = made + 1]
    /\ UNCHANGED <<wsLock, stale, retained>>

(* write_all may fail half way and leaves the file as it is.               *)
FillCreated(c) ==
    /\ AtWsStep(c, "filling")
    /\ \E t \in {Torn, wsCall[c].writes} : text' = [text EXCEPT ![wsCall[c].file] = t]
    /\ LeaveWrite(c)
    /\ UNCHANGED <<path, made, stale, retained>>

(* The destination is inspected and hashed: a link, a directory or a       *)
(* read-only file, an error, and a digest that is not the expected one     *)
(* refuse the write.                                                       *)
InspectRefuses(c) ==
    /\ AtWsStep(c, "inspect")
    /\ LeaveWrite(c)
    /\ UNCHANGED <<path, text, made, stale, retained>>

InspectDestination(c) ==
    /\ AtWsStep(c, "inspect")
    /\ wsCall[c].expects \in {Absent, TextAtPath}
    /\ wsCall' = [wsCall EXCEPT ![c].step = "stage", ![c].before = TextAtPath]
    /\ stale' = stale \ {c}
    /\ UNCHANGED <<wsLock, path, text, made, retained>>

(* create_staging beside the destination                                   *)
CreateStaging(c) ==
    /\ AtWsStep(c, "stage")
    /\ made + 1 \in Files
    /\ made' = made + 1
    /\ text' = [text EXCEPT ![made + 1] = Torn]
    /\ wsCall' = [wsCall EXCEPT ![c].step = "staging", ![c].file = made + 1]
    /\ UNCHANGED <<wsLock, path, stale, retained>>

StagingRefused(c) ==
    /\ AtWsStep(c, "stage")
    /\ LeaveWrite(c)
    /\ UNCHANGED <<path, text, made, stale, retained>>

(* write_all, flush, set_permissions, sync_all                             *)
FillStaging(c) ==
    /\ AtWsStep(c, "staging")
    /\ text' = [text EXCEPT ![wsCall[c].file] = wsCall[c].writes]
    /\ WsGoTo(c, "check")
    /\ UNCHANGED <<wsLock, path, made, stale, retained>>

(* Any failure from here to the replacement keeps the staging file.        *)
RetainStaging(c) ==
    /\ wsCall[c].step \in {"staging", "check", "persist"}
    /\ retained' = retained \cup {wsCall[c].file}
    /\ LeaveWrite(c)
    /\ UNCHANGED <<path, text, made, stale>>

StillExpected(c) == wsCall[c].expects \in {Absent, TextAtPath}

(* the final inspection, with the precondition hashed again                *)
FinalCheck(c) ==
    /\ AtWsStep(c, "check")
    /\ StillExpected(c)
    /\ WsGoTo(c, "persist")
    /\ stale' = IF wsCall[c].expects = Absent THEN stale ELSE stale \ {c}
    /\ UNCHANGED <<wsLock, path, text, made, retained>>

(* persist renames the staging file over the destination, whatever is      *)
(* there now; an error of the metadata that follows is reported as         *)
(* PostCommitMetadataError.                                                *)
Persist(c) ==
    /\ AtWsStep(c, "persist")
    /\ path' = wsCall[c].file
    /\ LeaveWrite(c)
    /\ UNCHANGED <<text, made, stale, retained>>

-----------------------------------------------------------------------------
(* the words that do not take the mutex *)

(* An unsynchronized word changed what the path names or holds.            *)
Disturbs(c) == stale' = WriteClients \ {c}

(* workspace_delete: a missing path is an error or, with missing_ok, fine  *)
DeletePath(c) ==
    /\ AtWsStep(c, "idle")
    /\ path # Absent
    /\ path' = Absent
    /\ Disturbs(c)
    /\ UNCHANGED <<wsLock, text, made, wsCall, retained>>

(* workspace_copy and workspace_move look whether the destination exists   *)
(* and then act on it, in steps of their own.                              *)
CopyOrMoveChecks(c) ==
    /\ AtWsStep(c, "idle")
    /\ \E t \in Texts, op \in {"copy", "move"} :
          /\ op = "move" => path = Absent
          /\ wsCall' = [wsCall EXCEPT ![c] = [NoWsCall EXCEPT !.step = op, !.writes = t]]
    /\ UNCHANGED <<wsLock, path, text, made, stale, retained>>

CopyOrMoveFails(c) ==
    /\ wsCall[c].step \in {"copy", "move"}
    /\ WsReturns(c)
    /\ UNCHANGED <<wsLock, path, text, made, stale, retained>>

(* fs::copy opens the destination, truncating the file that is there ...   *)
OpenCopyTarget(c) ==
    LET f == IF path = Absent THEN made + 1 ELSE path
    IN /\ AtWsStep(c, "copy")
       /\ f \in Files
       /\ made' = IF path = Absent THEN made + 1 ELSE made
       /\ path' = f
       /\ text' = [text EXCEPT ![f] = Torn]
       /\ wsCall' = [wsCall EXCEPT ![c].step = "copying", ![c].file = f]
       /\ Disturbs(c)
       /\ UNCHANGED <<wsLock, retained>>

(* ... and fills it, or fails half way.                                    *)
FillCopy(c) ==
    /\ AtWsStep(c, "copying")
    /\ \E t \in {Torn, wsCall[c].writes} : text' = [text EXCEPT ![wsCall[c].file] = t]
    /\ WsReturns(c)
    /\ IF path = wsCall[c].file THEN Disturbs(c) ELSE UNCHANGED stale
    /\ UNCHANGED <<wsLock, path, made, retained>>

(* fs::rename of a complete source                                         *)
RenameSource(c) ==
    /\ AtWsStep(c, "move")
    /\ made + 1 \in Files
    /\ made' = made + 1
    /\ path' = made + 1
    /\ text' = [text EXCEPT ![made + 1] = wsCall[c].writes]
    /\ WsReturns(c)
    /\ Disturbs(c)
    /\ UNCHANGED <<wsLock, retained>>

-----------------------------------------------------------------------------
WorkspaceNext ==
    \E c \in WriteClients :
        \/ CallWriteText(c) \/ EnterWrite(c)
        \/ CreateRefused(c) \/ CreateNew(c) \/ FillCreated(c)
        \/ InspectRefuses(c) \/ InspectDestination(c) \/ CreateStaging(c) \/ StagingRefused(c)
        \/ FillStaging(c) \/ RetainStaging(c) \/ FinalCheck(c) \/ Persist(c)
        \/ DeletePath(c) \/ CopyOrMoveChecks(c) \/ CopyOrMoveFails(c) \/ OpenCopyTarget(c)
        \/ FillCopy(c) \/ RenameSource(c)

WorkspaceSpec == WorkspaceInit /\ [][WorkspaceNext]_workspaceVars

-----------------------------------------------------------------------------
(* Every variable has its type.                                            *)
WorkspaceTypeOK ==
    /\ wsLock \in WriteClients \cup {Absent}
    /\ path \in Files \cup {Absent} /\ made \in 0 .. MaxFiles
    /\ text \in [Files -> Texts \cup {Absent, Torn}]
    /\ wsCall \in [WriteClients -> [step : WsSteps, writes : Texts \cup {Absent},
                                    expects : Texts \cup {Absent},
                                    before : Texts \cup {Absent, Torn}, file : 0 .. MaxFiles]]
    /\ stale \subseteq WriteClients /\ retained \subseteq Files

(* "expected_sha256 coordinates competing workspace_write_text calls that  *)
(* share one host registry": the text a write replaces is the one it       *)
(* expected and the one it reports as sha256_before, unless a word outside *)
(* the registry touched the path since the write last looked at it; and    *)
(* what it puts there is complete, so that path-based readers see the old  *)
(* text or the new one.                                                    *)
WritesCoordinated ==
    [][\A c \in WriteClients :
          Persist(c) =>
              /\ c \notin stale => TextAtPath \in IF wsCall[c].expects = Absent
                                                 THEN {wsCall[c].before}
                                                 ELSE {wsCall[c].expects}
              /\ text[path'] = wsCall[c].writes]_workspaceVars

=============================================================================
