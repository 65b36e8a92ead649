----------------------------- MODULE HostProofs ------------------------------
(***************************************************************************)
(* Theorems about MCHostResources, the host as a whole: a behaviour of the *)
(* host is a behaviour of each of its parts, so what is proved of a part   *)
(* holds in the host, for every value of the constants.                    *)
(***************************************************************************)
EXTENDS MCHostResources, HostGuardProofs, HostWorkProofs, HostResourceProofs

(* Every part starts in an initial state of its own.                       *)
PartsInit ==
    /\ SocketInit /\ StreamInit /\ PtyInit /\ ApprovalInit /\ WorkspaceInit /\ GuiInit
    /\ SandboxInit /\ TaskInit /\ DatabaseInit /\ MigrationInit /\ DebugInit

(* Every part takes a step of its own or none.                             *)
PartsStep ==
    /\ [SocketNext]_socketVars /\ [StreamNext]_streamVars /\ [PtyNext]_ptyVars
    /\ [ApprovalNextStep]_approvalVars /\ [WorkspaceNext]_workspaceVars /\ [GuiNext]_guiVars
    /\ [SandboxNext]_sandboxVars /\ [TaskNext]_taskVars /\ [DatabaseNext]_dbVars
    /\ [MigrationNext]_migrationVars /\ [DebugNext]_debugVars

(* The host starts all of its parts, and a step of it is one of a part     *)
(* that leaves the others alone.                                           *)
LEMMA HostStepsParts ==
    /\ HostInit => PartsInit
    /\ [HostNext]_hostVars => PartsStep
  <1>1. HostInit => PartsInit
    BY DEF HostInit, PartsInit
  <1>2. UNCHANGED hostVars => PartsStep
    BY DEF hostVars, PartsStep
  <1>3. HostNext => PartsStep
    BY DEF HostNext, Runs, Still, PartsStep
  <1> QED BY <1>1, <1>2, <1>3

(* The host refines each of its parts: it runs every one of them as it is  *)
(* specified for itself (a database session but for its fairness).         *)
THEOREM HostRunsItsParts ==
    HostSpec => /\ SocketSpec /\ StreamSpec /\ PtySpec
                /\ ApprovalSpec /\ WorkspaceSpec /\ GuiSpec /\ SandboxSpec
                /\ TaskSpec /\ MigrationSpec /\ DebugSpec
                /\ DatabaseInit /\ [][DatabaseNext]_dbVars
  BY HostStepsParts, PTL
     DEF HostSpec, PartsInit, PartsStep, SocketSpec, StreamSpec, PtySpec, ApprovalSpec, WorkspaceSpec, GuiSpec,
         SandboxSpec, TaskSpec, MigrationSpec, DebugSpec

(* Database sessions keep their invariant without fairness.                *)
LEMMA DatabaseInvariant == DatabaseInit /\ [][DatabaseNext]_dbVars => []DatabaseInv
  <1>1. DatabaseInit => DatabaseInv
    BY DatabaseStarts
  <1> QED BY <1>1, DatabaseStep, PTL

(* HostTypeOK, for every value of the constants: whichever part a          *)
(* behaviour runs, its variables keep their types.                         *)
THEOREM HostTypesKept == HostSpec => []HostTypeOK
  <1>1. SocketSpec => []SocketTypeOK
    <2>1. SocketInv => SocketTypeOK
      BY DEF SocketInv
    <2> QED BY <2>1, InitSockets, SocketStep, PTL DEF SocketSpec
  <1>2. StreamSpec => []StreamTypeOK
    <2>1. StreamInv => StreamTypeOK
      BY DEF StreamInv
    <2> QED BY <2>1, StreamInvariant, PTL
  <1>3. PtySpec => []PtyTypeOK
    <2>1. PtyInv => PtyTypeOK
      BY DEF PtyInv
    <2> QED BY <2>1, InitPtys, PtyStep, PTL DEF PtySpec
  <1>4. WorkspaceSpec => []WorkspaceTypeOK
    <2>1. WorkspaceInv => WorkspaceTypeOK
      BY DEF WorkspaceInv
    <2> QED BY <2>1, WorkspaceInvariant, PTL
  <1>5. SandboxSpec => []SandboxTypeOK
    <2>1. SandboxInv => SandboxTypeOK
      BY DEF SandboxInv
    <2> QED BY <2>1, SandboxStarts, SandboxStep, PTL DEF SandboxSpec
  <1>6. TaskSpec => []TaskTypeOK
    <2>1. TaskInv => TaskTypeOK
      BY DEF TaskInv
    <2> QED BY <2>1, TaskInvariant, PTL
  <1>7. DatabaseInit /\ [][DatabaseNext]_dbVars => []DatabaseTypeOK
    <2>1. DatabaseInv => DatabaseTypeOK
      BY DEF DatabaseInv, DbTypes
    <2> QED BY <2>1, DatabaseInvariant, PTL
  <1>8. /\ SocketTypeOK /\ StreamTypeOK /\ PtyTypeOK /\ ApprovalTypeOK /\ WorkspaceTypeOK /\ GuiTypeOK
        /\ SandboxTypeOK /\ TaskTypeOK /\ DatabaseTypeOK /\ MigrationTypeOK /\ DebugTypeOK
        => HostTypeOK
    BY DEF HostTypeOK
  <1> QED BY <1>1, <1>2, <1>3, <1>4, <1>5, <1>6, <1>7, <1>8, HostRunsItsParts, ApprovalTypesKept, GuiTypesKept,
             MigrationTypes, DebugTypes, PTL

(* What the host promises about the resources that programs hold, in every *)
(* state.                                                                  *)
HostSafe ==
    /\ SocketsAccounted /\ ReadersComplete /\ PtysAccounted
    /\ ClaimedOnce /\ ActionsPromptOnce /\ ExecutionsControlled
    /\ PermitsAccounted /\ AwaitsRepeatable /\ TransactionsIsolated
    /\ MigrationsTruthful /\ DebugSessionCoherent

(* The safety invariants of all parts hold together in the host.           *)
THEOREM HostIsSafe == HostSpec => []HostSafe
  <1>1. DatabaseInit /\ [][DatabaseNext]_dbVars => []TransactionsIsolated
    <2>1. DatabaseInv => TransactionsIsolated
      BY TransactionsPromises
    <2> QED BY <2>1, DatabaseInvariant, PTL
  <1> QED BY <1>1, HostRunsItsParts, SocketsAreAccounted, ReadersAreComplete, PtysAreAccounted, TokensClaimedOnce,
             ActionsPromptAtMostOnce, SandboxIsControlled, PermitsAreAccounted, AwaitsAreRepeatable, TableIsTruthful,
             DebugIsCoherent, PTL DEF HostSafe

(* What no step of the host does, and what its registries implement: the   *)
(* body of a stream that ended stays as it is, nobody loses open work, no  *)
(* overwrite replaces a text it did not expect, and sessions and sockets   *)
(* keep the contract of RetainedRegistry.                                  *)
THEOREM HostKeepsItsWord ==
    HostSpec => StreamFrozen /\ OpenWorkKept /\ WritesCoordinated /\ RegistriesRetained
  BY HostRunsItsParts, StreamsAreFrozen, OpenWorkIsKept, WritesAreCoordinated, PtysImplementRetained,
     SocketsImplementRetained, PTL DEF RegistriesRetained

=============================================================================
