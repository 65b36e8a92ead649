--------------------------- MODULE ProgramRuntime ---------------------------
(***************************************************************************)
(* What runs a program: the interpreter, the modules it loads, the jobs it *)
(* starts, the channel to its sandbox, and the watched web server that     *)
(* reloads it.  They share no state, so a behaviour runs one of them and   *)
(* the variables of the others keep their initial values.                  *)
(***************************************************************************)
EXTENDS ProcessRuntime, DynamicModules, HotReload, Interpreter, SandboxChannel

VARIABLE facet   \* the part this behaviour runs
programVars == <<facet, vars, moduleVars, reloadVars, languageVars, channelVars>>

-----------------------------------------------------------------------------
Runs(part) == facet = part

(* A program without instructions, for the behaviours that run none.      *)
NoProgram ==
    [files |-> [f \in {"main"} |-> [imports |-> <<>>, body |-> <<>>]], chunk |-> EmptyChunk, ok |-> TRUE]

ProgramInit ==
    /\ facet \in {"jobs", "modules", "reload", "language", "channel"}
    /\ Init /\ ModuleInit /\ ReloadInit /\ ChannelInit
    /\ ~Runs("channel") => connection = (CHOOSE c \in DOMAIN Carries : TRUE) /\ ~sharedKey
    /\ IF Runs("language") THEN LanguageInit ELSE Start(NoProgram, <<>>)

\* Where a part may stop: a program that ended, a VM between imports and calls, a
\* server that answered all its requests, and a channel (a lost frame ends it).
MayStop ==
    \/ Runs("language") /\ ~Running
    \/ Runs("modules") /\ \A v \in ModuleVMs : frames[v] = <<>>
    \/ Runs("channel")
    \/ Runs("reload") /\ step["startup"] = "failed"
    \/ Runs("reload") /\ \A r \in WebRequests : step[r] \in {"done", "failed"}

\* The part that runs takes a step, and the other parts none.
Still(part, partVars) == IF Runs(part) THEN TRUE ELSE UNCHANGED partVars

ProgramNext ==
    \/ /\ UNCHANGED facet
       /\ Still("jobs", vars) /\ Still("modules", moduleVars)
       /\ Still("reload", reloadVars) /\ Still("language", languageVars)
       /\ Still("channel", channelVars)
       /\ \/ Runs("jobs") /\ Next
          \/ Runs("modules") /\ ModuleNext
          \/ Runs("reload") /\ ReloadNext
          \/ Runs("language") /\ LanguageNext
          \/ Runs("channel") /\ ChannelNext
    \/ MayStop /\ UNCHANGED programVars

ProgramSpec == ProgramInit /\ [][ProgramNext]_programVars

\* Every variable of the part that runs has its type.
ProgramTypeOK ==
    /\ Runs("jobs") => TypeOK
    /\ Runs("modules") => ModuleTypeOK
    /\ Runs("reload") => ReloadTypeOK
    /\ Runs("language") => LanguageTypeOK
    /\ Runs("channel") => ChannelTypeOK

=============================================================================
