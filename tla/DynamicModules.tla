--------------------------- MODULE DynamicModules ---------------------------
(***************************************************************************)
(* Modules that a program loads while it runs                              *)
(* (crates/ricochet_vm/src/vm.rs: import_dynamic, module_get, module_call).*)
(*                                                                         *)
(* A module's code runs in a language state of its own (stack, variables,  *)
(* functions, classes); the VM swaps that state in for an import or a call *)
(* and the caller's state back afterwards, whether the code succeeds or    *)
(* not.  An error of a module is a Result value for its caller.  A task    *)
(* runs in a VM that starts with copies of the spawner's tables.           *)
(*                                                                         *)
(* A language state is its serial number and the height of its stack: all  *)
(* that tells two states apart here is which run of which code made them,  *)
(* and what is left on their stacks.                                       *)
(***************************************************************************)
EXTENDS Integers, Sequences, FiniteSets, SequencesExt

CONSTANTS
    Specifiers,     \* the strings that programs import
    ModuleIds,      \* the canonical paths of the module files
    Resolves,       \* the file that the loader finds for a specifier
    Arities,        \* how many inputs the functions of a module declare
    MaxLanguages,   \* bound: language states ever made
    MaxFrames,      \* bound: nested imports and calls
    MaxHeight,      \* bound: values on one stack
    NotLoaded       \* no entry in a table

ModuleVMs == {"program", "task"}
Languages == [serial : 0 .. MaxLanguages, height : 0 .. MaxHeight]

ASSUME ModuleAssumption ==
    /\ Resolves \in [Specifiers -> ModuleIds]
    /\ Specifiers \cap ModuleIds = {}
    /\ Arities \subseteq Nat
    /\ MaxLanguages \in Nat /\ MaxFrames \in Nat /\ MaxHeight \in Nat
    /\ NotLoaded \notin Languages

VARIABLES
    modules,    \* each VM's dynamic_modules
    aliases,    \* each VM's dynamic_module_aliases
    loading,    \* each VM's dynamic_modules_loading
    language,   \* the language state each VM executes in
    frames,     \* the imports and module calls in progress, the last one innermost
    made,       \* how many language states were made
    spawnedVm,  \* whether the task was spawned
    inherited,  \* history: the loading marks each VM started with
    home,       \* history: the language state each VM started in
    loads       \* history: how often each VM loaded each module, but for its own functions

moduleVars == <<modules, aliases, loading, language, frames, made, spawnedVm, inherited, home, loads>>

ModuleInit ==
    /\ modules = [v \in ModuleVMs |-> [m \in ModuleIds |-> NotLoaded]]
    /\ aliases = [v \in ModuleVMs |-> [s \in Specifiers |-> NotLoaded]]
    /\ loading = [v \in ModuleVMs |-> {}]
    /\ language = [v \in ModuleVMs |-> [serial |-> 0, height |-> 0]]
    /\ frames = [v \in ModuleVMs |-> <<>>]
    /\ made = 0
    /\ spawnedVm = FALSE
    /\ inherited = [v \in ModuleVMs |-> {}]
    /\ home = [v \in ModuleVMs |-> 0]
    /\ loads = [v \in ModuleVMs |-> [m \in ModuleIds |-> 0]]

(* The program runs from the start, the task once it was spawned.          *)
RunsCode(v) == v = "program" \/ spawnedVm

Loaded(v, m) == modules[v][m] # NotLoaded
Known(v, s) == aliases[v][s] # NotLoaded /\ Loaded(v, aliases[v][s])

-----------------------------------------------------------------------------
(* import_dynamic *)

(* The specifier is known: its module is described, and nothing changes.   *)
(* The loader finds a module that another specifier loaded: the specifier  *)
(* becomes another name for it.                                            *)
ImportLoaded(v, s) ==
    /\ RunsCode(v)
    /\ ~Known(v, s)
    /\ s \notin loading[v]
    /\ Loaded(v, Resolves[s])
    /\ aliases' = [aliases EXCEPT ![v][s] = Resolves[s]]
    /\ UNCHANGED <<modules, loading, language, frames, made, spawnedVm, inherited, home, loads>>

(* The module's code starts in an empty language state, with the specifier *)
(* and the id marked.  A mark that is already there is reported as a cycle *)
(* and changes nothing; so does a loader that fails.                       *)
ImportStarts(v, s) ==
    LET m == Resolves[s]
    IN  /\ RunsCode(v)
        /\ ~Known(v, s)
        /\ ~Loaded(v, m)
        /\ {s, m} \cap loading[v] = {}
        /\ made < MaxLanguages
        /\ Len(frames[v]) < MaxFrames
        /\ loading' = [loading EXCEPT ![v] = @ \cup {s, m}]
        /\ frames' = [frames EXCEPT ![v] =
                        Append(@, [word |-> "import", spec |-> s, id |-> m, caller |-> language[v]])]
        /\ language' = [language EXCEPT ![v] = [serial |-> made + 1, height |-> 0]]
        /\ made' = made + 1
        /\ UNCHANGED <<modules, aliases, spawnedVm, inherited, home, loads>>

(* The VM is inside a call of one of the module's functions.               *)
InOwnCall(v, m) == \E f \in Range(frames[v]) : f.word = "call" /\ f.id = m

(* Mutant: an import that fails returns before it clears its marks.        *)
MarksAfterSuccessOnly(v, f, ok) == IF ok THEN loading[v] \ {f.spec, f.id} ELSE loading[v]

(* Both marks are cleared, whatever the module's code returned.            *)
MarksAfter(v, f, ok) == loading[v] \ {f.spec, f.id}

(* Mutant: a failed import leaves the VM in the module's language state.   *)
ReturnsOnSuccess(v, f, ok) == IF ok THEN f.caller ELSE language[v]

(* restore_language_state *)
ReturnsTo(v, f, ok) == f.caller

(* The module's code ends.  After an error its language state is dropped;  *)
(* after success it is the module, and the specifier is a name for it.     *)
ImportEnds(v, ok) ==
    LET f == Last(frames[v])
    IN  /\ frames[v] # <<>>
        /\ f.word = "import"
        /\ frames' = [frames EXCEPT ![v] = Front(@)]
        /\ language' = [language EXCEPT ![v] = ReturnsTo(v, f, ok)]
        /\ loading' = [loading EXCEPT ![v] = MarksAfter(v, f, ok)]
        /\ modules' = IF ok THEN [modules EXCEPT ![v][f.id] = language[v]] ELSE modules
        /\ aliases' = IF ok THEN [aliases EXCEPT ![v][f.spec] = f.id] ELSE aliases
        /\ loads' = IF ok /\ ~InOwnCall(v, f.id) THEN [loads EXCEPT ![v][f.id] = @ + 1] ELSE loads
        /\ UNCHANGED <<made, spawnedVm, inherited, home>>

-----------------------------------------------------------------------------
(* module_call *)

(* The arguments are pushed on the stack the module kept, and the module   *)
(* leaves the table while its function runs on that stack.  An unknown     *)
(* module or function changes nothing.                                     *)
CallStarts(v, m, args, inputs) ==
    LET height == modules[v][m].height + args
    IN  /\ RunsCode(v)
        /\ Loaded(v, m)
        /\ Len(frames[v]) < MaxFrames
        /\ height <= MaxHeight
        /\ inputs <= height
        /\ frames' = [frames EXCEPT ![v] = Append(@,
                        [word |-> "call", id |-> m, caller |-> language[v], base |-> height - inputs])]
        /\ modules' = [modules EXCEPT ![v][m] = NotLoaded]
        /\ language' = [language EXCEPT ![v] = [modules[v][m] EXCEPT !.height = height]]
        /\ UNCHANGED <<aliases, loading, made, spawnedVm, inherited, home, loads>>

(* Too few values for the inputs of the function: it does not run, and the *)
(* arguments stay on the module's stack.                                   *)
CallUnderflows(v, m, args, inputs) ==
    LET height == modules[v][m].height + args
    IN  /\ RunsCode(v)
        /\ Loaded(v, m)
        /\ height <= MaxHeight
        /\ inputs > height
        /\ modules' = [modules EXCEPT ![v][m].height = height]
        /\ UNCHANGED <<aliases, loading, language, frames, made, spawnedVm, inherited, home, loads>>

(* The function ends, with a value or an error: the stack is cut to what   *)
(* lay under its inputs (it may have eaten into that), and the language    *)
(* state goes back to the table.                                           *)
CallEnds(v) ==
    LET f == Last(frames[v])
        left == IF language[v].height > f.base THEN f.base ELSE language[v].height
    IN  /\ frames[v] # <<>>
        /\ f.word = "call"
        /\ frames' = [frames EXCEPT ![v] = Front(@)]
        /\ language' = [language EXCEPT ![v] = ReturnsTo(v, f, TRUE)]
        /\ modules' = [modules EXCEPT ![v][f.id] = [language[v] EXCEPT !.height = left]]
        /\ UNCHANGED <<aliases, loading, made, spawnedVm, inherited, home, loads>>

-----------------------------------------------------------------------------
(* The code of a module pushes and drops values.                           *)
Work(v, height) ==
    /\ frames[v] # <<>>
    /\ height \in {language[v].height - 1, language[v].height + 1}
    /\ language' = [language EXCEPT ![v].height = height]
    /\ UNCHANGED <<modules, aliases, loading, frames, made, spawnedVm, inherited, home, loads>>

(* spawn: the task's VM gets copies of the three tables as they are, the   *)
(* marks of the imports in progress included, and an empty stack.          *)
SpawnVm ==
    /\ ~spawnedVm
    /\ made < MaxLanguages
    /\ spawnedVm' = TRUE
    /\ modules' = [modules EXCEPT !["task"] = modules["program"]]
    /\ aliases' = [aliases EXCEPT !["task"] = aliases["program"]]
    /\ loading' = [loading EXCEPT !["task"] = loading["program"]]
    /\ inherited' = [inherited EXCEPT !["task"] = loading["program"]]
    /\ home' = [home EXCEPT !["task"] = made + 1]
    /\ language' = [language EXCEPT !["task"] = [serial |-> made + 1, height |-> 0]]
    /\ made' = made + 1
    /\ UNCHANGED <<frames, loads>>

ModuleNext ==
    \/ \E v \in ModuleVMs, s \in Specifiers : ImportLoaded(v, s) \/ ImportStarts(v, s)
    \/ \E v \in ModuleVMs, ok \in BOOLEAN : ImportEnds(v, ok)
    \/ \E v \in ModuleVMs, m \in ModuleIds, args \in 0 .. MaxHeight, inputs \in Arities :
           CallStarts(v, m, args, inputs) \/ CallUnderflows(v, m, args, inputs)
    \/ \E v \in ModuleVMs : CallEnds(v)
    \/ \E v \in ModuleVMs, height \in 0 .. MaxHeight : Work(v, height)
    \/ SpawnVm

ModuleSpec == ModuleInit /\ [][ModuleNext]_moduleVars

-----------------------------------------------------------------------------
(* Every variable has its type.                                            *)
ModuleTypeOK ==
    /\ modules \in [ModuleVMs -> [ModuleIds -> Languages \cup {NotLoaded}]]
    /\ aliases \in [ModuleVMs -> [Specifiers -> ModuleIds \cup {NotLoaded}]]
    /\ loading \in [ModuleVMs -> SUBSET (Specifiers \cup ModuleIds)]
    /\ language \in [ModuleVMs -> Languages]
    /\ made \in 0 .. MaxLanguages
    /\ spawnedVm \in BOOLEAN
    /\ inherited \in [ModuleVMs -> SUBSET (Specifiers \cup ModuleIds)]
    /\ loads \in [ModuleVMs -> [ModuleIds -> Nat]]

(* The language states a VM is in the middle of, the current one last.     *)
Active(v) == [i \in 1 .. Len(frames[v]) |-> frames[v][i].caller.serial] \o <<language[v].serial>>

(* The swaps of import_dynamic and module_call nest: whatever fails inside *)
(* them, a VM comes back to the language state it started in, no state is  *)
(* entered twice, and none that is executing can be called from the table. *)
(* The marks of dynamic_modules_loading are those of the imports that are  *)
(* in progress, so that no failed import leaves its module "cyclic", but   *)
(* for the marks a task's VM copied, which nothing in that VM clears.      *)
ModulesNest ==
    \A v \in ModuleVMs :
        /\ Active(v)[1] = home[v]
        /\ IsInjective(Active(v))
        /\ \A m \in ModuleIds : Loaded(v, m) => modules[v][m].serial \notin Range(Active(v))
        /\ loading[v] = inherited[v] \cup
               UNION {{f.spec, f.id} : f \in {g \in Range(frames[v]) : g.word = "import"}}

(* "Loaded modules are cached for the life of the VM": a VM runs the code  *)
(* of a module once, whatever names it is imported by and whatever its     *)
(* functions do.  One exception: a module's own function that imports the  *)
(* module finds no entry, since the call took it out of the table, and     *)
(* loads a second one, which is dropped when the call returns.             *)
ModulesCached == \A v \in ModuleVMs, m \in ModuleIds : loads[v][m] <= 1

ModulesSound == ModulesNest /\ ModulesCached

=============================================================================
