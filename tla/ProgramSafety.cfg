SPECIFICATION ProgramSpec
CONSTANTS
    Clients = {c1, c2}
    MaxStarts = 2
    MaxRetained = 1
    Streams = {}
    PipeCapacity = 1
    OutputMax = 1
    ChildOutput = 0
    StdinOpen = {TRUE, FALSE}
    Inputs = {2}
    KillFails = {TRUE, FALSE}
    lib = lib
    tool = tool
    nested = nested
    Specifiers = {name1, name2, nested}
    ModuleIds = {lib, tool}
    Resolves <- TwoNames
    Arities = {0, 1}
    MaxLanguages = 3
    MaxFrames = 2
    MaxHeight = 1
    NotLoaded = NotLoaded
    WebRequests = {c1, c2}
    FileContents = {old, new, broken}
    BrokenCode = broken
    MaxEdits = 3
    Unread = Unread
    Compiled <- CompiledProjects
    Blocks <- CompiledBlocks
    Tapes <- FourReads
    InstructionLimit = 40
    Carries <- Connections
    RequestIds = {1, 2}
    MaxSequence = 3
    NoRequest = NoRequest
SYMMETRY ClientSymmetry
INVARIANTS SlotsAccounted NoOrphanedChild CancelNotLost WriteSeesLiveJob
           ModulesSound ReloadCoherent ExecutionSound SourceMeaning ChannelSound
PROPERTIES TerminalIsFinal RetainedSpec
