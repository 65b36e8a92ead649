-------------------------- MODULE MCProgramRuntime --------------------------
(***************************************************************************)
(* The constants of ProgramRuntime for model checking: the programs, which *)
(* Language compiles, the modules and the connections.                     *)
(***************************************************************************)
EXTENDS ProgramRuntime, Language, TLC

CONSTANTS lib, tool, nested

\* The clients of the job registry stand for the requests of the web server too.
ClientSymmetry == Permutations(Clients)

\* Two names for one module, and a module that they may import.
TwoNames == [s \in Specifiers |-> IF s = nested THEN tool ELSE lib]

-----------------------------------------------------------------------------
\* The programs.  Phrases print one of two values, read the tape, print what
\* they find (or fail), and leave a loop, an iteration or a block.
Word(w) == <<"symbol", w>>
Say == <<Word("true"), Word("println")>>
Ask == <<Word("read")>>
Phrases == {Say, <<Word("false"), Word("println")>>, Ask, <<Word("println")>>}
           \cup {<<Word(w)>> : w \in {"break", "continue", "return"}}

If(then, else) == <<Word("read"), <<"if", then, else>>>>
While(condition, body) == <<<<"while", condition, body>>>>
Called(body) == <<<<"block", body>>, Word("call")>>

Bodies2 == Phrases \cup {p \o q : p, q \in Phrases}

\* One level of control flow, and an if in a loop's condition.
Inner ==
    {If(p, q) : p, q \in Phrases} \cup {While(Ask, b) : b \in Bodies2} \cup {Called(b) : b \in Bodies2}
    \cup {While(If(p, Ask) \o Ask, q) : p, q \in Phrases}

\* Two levels, in a loop, a block, or the condition of a loop.
Outer ==
    {While(Ask, a \o b) : a \in Inner, b \in {<<>>, Say}}
    \cup {Called(Say \o a \o Ask) : a \in Inner}
    \cup {While(While(Ask, p) \o Ask, Say) : p \in Phrases}

File(imports, body) == [imports |-> imports, body |-> body]
OneFile == {[f \in {"main"} |-> File(<<>>, b)] : b \in Inner \cup {o \o Say : o \in Outer}}

\* Three files, with loops and blocks whose jumps and indices must be moved, that
\* import each other in chains, diamonds and cycles.
Linked == {While(Ask, Say \o <<Word("break")>>), Called(Ask \o If(<<Word("return")>>, Say)) \o <<Word("println")>>}
ThreeFiles ==
    {[f \in {"main", "left", "right"} |->
        CASE f = "main" -> m [] f = "left" -> l [] f = "right" -> r] :
        m \in {File(i, b) : i \in {<<"left", "right">>, <<"right">>}, b \in Linked},
        l \in {File(i, b) : i \in {<<>>, <<"right">>, <<"main">>}, b \in Linked},
        r \in {File(i, b) : i \in {<<>>, <<"left">>}, b \in Linked \cup {<<Word("println")>>}}}

Projects == OneFile \cup ThreeFiles
CompiledProjects == {CompileProgram(files) : files \in Projects}
CompiledBlocks == UNION {BlocksOf(p.chunk) : p \in CompiledProjects}
FourReads == [1 .. 4 -> BOOLEAN]

\* A connection with one request of any kind and any answer to it, and one with
\* a few kinds whose sequence numbers run out.
Asking(kinds, nonces) == [kind : kinds, nonce : nonces, fits : {TRUE}]
OneOfAnyKind ==
    [requests |-> Asking(BrokerRequestKinds, {"n1"}), messages |-> 1,
     answers |-> PlainAnswers(PlainResponses) \cup Handshakes({"n1", "n2"}) \cup OperationErrors]
ManyOfFewKinds ==
    [requests |-> Asking({"Handshake"}, {"n1", "n2"}) \cup Asking({"ProcessStart"}, {"n1"})
                  \cup [kind : {"ProcessStart"}, nonce : {"n1"}, fits : {FALSE}],
     messages |-> 4,
     answers |-> PlainAnswers({"Process"}) \cup Handshakes({"n1"})]
Connections == [short |-> OneOfAnyKind, long |-> ManyOfFewKinds]

=============================================================================
