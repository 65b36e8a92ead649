---------------------------- MODULE Interpreter -----------------------------
(***************************************************************************)
(* The interpreter's loop (crates/ricochet_vm/src/vm.rs:                   *)
(* run_chunk_with_frame, execute_instruction, call_block): the chunks in   *)
(* execution, the operand stack, the budget of instructions, and how a     *)
(* program ends.  What it runs is given: any chunk whose jumps and block   *)
(* indices the compiler resolved (module Language has the compiler).       *)
(*                                                                         *)
(* Of the words, println and read stand for those that consume and produce *)
(* values, and call runs a block.  A value is <<"bool", b>>, <<"nil">> or  *)
(* <<"block", chunk>>.  No word makes a Result, so a condition never is    *)
(* one, which would end the program (UncheckedResultCondition).            *)
(* Instruction addresses start at 0.                                       *)
(***************************************************************************)
EXTENDS Integers, Sequences, SequencesExt

CONSTANTS
    Compiled,          \* what the compiler made of programs: [files, chunk, ok]
    Blocks,            \* the chunks of their blocks, nested ones too
    Tapes,             \* the inputs: sequences of Booleans
    InstructionLimit   \* instruction_limit

BoolValue(b) == <<"bool", b>>
NilValue == <<"nil">>
BlockValue(b) == <<"block", b>>
IsBlock(v) == v[1] = "block"
Truthy(v) == v # BoolValue(FALSE) /\ v # NilValue

EmptyChunk == [code |-> <<>>, blocks |-> <<>>]

Operations ==
    {<<"return">>} \cup ({"bool"} \X BOOLEAN) \cup ({"word"} \X {"read", "println", "call"})
    \cup ({"jump", "jumpIfFalse", "block"} \X Nat)

(* A chunk whose jumps stay inside of it or lead behind its last           *)
(* instruction, and whose blocks are there: what validate_jump and the     *)
(* checks of block indices ask for, so that they let every chunk pass that *)
(* the compiler made.                                                      *)
IsLinked(ch) ==
    /\ ch \in [code : Seq(Operations), blocks : Seq(Blocks)]
    /\ \A i \in 1 .. Len(ch.code) :
          /\ ch.code[i][1] \in {"jump", "jumpIfFalse"} => ch.code[i][2] <= Len(ch.code)
          /\ ch.code[i][1] = "block" => ch.code[i][2] \in 1 .. Len(ch.blocks)

(* A block ends in a return, which no jump passes.                         *)
EndsInReturn(ch) ==
    /\ ch.code # <<>> /\ Last(ch.code) = <<"return">>
    /\ \A i \in 1 .. Len(ch.code) :
          ch.code[i][1] \in {"jump", "jumpIfFalse"} => ch.code[i][2] < Len(ch.code)

ASSUME InterpreterAssumption ==
    /\ InstructionLimit \in Nat
    /\ Tapes \subseteq Seq(BOOLEAN)
    /\ \A p \in Compiled : IsLinked(p.chunk)
    /\ \A b \in Blocks : IsLinked(b) /\ EndsInReturn(b)

VARIABLES
    program,  \* the program's files
    chunk,    \* the chunk it compiled to
    calls,    \* the chunks in execution, the innermost last
    stack,    \* the operand stack
    printed,  \* what println wrote
    input,    \* the rest of the tape
    tapeRead, \* history: the whole tape
    used,     \* instructions_executed
    outcome   \* running, or how the program ended

languageVars == <<program, chunk, calls, stack, printed, input, tapeRead, used, outcome>>

-----------------------------------------------------------------------------
(* A chunk in execution: where it is, what the stack was before the call   *)
(* popped its block, and how high it was then without the block.           *)
Call(ch, before) == [chunk |-> ch, ip |-> 0, before |-> before, base |-> Len(before) - 1]

(* A program that compiled starts at the first instruction of its chunk.   *)
Start(p, tape) ==
    /\ program = p.files
    /\ chunk = p.chunk
    /\ outcome = IF p.ok THEN "running" ELSE "rejected"
    /\ calls = <<[chunk |-> p.chunk, ip |-> 0, before |-> <<>>, base |-> 0]>>
    /\ input = tape /\ tapeRead = tape
    /\ stack = <<>> /\ printed = <<>> /\ used = 0

LanguageInit == \E p \in Compiled, tape \in Tapes : Start(p, tape)

Innermost == Last(calls)
AtMain == Len(calls) = 1
Running == outcome = "running"
AtEnd == Innermost.ip >= Len(Innermost.chunk.code)
Instruction == Innermost.chunk.code[Innermost.ip + 1]
Continue(ip) == calls' = [calls EXCEPT ![Len(calls)].ip = ip]
Top == Last(stack)
Truncate(s, n) == SubSeq(s, 1, IF Len(s) < n THEN Len(s) ELSE n)

(* Mutant: the limit is checked one instruction too late.                  *)
OneMoreInstruction == used <= InstructionLimit

(* consume_instruction_budget, before every instruction                    *)
BudgetLeft == used < InstructionLimit

Fetch == Running /\ ~AtEnd /\ BudgetLeft /\ used' = used + 1

(* An error unwinds the calls; each call_block puts back the stack it was  *)
(* called with.                                                            *)
Fails(why) ==
    /\ outcome' = why
    /\ stack' = IF AtMain THEN stack ELSE calls[2].before
    /\ UNCHANGED <<program, tapeRead, chunk, calls, printed, input>>

Exhausted == Running /\ ~AtEnd /\ ~BudgetLeft /\ Fails("limit") /\ UNCHANGED used

PushBool ==
    /\ Fetch /\ Instruction[1] = "bool"
    /\ stack' = Append(stack, BoolValue(Instruction[2]))
    /\ Continue(Innermost.ip + 1)
    /\ UNCHANGED <<program, tapeRead, chunk, printed, input, outcome>>

PushBlock ==
    /\ Fetch /\ Instruction[1] = "block"
    /\ stack' = Append(stack, BlockValue(Innermost.chunk.blocks[Instruction[2]]))
    /\ Continue(Innermost.ip + 1)
    /\ UNCHANGED <<program, tapeRead, chunk, printed, input, outcome>>

Read ==
    /\ Fetch /\ Instruction = <<"word", "read">>
    /\ stack' = Append(stack, BoolValue(input # <<>> /\ Head(input)))
    /\ input' = IF input = <<>> THEN input ELSE Tail(input)
    /\ Continue(Innermost.ip + 1)
    /\ UNCHANGED <<program, tapeRead, chunk, printed, outcome>>

Println ==
    /\ Fetch /\ Instruction = <<"word", "println">>
    /\ IF stack = <<>>
       THEN Fails("error")
       ELSE /\ printed' = Append(printed, Top)
            /\ stack' = Front(stack)
            /\ Continue(Innermost.ip + 1)
            /\ UNCHANGED <<program, tapeRead, chunk, input, outcome>>

(* Mutant: the caller goes on before its block ran.                        *)
CallPastCaller ==
    /\ Fetch /\ Instruction = <<"word", "call">>
    /\ IF stack = <<>> \/ ~IsBlock(Top)
       THEN Fails("error")
       ELSE /\ calls' = Append([calls EXCEPT ![Len(calls)].ip = @ + 1], Call(Top[2], stack))
            /\ stack' = Front(stack)
            /\ UNCHANGED <<program, tapeRead, chunk, printed, input, outcome>>

(* The caller stays at the call until its block returns.                   *)
CallBlock ==
    /\ Fetch /\ Instruction = <<"word", "call">>
    /\ IF stack = <<>> \/ ~IsBlock(Top)
       THEN Fails("error")
       ELSE /\ calls' = Append(calls, Call(Top[2], stack))
            /\ stack' = Front(stack)
            /\ UNCHANGED <<program, tapeRead, chunk, printed, input, outcome>>

(* A jump behind the last instruction ends the chunk.                      *)
JumpIfFalse ==
    /\ Fetch /\ Instruction[1] = "jumpIfFalse"
    /\ IF stack = <<>>
       THEN Fails("error")
       ELSE /\ stack' = Front(stack)
            /\ Continue(IF Truthy(Top) THEN Innermost.ip + 1 ELSE Instruction[2])
            /\ UNCHANGED <<program, tapeRead, chunk, printed, input, outcome>>

Jump ==
    /\ Fetch /\ Instruction[1] = "jump"
    /\ Continue(Instruction[2])
    /\ UNCHANGED <<program, tapeRead, chunk, stack, printed, input, outcome>>

(* call_bytecode_block: the value on top of what the block pushed, or nil, *)
(* in place of all it pushed.                                              *)
BlockReturns ==
    LET base == Innermost.base
        result == IF Len(stack) > base THEN Top ELSE NilValue
    IN  /\ stack' = Append(Truncate(stack, base), result)
        /\ calls' = [Front(calls) EXCEPT ![Len(calls) - 1].ip = @ + 1]
        /\ UNCHANGED <<program, tapeRead, chunk, printed, input, outcome>>

(* The main chunk may not return.                                          *)
Return ==
    /\ Fetch /\ Instruction[1] = "return"
    /\ IF AtMain THEN Fails("error") ELSE BlockReturns

Ends ==
    /\ Running /\ AtEnd
    /\ AtMain
    /\ outcome' = "done"
    /\ UNCHANGED <<program, tapeRead, chunk, calls, stack, printed, input, used>>

LanguageNext ==
    \/ PushBool \/ PushBlock \/ Read \/ Println \/ CallBlock
    \/ JumpIfFalse \/ Jump \/ Return \/ Ends \/ Exhausted

LanguageSpec == LanguageInit /\ [][LanguageNext]_languageVars

-----------------------------------------------------------------------------
Values == ({"bool"} \X BOOLEAN) \cup {NilValue} \cup ({"block"} \X Blocks)
Programs == {p.files : p \in Compiled}
Chunks == Blocks \cup {p.chunk : p \in Compiled}

(* Every variable has its type: a program in execution has its calls, a    *)
(* block on the stack is one of its blocks, and its budget is never        *)
(* overdrawn.                                                              *)
LanguageTypeOK ==
    /\ program \in Programs /\ chunk \in Chunks
    /\ calls # <<>>
    /\ calls \in Seq([chunk : Chunks, ip : Nat, before : Seq(Values), base : Nat])
    /\ stack \in Seq(Values) /\ printed \in Seq(Values)
    /\ input \in Seq(BOOLEAN) /\ tapeRead \in Tapes
    /\ used \in 0 .. InstructionLimit
    /\ outcome \in {"running", "rejected", "done", "error", "limit"}

(* The calls in execution nest.  The first runs the program's chunk and    *)
(* each other one the block that lay on top of the stack when its caller,  *)
(* which still waits at that call, called it; every block leaves by a      *)
(* return and none runs off its end; a program is done only at the end of  *)
(* its own chunk, and after an error its stack is the one that the         *)
(* outermost call found, with its block; one that is cut off has used its  *)
(* budget up, and none uses more.                                          *)
ExecutionSound ==
    /\ calls[1].chunk = chunk
    /\ calls[1].ip <= Len(chunk.code)
    /\ \A i \in 2 .. Len(calls) :
          /\ calls[i].ip < Len(calls[i].chunk.code)
          /\ calls[i - 1].ip < Len(calls[i - 1].chunk.code)
          /\ calls[i - 1].chunk.code[calls[i - 1].ip + 1] = <<"word", "call">>
          /\ calls[i].before # <<>>
          /\ Last(calls[i].before) = BlockValue(calls[i].chunk)
          /\ calls[i].base = Len(calls[i].before) - 1
    /\ outcome = "done" => AtMain /\ AtEnd
    /\ outcome \in {"error", "limit"} /\ ~AtMain => stack = calls[2].before
    /\ used <= InstructionLimit /\ (outcome = "limit" => used = InstructionLimit)

=============================================================================
