------------------------------ MODULE Language ------------------------------
(***************************************************************************)
(* Control flow from source to instructions: the code generator            *)
(* (crates/ricochet_compiler/src/compiler.rs: Compiler) and the linking of *)
(* imported files (imports.rs: SourceResolver::compile_file, append_chunk).*)
(*                                                                         *)
(* if, while, break, continue and return become jumps that are patched     *)
(* when their targets are known; a block becomes a chunk of its own.  The  *)
(* chunks of the files are appended to one, their jumps and block indices  *)
(* moved.  A program is a set of files, each with the files it imports and *)
(* a syntax tree.  What the instructions do in module Interpreter is       *)
(* compared with EvalFile, which runs the trees themselves and knows no    *)
(* jumps.  Macros, which are expanded before, are left out.                *)
(*                                                                         *)
(* A tree is a sequence of expressions: <<"symbol", word>>,                *)
(* <<"if", then, else>>, <<"while", condition, body>>, <<"block", body>>.  *)
(* In Eval, the value of a block is its tree.                              *)
(***************************************************************************)
EXTENDS Interpreter, FiniteSets

-----------------------------------------------------------------------------
(* The compiler.  A compilation in progress has the instructions and the   *)
(* blocks so far, the loops it is inside of (innermost last), and whether  *)
(* it met an error.                                                      *)

NewCompiler == [code |-> <<>>, blocks |-> <<>>, loops |-> <<>>, ok |-> TRUE]

Here(c) == Len(c.code)
Emit(c, op) == [c EXCEPT !.code = Append(@, op)]

(* The target of a jump is filled in when it is known.                     *)
Patch(c, at, op) == [c EXCEPT !.code[at + 1] = op]

(* Mutant: the innermost loop's breaks are added to the outermost loop.    *)
BreakOutermost(c) == [c EXCEPT !.loops[1].breaks = Append(@, Here(c))]

(* A break is a jump that its loop patches when it ends.                   *)
NoteBreak(c) == [c EXCEPT !.loops[Len(c.loops)].breaks = Append(@, Here(c))]

CompileSymbol(c, word) ==
    CASE word \in {"true", "false"} -> Emit(c, <<"bool", word = "true">>)
      [] word = "return" -> Emit(c, <<"return">>)
      [] word = "break" ->
            IF c.loops = <<>> THEN [c EXCEPT !.ok = FALSE] ELSE Emit(NoteBreak(c), <<"jump", -1>>)
      [] word = "continue" ->
            IF c.loops = <<>> THEN [c EXCEPT !.ok = FALSE] ELSE Emit(c, <<"jump", Last(c.loops).target>>)
      [] OTHER -> Emit(c, <<"word", word>>)

RECURSIVE CompileExprs(_, _)

(* The false branch starts behind the jump over it.                        *)
CompileIf(c, thenBody, elseBody) ==
    LET jumpIfFalse == Here(c)
        then == CompileExprs(Emit(c, <<"jumpIfFalse", -1>>), thenBody)
        jumpOver == Here(then)
        else == CompileExprs(Emit(then, <<"jump", -1>>), elseBody)
    IN  Patch(Patch(else, jumpIfFalse, <<"jumpIfFalse", jumpOver + 1>>),
              jumpOver, <<"jump", Here(else)>>)

(* The condition is compiled before its loop is entered: a break in it is  *)
(* one of the loop around.  continue evaluates the condition again.        *)
CompileWhile(c, condition, body) ==
    LET start == Here(c)
        tested == CompileExprs(c, condition)
        exit == Here(tested)
        inside == [Emit(tested, <<"jumpIfFalse", -1>>) EXCEPT
                      !.loops = Append(@, [target |-> start, breaks |-> <<>>])]
        looped == Emit(CompileExprs(inside, body), <<"jump", start>>)
        end == Here(looped)
        breaks == ToSet(Last(looped.loops).breaks)
    IN  [looped EXCEPT
            !.loops = Front(@),
            !.code = [i \in 1 .. end |->
                        IF i - 1 = exit THEN <<"jumpIfFalse", end>>
                        ELSE IF i - 1 \in breaks THEN <<"jump", end>> ELSE @[i]]]

(* compile_block_chunk: a compiler of its own, in no loop, and a return at *)
(* the end.                                                                *)
CompileBlock(c, body) ==
    LET b == CompileExprs(NewCompiler, body)
        block == [code |-> Append(b.code, <<"return">>), blocks |-> b.blocks]
        noted == [c EXCEPT !.blocks = Append(@, block), !.ok = @ /\ b.ok]
    IN  Emit(noted, <<"block", Len(c.blocks) + 1>>)

CompileExpr(c, e) ==
    CASE e[1] = "symbol" -> CompileSymbol(c, e[2])
      [] e[1] = "if" -> CompileIf(c, e[2], e[3])
      [] e[1] = "while" -> CompileWhile(c, e[2], e[3])
      [] e[1] = "block" -> CompileBlock(c, e[2])

(* The first error ends the compilation.                                   *)
CompileExprs(c, exprs) ==
    IF exprs = <<>> \/ ~c.ok THEN c ELSE CompileExprs(CompileExpr(c, Head(exprs)), Tail(exprs))

(* A compilation starts at the file "main".                                *)
MainFile == "main"

(* Mutant: the appended jumps keep their targets.                          *)
KeepTargets(op, instructions, blocks) ==
    IF op[1] = "block" THEN <<"block", op[2] + blocks>> ELSE op

(* rebase_op *)
Rebase(op, instructions, blocks) ==
    CASE op[1] \in {"jump", "jumpIfFalse"} -> <<op[1], op[2] + instructions>>
      [] op[1] = "block" -> <<"block", op[2] + blocks>>
      [] OTHER -> op

AppendChunk(target, ch) ==
    [code |-> target.code \o [i \in 1 .. Len(ch.code) |->
                                 Rebase(ch.code[i], Len(target.code), Len(target.blocks))],
     blocks |-> target.blocks \o ch.blocks]

(* The resolver: the files loaded and being visited, and the chunk of the  *)
(* file it compiled last.                                                  *)
NewResolver == [loaded |-> {}, visiting |-> {}, chunk |-> EmptyChunk, ok |-> TRUE]

RECURSIVE CompileFile(_, _, _)

(* The imports of a file, each one once, appended in their order           *)
CompileImports(res, files, imports) ==
    FoldLeft(LAMBDA acc, f :
                 IF ~acc.ok THEN acc
                 ELSE LET compiled == CompileFile(acc, files, f)
                      IN  [compiled EXCEPT !.chunk = AppendChunk(acc.chunk, @)],
             [res EXCEPT !.chunk = EmptyChunk], imports)

(* A file that was loaded adds nothing; one that is being visited is a     *)
(* cycle; and any other is appended to its imports.                        *)
CompileFile(res, files, f) ==
    IF f \in res.loaded THEN [res EXCEPT !.chunk = EmptyChunk]
    ELSE IF f \in res.visiting THEN [res EXCEPT !.ok = FALSE]
    ELSE LET imported == CompileImports([res EXCEPT !.visiting = @ \cup {f}], files, files[f].imports)
             own == CompileExprs(NewCompiler, files[f].body)
         IN  [loaded |-> imported.loaded \cup {f},
              visiting |-> imported.visiting \ {f},
              chunk |-> AppendChunk(imported.chunk, [code |-> own.code, blocks |-> own.blocks]),
              ok |-> imported.ok /\ own.ok]

(* What the interpreter is given: the chunk of a program that compiled.    *)
CompileProgram(files) ==
    LET c == CompileFile(NewResolver, files, MainFile)
    IN  [files |-> files, chunk |-> IF c.ok THEN c.chunk ELSE EmptyChunk, ok |-> c.ok]

(* The blocks of a chunk, and theirs.                                      *)
RECURSIVE BlocksOf(_)
BlocksOf(ch) == ToSet(ch.blocks) \cup UNION {BlocksOf(b) : b \in ToSet(ch.blocks)}

-----------------------------------------------------------------------------
(* What a tree means, without jumps: a run has a stack, what it printed,   *)
(* the rest of its tape, the expressions it may still evaluate, and a      *)
(* signal, "next" as long as it goes on.                                   *)

(* No run within the instruction limit evaluates more expressions.         *)
Fuel == 2 * InstructionLimit + 2

NewRun(tape) ==
    [stack |-> <<>>, printed |-> <<>>, tape |-> tape, fuel |-> Fuel, signal |-> "next", ran |-> {}]
Signal(r, s) == [r EXCEPT !.signal = s]
Pushed(r, v) == [r EXCEPT !.stack = Append(@, v)]
Popped(r) == [r EXCEPT !.stack = Front(@)]

RECURSIVE Eval(_, _)

(* break and continue leave the expressions of the loop's body, and a      *)
(* break in its condition leaves the loop around.                          *)
RECURSIVE EvalWhile(_, _, _)
EvalWhile(r, condition, body) ==
    LET tested == Eval(r, condition)
        again == Eval(Popped(tested), body)
    IN  IF r.fuel = 0 THEN Signal(r, "fuel")
        ELSE IF tested.signal # "next" THEN tested
        ELSE IF tested.stack = <<>> THEN Signal(tested, "error")
        ELSE IF ~Truthy(Last(tested.stack)) THEN Popped(tested)
        ELSE IF again.signal = "break" THEN Signal(again, "next")
        ELSE IF again.signal \in {"next", "continue"}
             THEN EvalWhile([Signal(again, "next") EXCEPT !.fuel = IF @ = 0 THEN 0 ELSE @ - 1], condition, body)
        ELSE again

(* A block sees the caller's stack.  It may leave any number of values and *)
(* return from anywhere; its caller gets one value, and after an error the *)
(* stack with the block.                                                   *)
EvalCall(r) ==
    LET under == Popped(r)
        after == Eval(under, Last(r.stack)[2])
        base == Len(under.stack)
        result == IF Len(after.stack) > base THEN Last(after.stack) ELSE NilValue
    IN  IF after.signal \in {"next", "return"}
        THEN [Signal(after, "next") EXCEPT !.stack = Append(Truncate(@, base), result)]
        ELSE [after EXCEPT !.stack = r.stack]

EvalWord(r, word) ==
    CASE word \in {"true", "false"} -> Pushed(r, BoolValue(word = "true"))
      [] word \in {"return", "break", "continue"} -> Signal(r, word)
      [] word = "read" ->
            [Pushed(r, BoolValue(r.tape # <<>> /\ Head(r.tape))) EXCEPT
                !.tape = IF @ = <<>> THEN @ ELSE Tail(@)]
      [] r.stack = <<>> -> Signal(r, "error")
      [] word = "println" -> [Popped(r) EXCEPT !.printed = Append(@, Last(r.stack))]
      [] word = "call" -> IF IsBlock(Last(r.stack)) THEN EvalCall(r) ELSE Signal(r, "error")

EvalExpr(r, e) ==
    CASE e[1] = "symbol" -> EvalWord(r, e[2])
      [] e[1] = "block" -> Pushed(r, BlockValue(e[2]))
      [] e[1] = "while" -> EvalWhile(r, e[2], e[3])
      [] e[1] = "if" -> IF r.stack = <<>> THEN Signal(r, "error")
                        ELSE Eval(Popped(r), IF Truthy(Last(r.stack)) THEN e[2] ELSE e[3])

Eval(r, exprs) ==
    IF exprs = <<>> \/ r.signal # "next" THEN r
    ELSE IF r.fuel = 0 THEN Signal(r, "fuel")
    ELSE Eval(EvalExpr([r EXCEPT !.fuel = @ - 1], Head(exprs)), Tail(exprs))

(* break and continue belong to the body of a while, in the same block; in *)
(* a condition they belong to the loop around.                             *)
RECURSIVE WellFormed(_, _)
WellFormed(exprs, inLoop) ==
    \A e \in ToSet(exprs) :
        CASE e[1] = "symbol" -> e[2] \in {"break", "continue"} => inLoop
          [] e[1] = "if" -> WellFormed(e[2], inLoop) /\ WellFormed(e[3], inLoop)
          [] e[1] = "while" -> WellFormed(e[2], inLoop) /\ WellFormed(e[3], TRUE)
          [] e[1] = "block" -> WellFormed(e[2], FALSE)

(* A file runs after the files it imports, and once.                       *)
RECURSIVE EvalFile(_, _, _)
EvalFile(r, files, f) ==
    LET after == FoldLeft(LAMBDA acc, g : EvalFile(acc, files, g), r, files[f].imports)
    IN  IF f \in r.ran \/ r.signal # "next" THEN r
        ELSE [Eval(after, files[f].body) EXCEPT !.ran = @ \cup {f}]

(* The files that a file needs, and how many imports away at most.         *)
RECURSIVE Needs(_, _, _)
Needs(files, fs, distance) ==
    LET next == UNION {ToSet(files[f].imports) : f \in fs}
    IN  IF distance = 0 THEN {} ELSE next \cup Needs(files, next, distance - 1)

(* No file needs itself, and in no file does a break or continue stray.    *)
Compiles(files) ==
    LET all == Cardinality(DOMAIN files)
        reached == {MainFile} \cup Needs(files, {MainFile}, all)
    IN  \A f \in reached : f \notin Needs(files, {f}, all) /\ WellFormed(files[f].body, FALSE)

(* Values as a program can tell them apart.                                *)
Shown(values) == [i \in 1 .. Len(values) |-> IF IsBlock(values[i]) THEN <<"block">> ELSE values[i]]

-----------------------------------------------------------------------------
(* A program means what its trees say.  The compiler rejects exactly the   *)
(* programs with an import cycle or a stray break or continue; one that    *)
(* ends has printed and left on the stack what EvalFile says, every file   *)
(* once and after its imports, with an error exactly where EvalFile has    *)
(* one (a return outside of a block among them), after which the stack is  *)
(* the one under the outermost call; and one that is cut off by its budget *)
(* has printed the beginning of what it would have printed.                *)
SourceMeaning ==
    LET run == EvalFile(NewRun(tapeRead), program, MainFile)
    IN  /\ outcome = "rejected" <=> ~Compiles(program)
        /\ outcome = "done" => /\ run.signal = "next"
                               /\ Shown(stack) = Shown(run.stack)
                               /\ Shown(printed) = Shown(run.printed)
        /\ outcome = "error" => /\ run.signal \in {"error", "return"}
                                /\ Shown(stack) = Shown(run.stack)
                                /\ Shown(printed) = Shown(run.printed)
        /\ outcome = "limit" => IsPrefix(Shown(printed), Shown(run.printed))

=============================================================================
