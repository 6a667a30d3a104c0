# A TLA+ model of Peryan

Peryan is a compiler for a language in the style of HSP (C++, LLVM) together
with the C runtimes its programs are linked with.  This directory holds TLA+
modules for the parts of it whose correctness depends on the order of things,
the TLC configurations that check them on small instances, and theorems that
TLAPS proves about them for every instance.

Every definition is a translation of the source.  `PROJECT.json` gives for each
one the lines it stands for (`map`), the runs and what they check, the mutants
that show a property can fail, the hazards the properties are for, and the
disagreements between the code and what is said of it (`findings`).

    tlasany M.tla                        parse
    tlc -workers 2 -config X.cfg M       model-check (runs in PROJECT.json)
    tlapm M.tla                          check the proofs of M

## 1. The system

The passes of the compiler run one after another over one AST (`Main.cc`): the
lexer and the parser together, the parser pulling tokens; then SymbolRegister,
SymbolResolver, TypeResolver and LLVMCodeGen.  `llc` and a linker follow.  A
compiled program calls the runtime.  On Windows the runtime calls the program
(`WinMain` calls `PeryanMain`), and Windows calls the runtime back
(`WindowProc`) whenever messages are dispatched.

| Component | State | Operations | What makes it correct | Modelled |
|---|---|---|---|---|
| Source stream (`Lexer::readSources`, `getPrettyPrint`, `FileSourceReader`) | stack of streams, open files by name, set of imported files, text, breadcrumbs | open, getline, close, import, include | no closed stream is read; an imported file is read once; the text is in the order the directives say; a position is mapped back to its file and line | `SourceStream`, `SourceOrder` |
| Token scanner (`Lexer::getNextToken`) | position in the text | one token per call | longest match | no: a function of the text |
| Parser (`Parser.cc`, `Parser.h`) | `tokens_`, `markers_`, the activations of the `parse*` functions | look ahead, consume, mark, release; `parse*` | speculation loses no token and is right; END is never passed; parsing ends; what the documented grammar has is accepted, and only what nests and was read to its end | `Parser`, `ParserBrackets`, `ParserGrammar`, `TokenBuffer`, `TokenCursor` |
| Symbols (`SymbolRegister`, `SymbolResolver`, `SymbolTable.h`) | scopes, two stacks of scopes, `cnt` symbols | define, resolve, two visits | every name means what lexical scoping says; only illegal programs are rejected | `Scopes`, `LexicalScope` |
| Type inference (`TypeResolver`) | bounds of type variables, types, `unresolved_`, positions | constraints, rounds | terminates; accepted programs are well typed; types do not change | `TypeInference` |
| Code generator (`LLVMCodeGen`) | deque of Blocks, activations, LLVM module, insertion point | `generate*` | a well-formed control-flow graph that jumps where the program says; labels that behave as `goto`, `gosub` and `return` | `CodeGen`, `CodeGenInv`, `CodeGenFlow`, `Labels`, `Jumps` |
| Driver (`Main.cc`) | files, exit status | passes, llc, link | reports success only when every stage succeeded | not yet |
| Windows runtime (`win32.c`) | `ctx`, bitmaps, message queue, mode | drawing, `redraw`, `wait`, `stop`, `end`, `WindowProc`, `stick` | no use of a freed context; what is drawn is shown; nothing runs after the end; of the keys that are found down the right one is reported | `WinRuntime`, `Canvas`, `Stick` |
| Runtime library (`common.h`, `unixcl.c`) | heap of String objects, pointers in variables, the selected note | strings, conversions, notes, `dirlist` | no program that keeps to the rules reads a freed string; every text fits its object; `noteinfo` and `noteget` agree | `Strings`, `StringValues`, `Texts` |

What is hard to test in it:

* basic blocks connected long after they are created, by another activation
  than the one that created them, with the state read before a recursive call
  and used after it (code generator);
* callbacks that free the state of the function below them on the stack, and
  messages that are queued in one order and delivered in another (runtime);
* the fixpoint of inference, whose result depends on the order in which
  constraints arrive, and whose end must be argued;
* symbols that are declared while names are being looked up;
* positions that pass through two representations: the text and its
  breadcrumbs, the token buffer and its markers;
* a recursive descent of forty functions in which a statement may end with a
  TERM, a colon, a brace or the END of the source, and some functions consume it
  and others leave it;
* strings that variables share and three runtime functions free;
* jumps that are compiled to calls, and leave a frame behind each.

`PROJECT.json` lists these as hazards, each at its line.

## 2. Modules

### Code generator: `CodeGen`, `CodeGenInv`, `CodeGenFlow`, with their proofs

A behaviour is one compilation of one program that is not fixed: each step is
the next `generate*` call the parser could have produced.  `blocks` is the deque
of `Block` objects, `calls` the stack of C++ activations with the local variables
that hold blocks (`after`, `prevBody`, `head`, `cond`), `module` the LLVM module:
the owner, the terminators and the successors of each basic block, and the
insertion point.  There is one action per point at which a `generate*` function
creates, connects or enters blocks (`IfStmt`, `IfBranch`, `ElseIf`, ...,
`RepeatEnd`, `LabelStmt`, `FuncEnd`, `TransUnitEnd`, `LogicEnd`, ...); all that
leaves the current block alone is `Instr`.  Failed assertions are the state
`Stopped`.

`CodeGenInv` is the inductive invariant: the blocks without terminator are
*shared out*, each to exactly one holder, the current body or one activation
still running.  `CodeGenFlow` adds where blocks are: the place of a block is the
`repeat` statement and the LLVM function it belongs to, and `FlowInv` says in
which place each activation's blocks are and which edges there may be.  The run
`codegen` checks `FlowInv`; the proofs use both invariants.

### Windows runtime: `Canvas`, `WinRuntime`, `WinRuntimeProofs`, `Stick`, `StickProofs`

`Canvas` is what the runtime promises a program: one picture, drawn on at once
in mode 1, published as a whole by `redraw 1` after `redraw 0`.  `WinRuntime` has
the two bitmaps, the mode, the context and the window's life cycle, the posted
queue, the input queue and the update region.  Its thread is in state `user` when the
program may make any call; a drawing call ends in `RefreshMainDC` and
`ProcessWindowMessages` (`pump`), where `WindowProc` handles one message per
step; `WM_DESTROY` frees the context under the caller.  The user and the system
(`Input`, `PostClose`, `Expose`) act at any time.  Windows is external.

`Stick` is `stick`, one step per key of its table with the user pressing keys
between them.  `found` and `earlier` are what the last two calls saw;
`LastTriggerIsReported` says from them alone, without `prevStick`, which key is
reported.

### Source stream: `SourceStream`, `SourceOrder`, `SourceStreamProofs`

Files are sequences of lines: text, blank, `#import`, `#include` or invalid.  The
loop of `readSources` is `ReadText`, `TakeImport`, `SkipImport`, `TakeInclude`,
`EndStream` and `Fail`; `Begin` opens the main file and `peryandefs`.  The state
is the stack of streams, the open files, the imported set, `source_` and
`breadcrumbs_`; `IsCrumbOf` and `LineNum` are `getPrettyPrint`'s search.
`SourceOrder` says what the text should be, by recursion over the directives and
without a stack.

### Parser: `TokenCursor`, `TokenBuffer`, `Parser`, `ParserBrackets`, `ParserGrammar`, `ParserProofs`

`TokenCursor` is what the parser relies on: a position in the tokens of the
source, a stack of saved positions and lookahead that stops at END.
`TokenBuffer` is the deque of tokens that were read and not consumed, with
markers that are indices into it; a marker makes `consume` keep the tokens.  It
implements the cursor.

`Parser` is the recursive descent on top of it.  A parse function is a set of
rules: what it looks at, at each of its points, how many tokens it consumes and
where it goes on.  A frame of `calls` is an activation, with the parameters
`isTopLevel`, `withoutTerm` and `allowTopEql` as the way it was called.  A look
that no rule allows is a ParserError or a failed assertion (`Fails`).
`speculateTypeSpec` runs the rules of `parseTypeSpec` under a marker and goes back,
`SpeculationSucceeds` and `SpeculationFails`.  Every step of `Parser` is a step of
`TokenBuffer` (`ParserUsesTheBuffer`), that is, it uses the buffer as that module
assumes, and so implements the cursor.  `ParserBrackets` says what the brackets
read so far await, innermost last, from the tokens alone and without a call;
`ParserGrammar` has the type specifiers as recursive predicates.  The
nodes are not modelled, nor is operator precedence.  The lexer is taken not to
fail: a `LexerError` ends the compilation.

### Symbols: `LexicalScope`, `Scopes`, `ScopesProofs`

`LexicalScope` reads the meaning of a name off the text: the nearest enclosing
scope that declares it, at or before the use for variables, anywhere for
functions, labels, namespaces and types.  `Scopes` has the two passes with their
own stacks of scopes; `RegisterX` actions are SymbolRegister's visits and
`ResolveX` SymbolResolver's, `Throw` is a SemanticsError.  The second pass enters
implicit variables (`DeclareImplicitly`, HSP mode) and `cnt` (`ResolveRepeat`)
while it looks names up.  The items of a program come from a tree, so every scope
that ends has begun (`IsNested`, `ProgramsAssumption`).

### Type inference: `TypeInference`, `TypeInferenceProofs`

A program is the sequence of its statements in visiting order.  A step is the
visit of one statement: it adds constraints to the bounds of type variables, or
checks types that are known; `NextRound` turns bounds into types, `Accept` and
`GiveUp` are the two ends of the loop.  A parameter has the two type variables
the code gives it.  A type is a built-in type with a number of dimensions.
Expressions are literals, variables, calls, operations, array
literals and subscripts, one level deep.  `widened` remembers the statements into
which `insertPromoter` has put a conversion from Float to Double, at which the next
round throws an error (`VisitWidened`): `promotionTable` does not have it.
`Operation` is the table of the binary operators and `CommonType` the conversion of
their operands.  A call that omits its argument visits the default argument of the function, whose identifier
(`ArgPlace`) is one and the same in all such calls.  `Verdict` has the errors, the
assertion and the null pointer in which the visit of an expression ends.
`ResolvedAssumption` is what SymbolResolver has made sure of: one definition of
each function that is called, and a parameter named below its function only.

### Strings: `Texts`, `StringValues`, `Strings`

`Texts` has the runtime's functions on text as functions of sequences of
character codes: conversions to and from a w-bit Int, the lines that `noteinfo`
counts, `noteget` takes and `fgets` reads in chunks, and the capacity of an object.
`StringValues` is what a program may rely on: a variable holds a text; a call that
replaces the string of a variable takes the text from its copies (`Lost`), with
which nothing may be done but to assign to them.  `Strings` has the pointers, the
heap and the selected note, of which the runtime keeps the address of the
variable.  An assignment copies the pointer; `noteget`, `noteload` and `dirlist`
free the object.  A freed address may be used again by any later allocation.
Under the mapping text = the object's text, or `Lost` when it was freed,
`Strings` implements `StringValues`.

### Labels: `Programs`, `Jumps`, `Labels`, `LabelsProofs`

`Programs` is the top-level code: `goto`, `gosub`, `return`, labels and `if`.
`Jumps` is what they mean: a `gosub` is remembered until a `return` takes it, a
`goto` is not.  `Labels` is what the code generator emits: each label begins a
function, which the one before it ends by calling; `goto` is a call and a ret.
Those calls leave frames to which nothing is to return but the ret that follows;
the mapping keeps the frames of `gosub`s only.

## 3. Runs

| Run | Instance | Shows |
|---|---|---|
| `codegen` | one label, one function, three statements and expressions | one terminator each; branches stay in their function; break and continue reach their loop, and every round passes the increment; PHI nodes name their predecessors; the insertion point follows the current body |
| `labels` | all codes of five statements with two labels, a stack of four frames | calls and rets implement `goto`, `gosub` and `return`; every run ends, because a loop made with `goto` uses up the stack |
| `winruntime` | two points, two colours, two input messages, waits of two rounds | no use of the freed context; nothing after the end; the screen shows the buffer; refinement of `Canvas`; closing the window ends the process |
| `stick` | three keys | of the keys found down the last that is new, non-trigger or was hidden is reported, and no other; only hidden keys repeat |
| `strings` | three variables, four addresses, texts of up to six characters | the runtime implements `StringValues`, whatever is shared and freed; every text fits |
| `sourcestream`, `sourcelines` | four files that import and include each other, 3329 programs | the properties of the table above; the line of a message is off by the skipped imports (finding) |
| `parser`, `parser_loop` | 6,952 sources: 467 statements of the documented grammar, twelve others with each token left out or replaced, all short ones | refinement of `TokenCursor`, no token lost, speculation right, brackets nest, the whole source is read, documented statements are accepted, termination; an empty line before `loop` is an error (finding) |
| `scopes` | 1561 programs with two nested scopes and two names, with and without HSP mode | every use means what lexical scoping says; rejected programs are illegal |
| `typeinference`, `typeparam` | 17,680 programs: one function, two variables, two statements after it, one before | accepted programs are well typed, types are final, rounds end; a parameter may end up with two types (finding) |

Why the bounds are enough.  In `codegen` three statements already nest a loop
in a branch in a loop, put a jump before dead code and a label after a loop; the
theorems cover every depth.  In `labels` five statements have a `gosub` into code
that reaches its `return` through a label and a `goto`, and a loop made with
`goto`; the refinement is proved for every program.  In `winruntime` two points
and two colours are what it takes to tell two pictures apart point by point, and
two queued messages to have a close request in front of or behind another; a
second round of `wait` is the first that can go wrong.  In `strings` three variables are two that
share an object and one that is the note or the destination of a call, and one
address more than variables lets a freed one be used again at once or not; the
Ints are those at which negation and conversion overflow, with `MaxInt` = 19; the
files hold each kind of line end and one that the chunk of three breaks up.  In
`sourcestream` a file is imported twice, included after an import, imported
circularly and missing, first and last in another, with `peryandefs` importing as
well.  In `parser` the statements go through every rule, and each of their tokens
is at some time left out or replaced by a token that means something elsewhere.
In `scopes` the uses stand before, between, inside and after two nested
declarations of the same name.  In `typeinference` constraints reach a parameter
from its body, from its default argument, from a call before and from calls after
its definition, so that it takes several rounds.  `stick` needs three keys so
that a reported key may have others before and after it in the table.

Deadlock is not checked where the model stops with the program: when the
sources are read, parsed, their names resolved, their types found, or when the
program that runs has ended.

**Fairness.**  The compiler is a single thread that keeps running, so
`SourceStream`, `Parser` and `TypeInference` assume weak fairness of `Next`.
`Labels` assumes it of the processor, which executes the next instruction.
`WinRuntime` assumes it of the runtime's own steps and of nothing else: neither
the program, which may compute for ever, nor the user is obliged to act;
`ClosingEndsTheProcess` therefore begins with a thread that is dispatching
messages.

**Findings.**  `sourcelines`: every skipped `#import` makes later messages of the
file one line too high.  `parser_loop`: a blank or comment line before `loop` is a
syntax error.  `typeparam`: a parameter may end up with two types.

Statements of comments and assertions that do not hold either, without a run of
their own; for the first three, adding the operator as an INVARIANT to the
configuration of its module shows the counterexample.  `BoundsAreOrdered` and
`AssertionHolds` (`MCTypeInference.cfg`): the bounds of a type are not ordered as
`TypeResolver.h` says; a third unrelated type (nothing is accepted then, so
`AcceptedIsWellTyped` has no say in it), an operation of the table without a
viable cast (`'c' < 1` outside HSP mode, `Bool + Float` in it) and an array literal
whose first element has no type yet stop the compiler.
`ReportedKeysAreNew` (`MCStick.cfg`): while two keys are held, the one earlier in
the table is reported as newly pressed.

What else was met while the code was translated, and is in the modules:

* `CodeGen`: a label in a local scope and a break outside a loop pass every check
  and stop the compiler at assertions.
* `Scopes`: in HSP mode a use above a declaration of the same name at global
  scope stops the compiler.
* `Labels`: a program that goes back with `goto` without end is never endless.
  With tail calls it would be, and its meaning would be the same.
* `Parser`: an empty `var` at top level ends the program there, and the rest is
  dropped without a word; an `extern` without identifier and an empty `var` in a
  block reach assertions; `{ mes "a" }` on one line is rejected; `#runtime`
  swallows the token after its string, and fails when that ends the line.
* `TypeInference`: a conversion from Float to Double is accepted in the round that
  inserts it and an error in the next, so whether a program with one is accepted
  depends on whether something else is still unresolved then.
* `Stick`: a key that is pressed and released between two calls is lost, and so is
  one that gives way to a later key of the table and is released before the next
  call.
* `Strings`: `x += f()` uses the pointer that was loaded before the call; `noteload`
  frees the note before it reads the file name; `noteinfo` and `noteget` disagree on
  empty notes and on a CR of its own; `instr` finds a text of which the other one
  ends with a part.

## 4. Proofs

**Code generator** (`CodeGenProofs`).  Assuming only that the names of labels
and functions are distinct, for any number of them and any number of statements:
`TypeOK`, the invariant `Inv`, which contains it, `OneTerminatorEach` and
`BodyIsOpen`; and the invariant `FlowInv` with the five properties about control
flow.
`OneTerminatorEach` is not inductive: that the block a branch ends in has no
terminator yet follows from who holds it.  `Inv` adds that: the holdings of the
body and of all activations are disjoint, and together they are the open blocks.
Each step hands some blocks from one holder to another, creates some and
terminates some (`Transfer`); the lemmas `StayStep`, `EnterStep`, `LeaveStep` and
`BecomeStep` say so for a step that keeps, pushes, pops or replaces an
activation, and each action is an instance of one of them.
`FlowInv` says where the blocks that are held are.  Whether a branch stays in its
function depends on the activation that will connect a block, which is not the
one that created it: so every activation's blocks are of the kind its function
needs and in its own place, the deque of `Block` objects and the stack of
activations agree on the loops and functions that are open, every edge of the
module joins two places as a `repeat` may, the blocks a pending operator has
branched from are those its PHI node will name, and activations of expressions
are nested so that the insertion point is in the current body.  The clause that a
value is returned inside a function only was added because the invariant is not
inductive without it.  The lemmas `FlowStay`, `FlowEnter`, `FlowLeave` and
`FlowBecome` treat the four kinds of steps; a label is by itself, because it moves
the end of a loop to a block that no edge reaches yet.

**Windows runtime** (`WinRuntimeProofs`).  For any points, colours, queue length
and wait: the invariant of the life cycle of context, window and queue, that no
step uses the context after it was freed, that the program makes no call after
the end, that frames are shown, and that the runtime implements `Canvas` under
the mapping picture = the bitmap of `GetCurrentDC`, published = the visible
bitmap.  For `stick` (`StickProofs`), with any number of keys: a call
reports, of the keys it found down, the last that was up at the call before, is
asked for as non-trigger, or was hidden then by a later one, and nothing else
(`OneKeyIsReported`); and only hidden keys repeat (`HeldKeysAreHidden`).  The
invariant is that `prevStick` is the last key the call before has found, because
`curStick` is assigned to and not added to, and `res` the last of those found that
may be reported.  This says nothing of presses that no call sees; see section 5.

**Source stream** (`SourceStreamProofs`).  Assuming that `#include`, and an
`#import` of `peryandefs`, go up in some order of the files (`ProgramsAssumption`;
otherwise a deleted stream is read, and the behaviour of the code is undefined):
no deleted stream is read, all are closed at the end, the breadcrumbs are sorted,
and every position is mapped to the file it came from.  The invariant: along the
stack, a stream that was included ranks above the one below it and one that was
imported is in the imported set, so no file is on it twice; the last breadcrumb
names the top of the stack.  Also, the line that is reported is that of the file
less the `#import`s skipped since the breadcrumb (`LinesLagBySkippedImports`).  That
needs `LineInv`: every character of the text is as many newlines behind its
breadcrumb as lines of its file, less the skipped directives; so will be the line
that is read next; and on the whole stack the stream's own line counter agrees with
that of the `getline` loop, from which the breadcrumb of a return is made.

**Parser** (`ParserProofs`).  Assuming that a source ends with its only END, for
all tokens, sources and bounds, the buffer by itself (`BufferSpec`) loses no token
and implements the cursor.  The invariant: buffer and lexer together are the part
of the source that has not been consumed, it is not empty, and the markers are
ordered and inside the buffer.  The position is `Consumed + Top + 1`, at most that
of END; the saved positions are the markers, each shifted by one place.

For the parser the tokens are those of `ParserTokens`, and at least two may be
looked ahead and one speculation made; the sources and the depth of activations
are any.  Its steps are the buffer's (`ParserUsesTheBuffer`), and with that it
loses no token and implements the cursor; what it accepts it has read
(`WholeSourceIsRead`) and its brackets nest (`BracketsMatch`), and `SpeculationIsRight`.  All rules but those of type
specifiers, of `parseTransUnit` and of `var` are *plain* (`OtherRules`): they
never lead into or out of a speculation.  The invariant `ParserInv` then says that
`parseTransUnit` is the outermost activation and a statement of the top level the
next, that above an activation that waits for a type specifier there are only
those of `parseTypeSpec`, and that there is a marker exactly while one of them is
speculating.  It is not enough for `SpeculationIsRight`, which compares two passes
over the same tokens.  `parseTypeSpec` has at most one rule for the next two tokens
(`OneTypeStep`), so its activations and position determine what follows.
`Retraces` adds: while speculating, the parser has come by such steps from where
the speculation began; while parsing again, such steps still lead from where it
is to where the speculation ended.  As the steps are the same, the second pass
never has to choose (`TypeRetraces`) and never is stuck (`ReparsingIsNotStuck`).

Neither is enough for `BracketsMatch`, for what an activation still owes is not in
them.  `Awaits` gives, for each point of a parse function, the bracket it will
consume before it returns, if any, and `RulesNest`, rule by rule, that the tokens a
rule consumes turn what its activation awaits into what those that replace it await,
at most one of them anything.  The invariant `Opened`: what all activations await,
from the outermost on, is what the brackets up to the position await; and for the
activation that speculates, up to where it began, to which a failure goes back.
`parseTransUnit` awaits nothing, so when it returns all brackets are closed.  Only
`#runtime`, which consumes two tokens whatever they are, may meet the END, which is
not consumed; then one more token is awaited (`Fits`).  `Awaited` is a recursive
function; that its equation has a solution (`RunsExist`), and one only (`RunsAgree`),
is proved by a least counterexample.

**Labels** (`LabelsProofs`).  For every program, any labels and any size of the
stack: the calls and rets implement `goto`, `gosub` and `return`
(`LabelsImplementJumps`).  The invariant is the type invariant `TypeOK`: the
program counter and all return addresses are addresses of the code.  A frame whose
address is the second instruction of a statement was left by a `goto` or a label;
the others, each with its place on the stack, are the `gosub`s that `Jumps`
remembers.  A ret that takes a frame of a `goto` goes on to the next ret, and is
a stutter.

**Type inference** (`TypeInferenceProofs`).  For any programs, variables and
functions that meet `ResolvedAssumption`: accepted programs are well typed, types
that were found are final, a round that is followed by another makes progress,
and what is unresolved has a position.  The invariant `InferInv` has one part for
each: only what has no type is bounded, and a parameter's symbol only below its
function's definition, which otherwise would give it a type under its bounds; an
identifier that has a type has that of its variable, unless it is a parameter; a
function without types was met, or is below; and as long as a round has met
nothing unresolved, every statement it has visited is well typed and its
identifiers have their types.  That the last part survives the rest of the round
is the lemma `KeptStatement`: a visit changes the type of no identifier that has
one.

**Symbols** (`ScopesProofs`).  For all programs whose scopes nest, any names and
both modes: every use that was resolved got the symbol lexical scoping gives it
(`LexicallyScoped`), a program is rejected only when it is illegal and accepted only
when it is legal (`VerdictIsRight`), and `TypeOK`, with which no stack of scopes is
ever empty.  The text says which scopes are open at an item by counting; the passes
keep stacks.  The invariant `ScopesInv` ties the two together: each stack is the
scopes open at the next item, outermost first; the enclosing scope of one that has
begun is the innermost around it; the tables hold what the text declares so far,
once per scope and name, and in the second pass the `cnt` and the implicit
variables besides; no item that was visited makes the program illegal.  `resolve`
goes outwards by recursion over `enclosing`.  Along the scopes open at a use the
recursion ends at the global scope (`ResolveIs`): the chain itself gives a function
that satisfies the equation of `resolve`, and a least scope at which another one
differs cannot be.  That what it finds is in the innermost scope that may be used
is `LookupIs`; that a use keeps its meaning as the tables grow is part of
`LexicallyScoped`, which is why the invariant bounds what the second pass may add.

Only model-checked: liveness (out of the prover's reach, like ENABLED);
`TextIsInInclusionOrder`, `AcceptsTheGrammar` and `DocumentedIsAccepted`, which
compare with recursive operators or with the runs' own sources; and `Strings`, whose texts and capacities are computed by recursive
functions of the data.

## 5. What is not modelled

* `CodeGen`: instructions, types and values; a nested label whose mangled name
  equals that of a declared one.
* `WinRuntime`: text layout, fonts, the mouse position; `PeekMessage` and
  `GetMessage` are one step; modal loops inside `DefWindowProc`; malformed
  arguments other than the runtime's own checks.
* `Stick`: presses that no call sees.  That they are reported cannot be a property:
  the code asks which keys are down now and ignores the bit of `GetAsyncKeyState`
  that tells of presses in between (line 543 of `win32.c` calls it useless here),
  and nothing in the repository promises more.
* `SourceStream`: columns; a file that includes itself (undefined behaviour).
* `Parser`: the nodes that are built, operator precedence, `Parser::parse`, which
  runs the passes; a backslash before CR LF, which leaves a TERM in the lexer.
* `Scopes`: types built from specifiers, members of namespaces, mangled names.
* `TypeInference`: modifiers (const and ref), with them assignments to what is no
  reference; members, static members, written conversions, functions of
  several parameters, a default argument that is its own parameter.  The conversions
  that are inserted into the tree, except that a round fails at one from Float to
  Double which an earlier round inserted: an operation whose operands are both
  results of calls gets none, and a
  Bool addition in HSP mode has the type Int and operands of type Bool.
* `Strings`: the ends of the lifetimes of variables (a selected note may be a
  local of a function that has returned); lengths at which the capacity
  overflows; objects nothing refers to, which are never freed; the functions that
  compute with numbers only, and output.
* `Labels`: code inside `repeat`; the statement `stop`; labels in local scopes.
* The token scanner, AST, printers, options and warnings: data and pure
  functions; what a pass does to the AST is in the module of the pass.  Fonts,
  `title`, the cursor position and `getkey` of the Windows runtime.  The driver:
  see the plan.

## 6. Plan

Done, in this order: `CodeGen` with its invariant and proofs, `Canvas` and
`WinRuntime` with the refinement and proofs, `SourceStream` with proofs,
`TypeInference`, `LexicalScope` and `Scopes`, `TokenCursor` and `TokenBuffer`
with the refinement and proofs, `Stick`, `Parser` and `ParserGrammar`, `Strings` and
`StringValues`, `Jumps` and `Labels` with the refinement and proofs, operators,
arrays and default arguments in `TypeInference`, the control flow of `CodeGen`
with proofs, the proofs of `Stick` and of `TypeInference`, the lines of
`SourceStream`'s messages, that `Parser` implements `TokenBuffer` and what it
speculates on, the proofs of `Scopes`, and that the brackets of an accepted source
nest.

Further work, to model: the driver and the files a failed stage leaves behind; fonts and
device contexts, composed with `WinRuntime`'s life cycle; members and several
parameters in `TypeInference`.
