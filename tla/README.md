# Verification of detfm

detfm deobfuscates one Flash program: it reads a `.swf` file, edits the bytecode
(ABC) of its main frame and writes the file again. The bytecode is edited in
place, on hand-linked lists full of raw offsets, and partly by several threads;
the result is a program that nobody looks at before it runs. This directory
models that editing in TLA+, checks it with TLC and proves what matters most of
it with TLAPS.

Paths are relative to the repository's root, `src/` here. Line numbers are those
of the modelled commit; `PROJECT.json` maps every definition to its lines.

## The system

`main()` (`src/main.cpp`) runs stages one after the other over one `AbcFile`:

    unpack -> symbols, Renamer -> simplify_init -> analyze -> unscramble
           -> rename -> user-defined classes -> proxy -> write

| component | state it keeps | operations | modelled |
|---|---|---|---|
| Instruction list (`detfm/opinfo.cpp`) | per method: the parser's `Instruction` chain, an `OpInfo` per instruction (`next`, `jumpsTo`, `jumpsHere`, `errors`), an `ErrorInfo` per exception entry | registration, `OpInfo::remove`, `ErrorInfo::replace` | `OpInfo`, `Rewrite`, `CodeEdit` |
| Unscrambling of a method (`detfm::unscramble`, `detfm.cpp:116`) | the list, a cursor, `remove_next_call`, `modified`, the constant pools | one branch of the loop per kind of instruction, writing back | `Pass`, `Unscramble`, `UnscrambleMeaning` |
| Expression simplifier (`detfm/simplify.cpp`) | the list, a cursor, a stack of values, `modified`, the pools | one case per opcode, `edit_ins`, writing back | `Pass`, `StackValues`, `Simplify`, `SimplifyMeaning` |
| Worker pool (`main.cpp:45-83`, `add_value_mut`) | deque of methods, two mutexes, threads, the pools | `get_jobs`, `task`, `unscramble`, appending a constant | `WorkerPool`, `Resolution` |
| Wrapper and static classes (`WrapClass.cpp`, `StaticClass.cpp`) | names of the wrappers; slots and evaluated methods of each static class | the constructors; `is_wrap`, `is_slot`, `is_method` | `Analysis`, `Unscramble` |
| Method evaluator (`detfm/eval.cpp`) | a stack | `eval_method` | `Evaluate`, in `Analysis` |
| Class analysis (`detfm::analyze`, `match_*`) | the classes found so far, the list of patterns still open | one step per class | `Analysis` |
| Renamer and symbols (`renamer.cpp`, `main.cpp:254`) | counters, names given | the loop over symbols, `Renamer::rename` | `Renaming`, `Pool` |
| Packet naming (`detfm::rename`, `detfm.cpp:285-1000`) | names of packets and members, a walk over code | one pass per kind of packet | `PacketNames`, `Dispatch`, `Tribulle`, `Handlers` |
| Packages and namespaces (`detfm.cpp:1052-1111`) | namespaces, the map from strings to packages | `create_package`, `set_class_ns`, `create_missing_sets` | `Pool`, `Dispatch` |
| User-defined classes (`match/`) | definitions, actions collected while matching | `load_classdef`, `match`, `execute_actions` | partly: `ClassMatch` |
| Proxy rewriting (`proxy2localhost`) | one string | one pass | `Stages` |
| Stages of `main` | exit code | the order above | partly: `Stages` |
| Formats, logging, scripts, build files | none that outlives a call | | not modelled |

How they interact. `simplify_expressions` and `unscramble(method)` both build the
list anew from a method's code, edit it through `OpInfo::remove` and write it back.
Both append to the constant pools of the file and put the index into the code.
`analyze` evaluates the static methods and slots once, before; `unscramble` reads
what it found, and so does `rename()`, which asks for some of it without looking.
All naming happens in the strings of the constant pool, which multinames share:
symbols, Renamer, `rename()` and the user's definitions each rename what the ones
before them have named. The worker pool runs `unscramble(method)` on different methods at
a time; what they share is the deque (under `task`'s static mutex) and the pools
(under `add_value_mut`). `main` joins the threads before `rename()`.

What is hard about it:

- *Sequences of edits.* A removal hands the jumps and exception bounds of an
  instruction on to the next one, which may go next. Two chains and their back
  pointers are maintained by hand, while a cursor stands in them.
- *Stale state.* Raw pointers to elements of a growing vector, the addresses of
  removed instructions, a `next` pointer that outlives the removal.
- *Text against control flow.* Both passes go through the text of a method with
  one counter or one stack, whatever its jumps.
- *Interleaving.* Size-then-append on shared pools, back-then-pop on a shared
  deque, a thread that cannot be started.
- *Shared names.* A name is a string that other names use too, and some stages
  recognise a class by the text another stage gave it.
- *First come, first served.* Classes are given to patterns, and traits to matchers,
  in the order in which they come, and nothing is ever given back.
- *Numbers.* Bytes that are signed, casts, invalid offsets, the last instruction.

`PROJECT.json` lists the hazards one by one, each at its line, with the
properties that would catch it.

## What correctness means here

- List: after any removals both chains run through exactly the instructions left,
  in order; every jump and every exception bound leads to the first instruction
  left at or after its original target; nothing is dereferenced that is null.
- A pass: edits only by removing instructions that are in the list (it never
  removes twice), comes to an end, loses no edit, writes offsets that are the
  addresses of the right instructions, and what it writes does what it read did.
- Worker pool: every method is handed out once, every pool index leads to its
  value, `rename()` starts after all threads are done, nobody waits for ever.
- Analysis: no class has two parts; the first that fits a part has it, and none that
  fits is overlooked; what is not reported missing is there; what a static method or
  slot is replaced by is what the machine would compute.
- Names: what could not be read can be read, and stays so; a symbol and its class
  keep one name; different names stay different; a class that was found through a
  name is still found after it was moved to a package; a packet's name says the code
  under which the program's own handler makes it, or the id that the program itself
  computes for it; a definition names the class it describes.

## The modules

    Resolution   CodeEdit                      abstract specifications
        |            |
    WorkerPool   Rewrite  -- OpInfo            one list, edited
                     |
                   Pass                        a cursor, writing back
                  /      \
          Unscramble    Simplify -- StackValues
              |            |
      UnscrambleMeaning  SimplifyMeaning       against the machine below
              |            |
            Avm2       InitMachine             the AVM2 (external)

    StackValues -- Evaluate -- Analysis        what the classes are

    Pool -- Renaming -- PacketNames -- Dispatch -- Tribulle
                                  \                   |       what they are called
                                   ClassMatch ---- Stages
                                                      |
                                                  Handlers   the AVM2 (external)

**OpInfo** is the list as a value and `remove` as an operator on it. An
instruction, its `OpInfo` and its original address are one number, its position
in the method: nothing in the code depends on more of an address before it is
recomputed. `Unlink` is `OpInfo::remove` statement by statement: `ReplaceFirst`
(lines 12-19, with the `break` of line 16), `Reattach` (21-25), `HandOver`
(24-28), the pointers (30-44). `Dangling` is the set of exception entries whose
`ErrorInfo` was moved away from under the pointers in `OpInfo::errors` when
the vector grew (`detfm.cpp:169` has no `reserve`). It assumes that a vector
doubles its capacity, as libstdc++ and libc++ do, and that a write through such a
pointer, which is undefined, is lost.

**Rewrite** is the life of one list under any removals of instructions that are
in it; `kept`, a history variable, is the set of those left. It is shown to
implement **CodeEdit**, in which code is a sequence and removing an instruction
takes it out and leads its jumps to its successor.

**Pass** is what the two passes do alike: the initial registration, and writing
back (`detfm.cpp:244-282`, the same lines as `simplify.cpp:275-313`). `Position` is the
address at which an instruction comes to stand, counted up from the first one;
`Output` is the code written, with its offsets and its exception table.

**Unscramble** is `detfm::unscramble(method)`: `DropWrap`, `DropCall`,
`ResolveSlot`, `ResolveMethod`, `DropWrapClass` and `Skip` are the branches of its
loop, in the order in which the code tries them. Each of them includes what it
does to the pools, to `modified` and to the cursor.

**Simplify** is `simplify_expressions` as `simplify_init` calls it, one action per
case of the switch. `Other` is the default with its two tables. `edit_ins` is a
few steps (`RemoveOperand`, `PutConstant`), because each of its removals is a step
of Rewrite; no other thread is there to see them. The ways in which it stops
early are stages: `thrown` (caught and logged), `aborted` (`std::get` of a value of
another kind throws what nobody catches), `undefined` (empty stack, null `prev`).

**Avm2** and **InitMachine** model as much of the Flash virtual machine as the
passes rely on. They are not in the repository; what they say of an opcode is
what the comments and tables of the passes presuppose. Avm2 runs straight-line
code and yields what is stored into locals; InitMachine follows branches, both ways
where the condition is not known, and yields the assignments on each way.

**WorkerPool** has one action for each access to shared state, with a program
counter per thread. **Resolution** is its abstract specification: appending a
constant and referring to it is one step, and the file is handed on when all
methods have all their constants.

**Evaluate** is `eval_method` an instruction at a time (`EvalStep`), for its two
instantiations, and beside it what the AVM2 does with the same instruction
(`MachineStep`). **Analysis** is `analyze()`: a step takes the class under the walk for
the wrapper (`TakeWrapper`), for a static class (`TakeStatic`, which enters the
constructor of `StaticClass`: `NoteSlot`, `EvaluateMethod`, `DefineSlot` and so on), for
the first open pattern that fits (`TakePattern`), or passes it over. The `..Shape`
operators are the `match_` functions. What escapes from `eval_method` ends the program
(stage `thrown`); too small a stack and a division by zero are `undefined`.

**Pool** is what names are made of: strings, and multinames that have a string and
namespaces. **Renaming** has a step per symbol (in any order: they are a map),
the Game class, and a step per name that `Renamer` looks at. **PacketNames** is
`detfm::rename` but for the walk over the dispatching code, which is **Dispatch**
(a step per comparison found; `Upwards` climbs from a class to the one that has the
handler, as `find_ctrait_by_name` does) and **Tribulle** (the chain from packet 3c:03 to the
class that knows the ids). Dispatching code that ends within a comparison, or
branches to its first instruction, leaves the walk with a null pointer (`ReadNull`,
`Resumed`). Dispatch ends with `FixSet`, one turn of
`create_missing_sets`. **ClassMatch** reads definitions, gives each the first class
that matches it and carries out its actions. **Stages** is `main`: `Read`, the
modules above in turn, `Analyzed` (exit 3 when something is missing), `Proxy` and
`Write`, with every exit code. Reading past a vector's end and following a null pointer
are the stage `crashed`. Analysis, which is a model of its own, is composed with it by
values: the files of Stages carry `roles`, `statics` and `missings`, and
`ReadyOrReported` is what `analyze()` promises of them. It promises no more than the
first instance trait of the serverbound base, of which `rename()` names the third; some
files of Stages have a base with one or two, and crash.
**Handlers** runs the packet handlers as the AVM2 would, for the properties that
compare names with what the handled program does.

The `MC*` modules give the constants values; the `*Proofs` modules hold the
theorems.

## The runs

| run | question | size |
|---|---|---|
| `rewrite` | does the list survive any order of removals? | 4 instructions, one jump with up to 3 targets (repeated or invalid ones included), 1 exception entry: 154 000 states |
| `unscramble` | does the pass keep the list, its offsets and the meaning of methods? | methods of 14 instructions, two statements, wrappers up to 2 deep, every kind of static member, every method of them that is `WellMade`: 134 976 states |
| `simplify` | the same of the simplifier | initialisers of 12 instructions, every operation on constants of every kind, up to two operations, behind no branch, a constant or an unknown one: 69 593 states |
| `worker_pool` | do the threads lose, repeat or corrupt anything, do they end? | 3 methods, 1, 2 or 3 threads, 2 pools, two methods that need one value: 12 256 states |
| `analysis` | is each class given the right part, and each static member the right value? | any one and any four of 9 shapes of classes, any six with at most one part twice, files without a ByteArray, `ManyTraits` = 2, static methods of up to two operations, initialisers of three statements that assign a slot or two, once or again, by either opcode: 263 451 states |
| `stages` | do names stay readable, distinct and reachable, and do they say what the program does? | six families of files, below: 409 343 states |
| `nested_call`, `switch_twins`, `two_exceptions`, `simplify_boundary`, `simplify_operands`, `simplify_join` | see *Findings* | one feature more than the passing run |

The files of `stages` are `Endings` (every way for `main` to stop, and the proxy),
`NamesFiles` (four names out of six texts, two of them shared or colliding, up to three
symbols), `DispatchFiles` (handlers with two categories of up to two codes, constants
before or after what they are compared with, bodies that fall through, return, make a
reader or nothing; handlers of one category, inherited or not; code cut off in each place
where the walk reads on, and branches to the first instruction), `TribulleFiles`
(up to two packets each way, indices in any order, out of range or twice; each link
of the chain broken once), `BaseFiles` (seven writers, five readers, six proxy
constructors; multinames of other kinds and namespaces that share a string) and
`DefinitionFiles` (every definition of one or two traits out of 16, strict or not, on
40 files; actions that name what the next definition looks for).

Bounds. Two categories are enough for a walk that jumps too far or not far enough
to land in the other one; two indices and two targets for an off-by-one to hit a
neighbour or the end; two traits for a matcher to take what the other one needs; six
classes for all the parts that are reported. `ManyTraits` is 100 in the code, a
number that nothing else depends on. Four instructions are enough in `rewrite` for a removal of the first, the
last, two adjacent and two distant instructions around a survivor, and for three
targets of one jump to come together; the proofs cover the rest. In `unscramble`,
14 instructions hold a branch and two statements, one wrapped
twice, in any combination that fits, so that a jump or a bound can stand before,
inside or after a run of removals. In `simplify`, 12 hold a guarded assignment of a
folded expression followed by another assignment. Two threads can collide on a
mutex and a third can come between the reading and the writing of another; three
methods let a thread come back for more.

Some properties say under which condition the code keeps them, because it does not
without. `MeaningKept` of `unscramble` is about methods that are `WellMade`: the pass
recognises wrappers and static members by opcode and name and never looks at the
stack, so the stack has to hold what it takes for granted. `Shape` computes what is on
the stack at each place, as marks: `kept` for a value that the code written computes too,
`class`, `wrapper`, `scope` and `static` for those it does not. `WellMade` asks that every
instruction the pass removes finds the marks that make its removal right
(`OperandsRight`), that jumps and handlers enter where the stack is empty
(`EntriesRight`), that indices into pools exist, that slots that are resolved have a kind
the pass has a constant for (`IndicesRight`), and excludes the findings. The run starts
from every method of its grammar of which this is true; that is all of those in which
jumps lead between statements or into the padding. `ValuesAsReturned` is about methods that neither divide nor push a byte of 128
or more: `eval_method` divides the last operand by the first, as `simplify.cpp` does not,
and reads bytes unsigned. `SlotsAsInitialised` is about slots that are
`AssignedOnce`: there is one assignment, the first `findproperty` of the slot's name is in
front of it, with no other `findproperty` right before, and a value that takes more than one
instruction does not begin with a boolean (`true && x` does, and the slot is resolved as
`true`). The rest of the initialiser may be anything, other slots' assignments that go
wrong included. A slot that is assigned again keeps its first value.
`DescribedIsNamed` wants what is narrower first in a definition, since a trait once
taken is never given back. `NamedAsDispatched` leaves the reader of varints out,
which the handler of one category may name like a packet. `StillDistinct` names
the exceptions' names, texts the file already has, and symbols that differ before the
underscore alone.

The grammars say what "a method" is: an expression may stand wherever the
obfuscator puts one, labels or `kill` pad the rest. What the passing runs leave
out on purpose is exactly what the violation runs put in: `NestCalls`,
`SwitchTables`, a second exception entry, and `Hard`, which adds conditional expressions,
among others. They also leave out a `Boolean()` of an unknown value, and of NaN, which
`eval_bool` calls true.

`MeaningKept` is the property the others serve: running what was written gives
what running what was read gave, from the start and, in `unscramble`, from every
jump target and handler. `OffsetsWritten` says of the written
offsets alone that each is the address of the right instruction. `ListSpec` and
`Implements` are refinements checked as properties. `EditsWritten` is about
`DropCall`, which edits without setting `modified`.

Every property is tied to a mutant: a plausible bug in the modelled code that TLC
then finds with this very property.

### Fairness

The passes are loops of one thread: weak fairness of `Next` says that the thread
runs. In `WorkerPool` every thread and `main` are fair on their own, as a
preemptive scheduler makes them. Nothing is assumed about who gets a free mutex:
`Ends` holds all the same, since a thread takes it a bounded number of times, so
that no strong fairness is needed. Analysis is one thread again, and fair as a whole.
Stages states no fairness and claims nothing about an end: the class hierarchy that
`find_ctrait_by_name` climbs may be a circle.

### Findings

Each is a run in which TLC finds `MeaningKept` violated by what the code does.

- `nested_call` (`detfm.cpp:182`): the `call` that belongs to a wrapper fetched by
  `getproperty` is found by counting. If an operand contains a call itself, that
  one is removed.
- `switch_twins` (`opinfo.cpp:16`): two cases of a `lookupswitch` that lead to one
  removed instruction: only the first is moved, the second is written with the
  address the removed instruction had before.
- `two_exceptions` (`detfm.cpp:169`): with more than one exception entry the
  bounds of the earlier ones do not follow the code.
- `simplify_boundary` (`simplify.cpp:110`): a result of +128 is written as a
  `pushbyte` and of +32768 as a `pushshort`; both are read back negative.
- `simplify_operands` (`simplify.cpp:100`): operands are removed by position; with
  a `swap` in between, an operand stays on the stack.
- `simplify_join` (`simplify.cpp:174`): one stack goes through the text across jumps. Of
  `(c ? l : r) + 3`, r + 3 is folded and the push of r removed with it, and where c
  is true the sum is pushed on top of l.

`not` (`simplify.cpp:211`) has its condition the wrong way round; of a value that is
no `bool` it ends the program. Simplify models both outcomes; no property is
stated about it.

Deviations seen while modelling that have no run of their own:

- `Boolean(x)` of anything unknown becomes `false` (`simplify.cpp:134`, `246`); `Hard` =
  "boolean" in MCSimplify adds such expressions, and `MeaningKept` fails.
- A negative result is cast to `uint32_t` (`simplify.cpp:111`), which is undefined:
  `SaturatingCast` is the build's choice. The runs are those of a build that wraps
  (x86-64); with `TRUE`, as on ARM, every negative result becomes 0, and `MeaningKept` fails.
- A static slot that the class initialiser assigns twice is resolved to the first value
  (`StaticClass.cpp:37`).
- `eval.cpp` divides the operand pushed last by the one before it and reads
  `pushbyte` unsigned (see `ValuesAsReturned`).
- `detfm.cpp:297` renames the third instance trait of the serverbound base,
  of which only the first is known to exist; `detfm.cpp:366` uses `wrap_class`
  unchecked when `--ignore-missing` was given; `detfm.cpp:488` and `:620` use what a
  search may not have found; `detfm.cpp:483`, `:497` and `:774` go on from an
  instruction that may not be there. All are the stage `crashed`.
- `detfm.cpp:699` compares an index with the number of targets and reads the one after
  it: the last index reads past the end.
- `detfm.cpp:1030`: `std::includes` wants sorted ranges; which strings count as
  addresses is therefore left as a constant (`Addresses`).
- A definition's `const` is never looked at, `override` drops `final`, a method that
  has names for its parameters matches no definition, and `super_name` is compared
  with the class's own name but cannot be set from a file. The value that a definition
  gives for a slot is looked at only if its type is String, Number, int or Boolean.

## The proofs

All constants are arbitrary: any number of instructions, jumps, exception
entries, methods, threads, constants.

**RewriteProofs.** `ListSpec => []ListInv`, where

    ListInv == ListOK /\ Chained /\ JumpsKnown /\ JumpsFollow /\ ErrorsFollow

is inductive as it stands, and only as a whole: `JumpsFollow` alone is not, because
a removal retargets those jumps that `jumpsHere` knows (`JumpsKnown`), at the
`opnext` that agrees with `next` (`Chained`). The argument for a removal of o is
that its successor n is the next survivor (`NextFacts`), so that "the first one
left at or after t" changes from o to n and for no other t (`SurvivorMoves`,
`SurvivorStays`). `JumpsFollow` makes its promise for the first of several targets
that have come together; the others are the finding `switch_twins`. `ErrorsFollow`
excludes `Dangling` entries, the finding `two_exceptions`.

The second half is what the chain means. The code's loops follow `next` from the first
instruction; `ChainAhead` says that every pointer, those that removed instructions keep
included, leads towards the end, so that the walk exists and `WalkEnumerates` that it
meets exactly the instructions left, in the order of the method. There is only
one such order (`EnumerationUnique`), and taking one member out of a set is taking
one entry out of its order (`RemoveAtEnumerates`). That gives `Refinement`: the list
implements CodeEdit. `Position` is summed up over the method and the code written
over its own indices; `PositionKept` says that they agree, from which `OutputOffsets`
gets that what is written has the right addresses in it. The library's rules of
induction cannot be used (they take an operator), but induction on a *set* of numbers
(`Smallest`, `Induction`) can, and is enough for recursive functions over instructions.

**UnscrambleProofs.** The pass implements `ListSpec`, so that all of the above holds
of it. The invariant it needs is that the cursor stands on an instruction that is
still in the list (`CursorLive`: a second removal of one would corrupt the chain),
that the last instruction is no `getlex` (`LastIsNoLex`: the code looks at the
instruction after it), and that what was announced was announced by a marked edit
(`NothingUnmarked`, which gives `NoEditLost`). `CodeShrinks` carries the refinement of
CodeEdit over to the pass, `OffsetsRight` the offsets: every jump and every bound
written is the address of the instruction that the list leads to.

`MeaningIsKept` says what the pass is for: `Spec => [](WellMade => MeaningKept)`, for
methods of any length, wrappers nested as deep as they may be. It has three parts.

1. *The edits are known beforehand.* The inductive invariant `FateInv` says that behind the
   cursor the list is what is left when the instructions of which `Gone` is true of the
   method *as parsed* are taken out, that each member access that is `Resolved` holds
   the constant it stands for (`Loads`), that ahead of the cursor nothing has changed, and
   that `remove_next_call` is the number of wrappers that `Shape` has open there. It
   needs no `WellMade`: it is what the code does with any method (`FatesDecided`). It
   includes that the pools have only grown (`PoolsGrown`), so that what was loaded
   earlier still is what it was, and it is an invariant only together with the chain of
   RewriteProofs, since the cursor moves along `next` (`NextPlace`), and together with
   `CursorLive`.
2. *The machines agree.* `Agree(m, r, marks)`: the machine m that runs the code read
   and the machine r that runs the code written have stored the same values into the
   locals, and r's stack is m's without the entries whose mark is not `kept` (`Stacks`,
   with a function that counts the entries kept: `Aligned`). For each way in which
   the pass treats an instruction there is a lemma that the agreement holds behind it
   with the marks `ShapeAfter` says: `KeptStep`, `PushStep`, `WrapperStep`,
   `UnwrapStep`, `CallStep`, `ResolvedStep`; `InstructionStep` puts them together, and it
   is here that `WellMade` is used. `Simulation` is the induction over the method: from
   any entry with an empty stack, the code written, started at the first instruction
   left at or after it, has the same outcome.
3. *The code written starts where it should.* Each jump, handler and bound written is
   the address of the first instruction left (`OffsetsWritten`), and addresses grow along
   the code (`PositionGrows`), so that a range covers what it covered.

TLC checked `FateInv` for all methods of the grammar and all targets of their jumps
before it was proved.

**SimplifyProofs.** The same refinement for `simplify_expressions`: the operand
that `edit_ins` removes is in the list and is not the instruction it edits
(`OperandInFront`), whatever the pass believes about values. So where its folding
is wrong, its jumps, offsets and exception tables are still right (`OffsetsRight`).

**WorkerPoolProofs.** The invariant adds to the properties that each mutex is held by
the thread inside (`Locks`), that what a thread has read is still true when it acts
on it (`ReadsFresh`: the deque's last element, the pool's size), how far each method
is (`Progress`) and where `main` and the threads are relative to each other
(`Phases`). `Refinement` says that the pool implements Resolution: the step that
appends maps to `Resolve`, the last one of `main` to `HandOn`, all others stutter.
`EntriesStayOwned`: the entries added and the constants resolved correspond one to one,
even where two threads add equal values. The index given to a constant is
nobody else's (`EntriesStep`): those in use are below the pool's size (`IndicesRight`), and
the size is still the one that was read (`ReadsFresh`). Two reads before two appends, as
there would be without the mutex, give one index twice and leave an entry to nobody.

**AnalysisProofs.** The walk is at one class and everything found lies before it
(`FoundBefore`), the patterns still open are exactly those without a class, each once,
and the two that do not look (`OpenRight`): that is why a pattern is closed for good
(`FoundForGood`) and a class is never taken twice (`TakenOnce`). `Overlooks` adds that
what a class looks like does not change once ByteArray is looked up (`ShapeKept`),
`Ready` that what was found for a part has its shape (`FoundFits`).
`Returns`: while a plain method is evaluated, `eval_method` and the machine have the
same stack of whole numbers (`EvalInv`); every constant is what its field holds
(`PushesAgree`), and an addition does not care for the order in which `add()`
takes the operands (`WholesAdd`). `Initialised`: a slot whose value is in the initialiser
and that is assigned once either waits for its first `findproperty`, which the walk has not
reached, or is right already (`SlotsDone`). This says nothing of the slots
around it: the initialiser may assign those in several places or not at all. The walk goes two
instructions at a time where it finds a slot; that it does not jump over what another slot
waits for is `WalkStep`, and needs that no `findproperty` stands right behind another.

**NamesProofs.** What the naming stages keep, for files of any size. Two invariants:
`SymbolsRight` while symbols are renamed, in any order (a string that was a symbol has
that symbol's name now, and a new name can be read), and `LinksRight` while Renamer
runs, which therefore leaves those strings alone: that is `Linked`. `Origins` says where
each new text comes from: a counter that is beyond it, a symbol, an exception. Two strings
that differed can only meet in a text both may come from, which is `Shared`; the
result is `Distinct`. That the later stages do not come back to these is `NextLater`.
`Reachable` is `StillReachable` over the whole of Stages. Up to
`create_missing_sets()` every step is a `Moves`: kinds and strings of multinames stay,
and a multiname that changes its namespace has its string in `moved`. The
steps that only rename, `Known` and `Place` are shown to be such once, then each
action. The interface proxy alone changes strings, which is why `MovedFollowed` says
more before it than after. `SetsFixed` is the loop invariant of
`create_missing_sets()`, and from there on multinames do not change.

**StagesProofs.** `Readable`: after Renamer and to the end of the run, `NamesReadable`.

    ReadInv == StageOK /\ TextsOK /\ PlacesOK /\ ScanOK /\ NamesClear

`NamesClear` is the loop invariant of Renamer: the names of the places it is past can be
read. It is inductive only because a text never gets worse (`TextsOK`: a string is as it
was read, or can be read) and because Renamer looks at every name that is used
(`NamingRead`). A later stage may name what Renamer has seen to: `Keeps`
says that it puts in a readable text, `Giving` what such texts are, and there is a lemma for
each group of actions (`PacketGives`, `DispatchGives`, `TribulleGives`, `MatchGives`,
`MainGives`). A packet is named by a number that its code compares with; that it is a
number follows from where the walk was led: the methods and classes that the walk
stands in exist (`ScanOK`). The proxy gives multinames other strings, those of the
names it has pushed (`TextsOK` again). `Typing` is the type invariant of Stages from the
same invariants; `EndsOK` adds which stage ends with which exit code.

**MatchProofs.** `Described`. A matcher takes exactly the traits of which what the
definition says is true (`MatchersAgree`). Any assignment of traits to matchers can then be
changed, one matcher at a time, into the one that the greedy matchers make (`Exchange`,
by induction): if the trait that matcher k picks is another one's in the assignment, that one
comes later, fits what k had, since what is narrower comes first, and takes it instead.
So the greedy matchers find an assignment if there is any. The exchange leaves no trait
out that was covered before, which is what a strict definition asks for
(`ClassesAgree`). `ResultsOK` says that each definition has its result once and in order.

Assumptions, all named in the modules. Of methods: they have at least one instruction
(`SizeAssumption`); the last instruction's jumps are valid
(`JumpTablesAssumption`: the code would dereference null otherwise, `detfm.cpp:158`);
exception tables name instructions (`ErrorTablesAssumption`); a method does not end in
`getlex` (`MethodsAssumption`). Of files: a pool is a record, what it holds are
sequences, characters have names of their own (`FilesAssumption` of Renaming),
multinames have a string (`MultinamesAssumption`), and one that exists
(`NamesAssumption`): the external parser hands on no other. Calls name a multiname of
the pool, whose string is one that Renamer looks at, or can be read since it
is the player's: the obfuscator can rename nothing that is not in the file
(`CodeAssumption`). Methods, classes and strings are referred to by indices that exist;
what `analyze()` found is a class of the file, and the message handler has the method
by which `match_packet_handler` recognises it (`PartsAssumption`; `Ready` of
AnalysisProofs proves this of the parts that `analyze()` leaves behind). The names that the user gives in
definitions can be read (`DefinitionsAssumption`). A definition's matchers come in a
sequence, a text that is asked for is one, and parameters are given by their types or by
their number, not both (`MatchersAssumption`). Of what UnscrambleMeaning
takes for granted: a method is a sequence of instructions, each of a known opcode with a
number of arguments, and no instruction has size 0 (`CodeAssumption` there); a static
class has a table of slots and one of methods (`ClassesAssumption`); the pools are
sequences (`PoolsAssumption`). Static methods push
what the width of their opcodes holds (`CodeAssumption` of Analysis). Traits
and initialisers are sequences, and slots of one class have different names
(`InitialisersAssumption`). Of texts: the
words the program gives and the numbers and codes it forms are readable
(`UnreadableAssumption`; `Renamer::invalid` looks for characters that none of these
has). The wrappers' names are not used by other classes in the methods checked.

**What is proved of termination.** `Progress` of UnscrambleProofs and of SimplifyProofs:
every step of the pass lowers a number, `ToGo`, which is N + 1 (4N + 1 with the steps of
`edit_ins`) at the start, for methods of any length. `FurtherOn` and `StepNearer` say
this of every step of `Next`, so none of them is idle. What remains of `Terminates`
is that there is always a step before the end, and that the thread takes it.

Only model-checked: liveness (`Terminates`, `Ends`), since the prover does not reason
about fairness or ENABLED; `MeaningKept` of the simplifier, `NamedAsDispatched` and
`IdsAsComputed`. The machines of these follow branches, both ways where a condition is
not known, and call other methods: they are recursive operators, which have no proof rule
here, and cannot be recursive functions of the place in the code, as `Run` of Avm2 is.
`MeaningKept` of the simplifier is moreover false without the conditions that the
grammar of `simplify` builds in.
`NamesReadable` speaks of files
that `main` does read: with a problem that stops it before, nothing has been named.

## Abstractions

- Opcodes are named; a jump's offsets are positions, 0 an offset at which nothing
  starts. `Instruction::size()` depends on the opcode only (`OpSize`).
- Doubles are fractions, so rounding and the sign of zero are out; infinities and
  NaN are in. Integer overflow is not reached by the runs' values.
- Strings are sequences of model strings.
- Logging is left out.
- A name is a pair of what comes up to its first underscore and what follows, a
  generated one of a format's text and a number. The formats are those of `Fmt`'s
  defaults. Names known from `packets/` and the metadata of buffers are left out.
- `rename()` of a class or trait, the library's, changes the string in place. The names
  of classes are distinct, as the AVM2 wants them.
- Handlers end in `returnvoid`; one number stands for the four bounds of a method body
  that a definition can give; sums in `eval_method` stay within 32 bits; packet codes
  of more than three bytes are left out.

## Plan

All of the plan is carried out, in this order: OpInfo, Rewrite, Unscramble, WorkerPool,
Simplify; Evaluate and Analysis; Pool, Renaming; PacketNames, Dispatch, Tribulle;
ClassMatch; Stages, which composes them; the proofs of each after its runs. What
would come next:

1. The files that `analysis` ends with as the files that `stages` starts with, and its
   `slots` and `values` as the `Slots` and `Consts` of Unscramble, instead of
   constants of the same form.
2. Slots of a kind that is not resolved (`detfm.cpp:212`) in the methods of
   `unscramble`, with a finding of its own.
3. `IdsAsComputed` as a theorem, then `NamedAsDispatched`: their machine would have to be
   a function of the number of its steps instead of a recursive operator; the walk over
   the dispatching code and the machine then meet the same comparisons, by induction
   on the steps, as in `Simulation`.

## Not modelled

- Formats and configuration, logging and utilities, the packet scripts and the build
  description keep no state that another part reads.
- Unpacking, parsing, compression and writing of SWF files are in external libraries,
  of which the models take over what the code relies on.
- Matchers for names, flags, instance traits and other operators than equality exist in
  `match/` but cannot be asked for in a definition; the debug option of a definition
  matches once more and changes nothing.
- A run of `main` that never ends, or ends for lack of memory.
