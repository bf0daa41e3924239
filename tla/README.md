# A verification project for jvm.c

jvm.c is the beginning of a Java virtual machine in C: a class file loader over
an abstract stream, two streams, and the run-time stacks an interpreter will
drive. There is no interpreter and no `main` yet. The modules here describe that
code as it is, state what it has to do, and check and prove it.

1. [The system](#1-the-system)
2. [The modules](#2-the-modules)
3. [The runs](#3-the-runs)
4. [The proofs](#4-the-proofs)
5. [What was found](#5-what-was-found)
6. [What is not modelled](#6-what-is-not-modelled)
7. [The plan](#7-the-plan)

To check: `tlc -config <name>.cfg <module>` for the runs of section 3,
`tlapm <module>_proof.tla` for the proofs. Source files are named relative to
the repository's `src` directory, and by their base name once they are known.

## 1. The system

| component | source | state | operations |
|---|---|---|---|
| frame stack | `runtime/thread.c` | per thread: `maxSize`, `size`, `_top`; per frame: `lower` | `Thread_New`, `Thread_PushFrame`, `Thread_PopFrame`, `Thread_CurrentFrame` |
| operand stack | `runtime/frame.c` | per frame: `maxSize`, `size`, `data`, an array of unions of a number and a pointer | `Frame_New`, push and pop of int, float, long, double, reference |
| class file loader | `classfile/classfile.c`, `classfile/op.c` | the C stack, the constant pool and its count, the class under construction | `LoadClassFile` and 44 parsers it calls |
| stream interface | `include/stream.h` | a table of eight function pointers | `ReadUint8` .. `ReadUint64`, `ReadBytes`, `Position`, `Skip`, `Reset` |
| file reader | `stream/filereader.c` | a `FILE*`, NULL once it is closed, and the C library's file position | `FileReader_New`, `FileReader_Distroy`, and the interface |
| bytecode reader | `stream/bytecode.c` | an array of code, `code_len`, `pc` | `BytecodeReader_New` and the interface |
| utilities | `utils.c` | none | casts between numbers and their bits, comparison of names, logging |
| instructions | `runtime/instruction.c` | none | an interface nothing implements |

How they interact:

* The loader calls a stream through the function pointers of `StreamReaderOp`
  and sees the `int` they return and what they wrote through a pointer. Whoever
  made the stream keeps it, and can use it before and after a load.
* The parsers call each other, recursively for element values (`[` and `@`) and
  for attributes (`Code` contains attributes). A NULL result is how a failure
  travels back to `LoadClassFile`.
* The loader writes the constant pool first and reads it afterwards, to find out
  which parser an attribute needs; it compares names with `utf8ascii_equals`.
* An interpreter, which does not exist, would push and pop frames on the stack
  of a thread, and values on the operand stack of the current frame. It owns the
  frames it popped and may push them again. Memory is garbage collected and
  nothing is freed.

Nothing in the repository starts a thread or takes a lock, so the two threads of
the frame stack's run are two `Thread` objects whose calls come in any order.

What is hard here, and what would make each part correct:

* **Frame stack.** The list and the counter are kept apart from each other;
  a frame's one `lower` field survives its pop. The list must be the history of
  calls, pushed frames must keep their links, and a refusal must mean what it says.
* **Operand stack.** Slots carry no types; a long takes two of them, a pointer
  shares a slot with a number. What is pushed must come back, in order, from
  slots used before, and a popped pointer must not stay behind.
* **Loader.** Failures come from any depth, and a forgotten check returns a class
  half read. The pool's index is advanced in two places. Names are looked up
  without a look at what they are. The recursion must end.
* **Attribute parsers.** The length of an attribute is never compared with what
  was read, so each parser has to consume exactly its attribute.
* **Streams.** A read that fails may have taken bytes; which of the functions is
  in a slot, and in which unit its result counts, shows only in what comes back.
  What is reported as read must be the next bytes; a closed file must not be
  used; a stream must read what it was made for.
* **Names.** A name of the class file is modified UTF-8 of any bytes, the
  literals are ASCII: lengths are compared in characters on one side and bytes
  on the other. Equal must mean the same bytes.
* **Loader over streams.** Each side has a convention for the sign of a result,
  and each looks right alone.

The source does not compile as it stands. Where a spelling prevents that, the
models take the one reading it can have: `maxsize` for `maxSize` and
`stack._top` for `stack->_top` in `thread.c`; the second `OperandStack_PopLong`
of `frame.c`, which returns a double, as the pop of a double; `int32_t(value)` as
a cast; in `filereader.c` `File` for `FILE`, `uint18_t` for a type of one byte
as in its neighbours, `pty` for `ptr`, an undeclared `fp` as a local variable and
calls of `slog` that lack their semicolon; in `utils.c` `uint8_t[] utf8` as a
pointer. Nothing else is corrected: the models do what the code does.

## 2. The modules

| module | what it is |
|---|---|
| `CallStack` | abstract: each thread owns a bounded last-in-first-out sequence of frames |
| `FrameStack`, `_proof` | `thread.c`, with the frame's `lower` field: the linked list and its counter |
| `OperandValues` | abstract: a bounded last-in-first-out sequence of typed values |
| `OperandStack`, `MC`, `_proof` | `frame.c`: an array of untyped slots |
| `StreamReaderOp` | `stream.h`: the slots, and what a call gives its caller |
| `ByteStream` | abstract: what a user of a stream may rely on, a sequence of bytes and an offset |
| `FileStream`, `MC`, `_proof` | `filereader.c` |
| `BytecodeStream`, `MC`, `_proof` | `bytecode.c` |
| `NameEquality` | the comparison of names in `utils.c` |
| `ClassFileScript` | the 44 parsers and `LoadClassFile` as scripts of reads, tests and calls |
| `ClassFileLoader`, `MC`, `_proof` | the machine that runs the scripts over a stream; files for TLC; theorems about the conventions of results and the depth of the recursion |
| `ClassFileCalls_proof` | theorems about the comparison of names, the C stack, the pool and the names of attributes |
| `AttributeSync`, `MC`, `_proof` | the same machine, started at one thing laid out as `classfile.h` says |
| `LoaderOverStreams`, `MC`, `_proof` | `ClassFileLoader` composed with `FileStream` and `BytecodeStream` |

**FrameStack.** One action per call of `Thread_New`, `Thread_PushFrame` (refused
and not), `Thread_PopFrame` (refused and not), `Thread_CurrentFrame`, and
`Frame_New`. `maxSize`, `size`, `top` and `lower` are the fields of the C
structs; `size` is kept modulo `Word`, as an `unsigned int` is modulo 2^32.
`status` is the `int` of the last push: after a push that succeeded
`Stack_Push` ends without a return, so it is any value. `owner` says who holds
a frame and `calls` is the history the list is compared with. `calls` is a
history variable: no action's choice depends on it. The guard `Pushable` is the
interpreter's side. `Reuse` sets how it treats frames it popped: it never pushes
them again, pushes them only on top of another frame, or pushes them at any time.

**OperandStack.** One action per function; the int and float functions share
one, as do the long and double ones, since a float is a cast of bits. A slot is
a pair of words, because a pointer is twice as wide as an `int32_t` and writing
the number of a slot leaves the rest of it. The popped pointer is an `int32_t`,
the low word taken for a signed number (`Signed`). The user is verified bytecode: it
asks for the kind that is on top. `values` and `used` are history variables; the
guard of a pop reads `values` because that is what the verifier guarantees.

**ClassFileScript and ClassFileLoader.** Every parser is a sequence of the same
few things: read a value and store it, read and compare it, read a count and
loop, read a tag and choose, call another parser. A script lists them in the
order of the code, and the loader's actions are the kinds of steps. A frame of
`stack` is a C call with what is left of its script. A loop is unrolled when its
count is read. `phase = "null"` is a function returning NULL: its caller
compares the result and returns NULL too (`ReturnNull`), or has written through
it already (`Dereferencing`). `FallingOff` names the functions without a return
statement at their end: what the caller gets is NULL or not. The stream is the
environment: `Held` says what it may hold, `OkReturns` and `EofReturns` which
numbers it returns. `left` counts bytes, so a stream ends anywhere, and a read
may fail before that too, with some of its bytes gone. `Unwritten` is what a
variable holds when a read did not write it. The width of a read is that of its
C type, for `ReadUint32` four bytes, as `stream.h` declares it. The texts of the
pool and the names they are compared with have spellings, sequences of bytes, and
the attribute's parser is the one whose name `utf8ascii_equals` accepts.

**AttributeSync.** The initial state is the loader in front of an attribute, a
pool entry, a field, a method or a whole class, each table with `n` elements. The
size it must consume is the sum over the members of its struct in `classfile.h`:
one definition per struct, with the struct's name. The bytes behind it show
whether the parser stopped at its end.

**StreamReaderOp, ByteStream, FileStream, BytecodeStream.** A number is kept as
its bytes, so that what was read can be compared with what is there. A call
leaves an answer, the `int` and the bytes written, and `Reported` is what a user
makes of it by the convention the readers share (EOF is a failure). `ByteStream`
promises the next bytes, all of them, for a read reported as successful; one that
fails may lose some. `FileStream` has one action per function of `filereader.c`;
the slots of `newFileStreamReaderOp` decide which function a call reaches. `fread`
takes up to size times count bytes and answers in items, and the code compares
that with bytes. What a function of the C library does with NULL, or `ftell` with
something that is no `FILE`, is undefined, and may end the program (`running`).
`BytecodeStream` has the array as a part of the memory, since `code[code_len++]`
starts behind the code; `touched` remembers what was read. `BytecodeReader_New`
takes any `pc`; the model opens with one from 0 to the size of the code, which is
its callers' part, and `CodeTypeOK` rests on it. Both constructors end
without `return stream`, so the user may be left without one.

**LoaderOverStreams.** `ClassFileLoader` is instantiated with `left` as the bytes
the reader in use has left, and one step of the loader is one call of the
reader's function and the loader's reaction to the `int` it returned. A user opens,
closes and uses the stream, and calls `LoadClassFile` wherever it stands.

Every module with runs also has definitions whose name has a suffix
(`Thread_PushFrame_NoLink`): faulty variants of the definition they are named
after. They belong to no specification. Put in its place, each makes TLC report
the property it is meant for, which shows that the property can fail.

## 3. The runs

| run (`.cfg`) | module | result | what it shows |
|---|---|---|---|
| `FrameStackFresh` | `FrameStack` | holds | the list and counter are the history of calls; `CallStack` is implemented; links of stacked frames are frozen |
| `FrameStackReuse` | `FrameStack` | violated | a frame pushed again on an empty stack brings its old list along |
| `OperandStackTyped` | `OperandStackMC` | holds | `OperandValues` is implemented; no pointer is left above the top |
| `OperandStackHighRef` | `OperandStackMC` | violated | a pointer that does not fit an `int32_t` does not come back |
| `LoaderContract` | `ClassFileLoaderMC` | holds | with a stream as the loader expects it: seven invariants, and the loader returns |
| `LoaderOutcome` | `ClassFileLoaderMC` | violated | a stream that ends in a method reference crashes the loader, as does an index that is not that of a name, and a correct file may be refused; with `Files` one of `MethodFiles`, `NameFiles` and `EmptyClasses`, TLC shows each |
| `AttributeSyncFields` | `AttributeSyncMC` | holds | 19 of the 23 attribute parsers, those of pool entries, fields, methods and the class consume exactly their struct |
| `AttributeSyncOut` | `AttributeSyncMC` | violated | the three debug tables lose their last element, `StackMapTable` is skipped two bytes too far; with `Kinds` one of the four names, TLC shows each |
| `LoaderOverStreams` | `LoaderOverStreamsMC` | holds | the streams keep their invariants under a user and the loader, the file reader is a `ByteStream`, each load ends, and none with a class |
| `LoaderWholeClass` | `LoaderOverStreamsMC` | violated | a whole class file read with the file reader is reported as an error |
| `BytecodeReads` | `BytecodeStreamMC` | violated | a bytecode reader is no stream of its code |
| `FileAnswers` | `FileStreamMC` | violated | calls of the file reader do not do what its messages say; with `Calls` one of the calls, TLC shows each |

### The properties

* `ListIsCallHistory`: of every thread, `size` is the number of frames pushed and
  not popped and within `maxSize`, `_top` is the newest, each `lower` leads to
  the frame that was current before, the last to NULL.
* `FreshFramesEndAList`: a frame that was never pushed has no `lower`; this is
  what lets `Stack_Push` leave the field alone on an empty stack.
* `StackedLinksFrozen`: no step rewrites `lower` of a frame that stays stacked.
* `ImplementsCallStack`, `ImplementsOperandValues`: the refinements. They cover
  the answer of each call, refusals included.
* `NoStaleRef`: no slot above the top holds a pointer.
* `LoadedMeansAllRead`: a class is returned only if no read failed.
* `MembersSeeWholePool`: whenever members or attributes are parsed, each element
  of the pool was parsed, except the one after each Long and Double, and no
  other is missing.
* `EntriesHaveTheirElement`: each pool entry is written to an element that the
  array has and that no entry was written to, also after a Long or a Double.
* `DepthPaidByBytes`: the C stack is never deeper than the bytes read allow,
  three for each call below `LoadClassFile`.
* `CrashHasAReason`: a crash is either in the parser of a method reference, after
  a failed read, or at the lookup of an attribute's name in a pool entry that is
  not a `Utf8_info`. No other function uses a NULL that a parser returned. The two
  places are findings of section 5.
* `ParsedByItsName`: an attribute is parsed by the parser its name asks for: the
  name as a whole, not a part of it, nor another of as many characters.
* `Terminates`: the loader returns (or crashes), whatever the stream holds.
* `InSync`: a parser that accepts what it parses has read it to its end.
* `FileTypeOK`, `CodeTypeOK`: the file position is never negative; `code_len`
  stays in memory and `pc` in the code.
* `NoDanglingHandle`: no `FILE` is used after `fclose`, however often and in
  whatever order the stream is closed, opened and called.
* `ImplementsByteStream`: what the file reader reports as read are the next bytes
  of the file, as many as were asked for, with none lost between two reads that
  succeed, through opens, closes and seeks.
* `CodeIsNeverRead`: no call of a bytecode reader looks at a byte of its code.
* `NothingLoads`, `LoadEnds`: over these streams `LoadClassFile` never returns a
  class, and always comes back, also from a stream that is closed, at its end or
  behind it, unless a read ended the program.
* `OutcomeTellsTheFile`: `LoadClassFile` answers NULL with a message for a stream
  that ends too early or holds a wrong value, and for no other, and never crashes.
* `AnswersAreRight`: a read of the file reader reports an error only at the end of
  the file, a closed stream answers all calls, `Position` is the file position, and
  a file is open only for a caller who has the stream.
* The code violates the last two, and `OverflowReportedOnlyWhenFull`,
  `WholeClassLoads` and `ReadsItsCode`: section 5.

A `ByteStream` may fail whenever it likes, and lose bytes when it does. So
`ImplementsByteStream` and `NoDanglingHandle` hold in spite of all that is wrong
with the file reader's reads, seeks, position and constructor: only reads of at
most one byte ever succeed. What they do not say is in `AnswersAreRight` and
`WholeClassLoads`. `CodeIsNeverRead` and `NothingLoads` state defects as they are:
what a repair has to break.

### Bounds, and why they are enough

* Frame stack: two threads, four frames, sizes 0, 1, 3, a counter modulo 8. Two
  threads show sharing between lists; three frames deep there is a bottom, a
  middle and a top; the fourth is refused. Modulo 8 a counter that wraps is far
  above every size. The proofs need none of these bounds.
* Operand stack: sizes 0, 1, 2, 5 and words of three bits. With five slots values
  of one and two slots lie in each order at even and odd places, and the last
  slot alone is left over. The four long values tell the two words apart. The
  pointers have the sign bit of a word clear, but for the run with one of more bits.
* Loader: four kinds of streams, each exploring one part (`ClassFileLoaderMC`):
  pools of every entry kind, pools of up to four elements where two-element
  entries meet, members and attributes with good and bad names, nested
  annotations and `Code`. Each is just long enough to reach its part and ends
  anywhere, because a read may fail at any place. Counts are 0, 1 or 2. What a
  parser does with the next element does not depend on how many came before.
  A name is spelled with two bytes; beside the names there is a first part of
  one, one with a byte that continues a character, and one that goes on after a
  NUL.
* Layouts: tables of 0 to 3 elements, every target, element values of the kinds
  const, enum and class, twelve bytes behind (more than an element). Nested kinds
  (`@`, `[`) are left to `LoaderContract`, which has them but no sizes; the
  attributes of fields, methods, `Code` and the class are `Deprecated`. The bytes
  of `SourceDebugExtension` are two, because `classfile.c:843` refuses any other
  length. The proof needs no bound on the tables or the bytes behind; it is about
  the same layouts.
* Streams: files of up to six bytes and memories of up to seven, two `FILE`
  objects, offsets up to seven, blocks of 0, 1 and 2 bytes, seeks of -1 and 2
  bytes. So a file ends before, within and after a read of one, two and four
  bytes; a seek is refused below the first byte and above the last offset; and
  there is an old handle beside the one in use. Bytes are 0 or 1, which is enough
  to tell an order from another. Every read may stop early.
* `LoaderWholeClass` has one file, the smallest class there is (38 bytes), and
  reads that stop at its end only: nothing but the code can be the reason. For the
  same reason `FileStreamMC` has one file of eight bytes, as long as the longest
  read, and one `FILE`.

### Fairness

The loader is a sequential function that waits for nothing, so if it can take a
step it does: weak fairness of `Next` in `ClassFileLoader`, and of `LoaderStep`
in `LoaderOverStreams`. `Terminates` and `LoadEnds` need no more. Nobody has to
call a stack, a stream or the loader, so there is no fairness for calls.
`CHECK_DEADLOCK FALSE` is set for the runs of the loader alone, which stops when
`LoadClassFile` has returned, and for the runs of one stream alone
(`BytecodeReads`, `FileAnswers`), where a call may
end the program. `LoaderOverStreams` has a step (`Ended`) for that state.

## 4. The proofs

`FrameStack_proof`, for all sets of threads and frames, all stack sizes and
every modulus:

| theorem | statement |
|---|---|
| `InductiveInvariant` | `Spec => []IInv`, assuming `Disciplined` |
| `TypeCorrect`, `ListIsHistory`, `FreshFramesAreBottoms` | the three invariants of the run, from it |
| `LinksFrozen` | `Spec => StackedLinksFrozen`, with no assumption |
| `Refinement` | `Spec => ImplementsCallStack`, assuming `Disciplined` |

`IInv` is the conjunction of the three invariants of the run and of
`FramesOnOneStack`, the caller's part: a frame is pushed on one stack at a time,
which `Pushable` grants. None of them is inductive alone. That a push leaves the
list right needs `FramesOnOneStack` (or the new link would cut another list) and,
on an empty stack, that the frame's `lower` is NULL, which is
`FreshFramesEndAList`. That a pop does needs the list. That the counter does not
wrap needs it too, and `SizesAssumption` (a size is an `unsigned int`). There is
one lemma for each action, and under it one step for each conjunct. `Disciplined`
says that a popped frame is not pushed on an empty stack. It is not idle: the run
`FrameStackReuse` is the counterexample without it. Linkedness is never followed
as a recursion over `lower`; the history gives the list its positions and every
fact is about one link.

`OperandStack_proof`, for all stack sizes below `Uint - 1`, all values and all
widths of a word:

| theorem | statement |
|---|---|
| `InductiveInvariant`, `TypeCorrect` | `Spec => []IInv`, `Spec => []TypeOK`, with no assumption |
| `Refinement` | `Spec => ImplementsOperandValues`, assuming `RefsFit` |
| `NoPointerLeft` | `Spec => []NoStaleRef`, assuming `NumbersAreNoRefs` |

Here `IInv` says where each value lies: there is an assignment of slots to the
values (`Placed`) in which they follow each other without gap or overlap and the
last one ends at the top, and the slots from each value's place on hold its low
and high words (`Stored`). The assignment is existentially quantified, which
spares a recursive sum of sizes: a push extends it by one place, a pop cuts the
last. With `used = size` the tests of `frame.c` become those of `OperandValues`;
`SizesAssumption` is what keeps `size + 1` from wrapping. `RefsFit` (pointers that
are a word with a clear sign bit) is needed for the answer of `OperandStack_PopRef`
only, and the run `OperandStackHighRef` is the counterexample without it.

For `NoPointerLeft` the same assignment says who owns a slot (`RefsOwned`): one
that is not clean, that is, whose upper word is not zero or whose lower word is
no number's, is the place of a reference on the stack. Above the top there are
no places, so slots are clean there, which is also why a number, which is
written into the lower word only, never completes the rest of a pointer.
`NumbersAreNoRefs` (no word of a number is a pointer but NULL) only makes the
statement mean something: without it the bits of a number may be a pointer's.

`ClassFileCalls_proof`, for every stream content and, but for the fourth, every
convention:

| theorem | statement |
|---|---|
| `CallsInductive`, `TypeCorrect` | `Spec => []Calls`, `Spec => []TypeOK` |
| `PoolIsWhole` | `Spec => []MembersSeeWholePool` |
| `EntriesFit` | `Spec => []EntriesHaveTheirElement` |
| `CrashesHaveReasons` | `Spec => []CrashHasAReason`, if a successful read returns a negative number |
| `NamesInductive`, `AttributesByName` | `Spec => []ParsedByItsName`, if names and texts are sequences of bytes |

None of these is inductive: what the running function does next is in its script,
and what its caller does then in the caller's. So the invariant says what each
call on the C stack has left to do. `Calls` has four stages: before the pool
(`Begins`), in it (`InPool`), after it (`InMembers`), and at the end (`Over`).
In the first the one call is `LoadClassFile` with one of four rests of its
script. In the second three kinds of calls lie on each other, `LoadClassFile`,
the loop of `parseConstantPool` and at most two parsers of an entry
(`PoolStack`), and the elements up to the loop's index are done (`PoolUpTo`): an
element is missing exactly if it is the second one of a Long or a Double. The
loop ends at the count, so the third stage begins with `WholePool`, and there
nothing writes the pool: what is left to do in all calls is of the instructions
of members and attributes (`Code`, closed under two levels of loops, which is
as deep as they nest). A store is an instruction of the pool's
loop only, which is at the first element that is not done (`StoresAreNext`); that
is `EntriesFit`. The crashes of the second stage come from a NULL that a
parser of an entry returned, which needs a failed read if success is what the
tests take it for, and only the two parsers that wrap the one of a field reference
do not compare it. For the names, `NamesFollowed` keeps for every
`parseAttributes` on the stack the parser that was called for the entry it looked
up. A step replaces, adds or takes one call at the end, and those below keep
their function and what they keep (`StepKeepsCalls`); `EqualsIsEquality` closes
the argument.

One theorem of the module is about names alone, for all strings:

| theorem | statement |
|---|---|
| `EqualsIsEquality` | of strings without a NUL, `utf8ascii_equals` accepts an ASCII literal exactly for itself |

The comparison of lengths, characters with bytes, comes first and could refuse
what is equal: a literal has no byte that continues a character, so equal strings
have equal lengths in both countings.

The module ends its part on stacks with the shapes of a step
(`InstructionShapes`, `ReturnShapes`): the running call goes on with other code
(`Went`), a call is added (`Entered`), the last one is taken away (`Returned`), or
the program stops. The two modules that follow are about what is left to do on the
stack, and see the loader's actions only through these.

`ClassFileLoader_proof`, for every stream content:

| theorem | statement |
|---|---|
| `LoadedIsComplete` | `Spec => []LoadedMeansAllRead`, if a failed read never returns a negative number |
| `DepthIsPaid` | `Spec => []DepthPaidByBytes`, under the same assumption |
| `NothingIsLoaded` | `Spec => []NothingLoads`, if a successful read never returns a negative number |

The two assumptions are the two conventions. The first proof strengthens the
invariant to the parsing phase: as long as no NULL travels, no read has failed.
The last follows the loader to its first read: there it holds the first call
with its whole script, since a read that succeeded is refused, and one that
failed leaves the magic unwritten, which the test of the value refuses.

For `DepthIsPaid` bytes are money. A call costs three of the bytes read before
it, so that call k of the stack has what was read less 3 (k - 1) to spend
(`Credit`). `CallsPaid` says that each call can afford all its script has left to
do: an instruction that only reads, and a loop of those, is free; one that calls
costs three and the `Fare` of the function, which is what that function needs
before its own reads have brought it. What stands first in a script is read before
the rest, so it counts as money of the rest (`Window`). The invariant speaks of
all calls, not of the running one alone, because a return brings back the one below
it. That one can still afford its rest: what is read stays read, so its `Credit`
never shrinks, and the three bytes a call costs are its own again afterwards. A
call is affordable where it stands because of what `classfile.c` reads there: two
bytes of a `name_index` and four of a length before an attribute's contents, a
tag before an element value, a count and a type before the values of an
annotation. The assumption is needed: a failed read that counts as a success
brings nothing, and then arrays nest without end at the end of the file.

`AttributeSync_proof`, for tables of any length, every target, element values of
the kinds const, enum and class, and any number of bytes behind:

| theorem | statement |
|---|---|
| `AttributesInSync` | `SyncSpec => []InSync`, if a failed read never returns a negative number, names are sequences of bytes, and `Kinds` are among `ReadInFull` |

`ReadInFull` is what the run `AttributeSyncFields` has: all but the four names of
`AttributeSyncOut`, for which TLC refutes it. What a parser reads is a sum along its
script, through loops in loops and calls. Such a sum is not computed here, which
would be an induction over data. It is guessed: `Bills` pairs each instruction that
can occur with the bytes it leads to, as the layout has them, and code `Takes` m
bytes if there are numbers r, one for each place in it, that begin with m, end with
0 and differ by a bill at each instruction. One lemma for each function shows that
its script takes the size of its struct (`AttributesTake`, `EntriesTake`,
`FunctionsTake`, `ClassTakes`), another that n rounds of code take n times what one
takes (`TakesCopies`), others that what follows an accepted read takes the rest of
the bill (`ContinuesTakes`, `BegunTakes`). The pool's loop has a bill for each
index, which is true of the one count that the layout has, and enters the bills when
that count is read (`BillsGrow`). The invariant `SyncInv` is that the file and the
names in the pool stay as laid out and, while the parser is running, that the calls
of its stack together take just the bytes in front of the trailing ones (`Owed`).
The attributes inside others are Deprecated ones because no other name is equal to
theirs, by `EqualsIsEquality`; that is why the spellings must be sequences. When the
last call has returned, nothing is owed. TLC checked `SyncInv`, with numbers in
place of the quantifiers, on the 222 586 states of the run before it was proved.

`FileStream_proof` and `BytecodeStream_proof`, for any files, memories, handles,
sizes and seeks:

| theorem | statement |
|---|---|
| `FileInductive`, `FileTypeCorrect`, `ClosedIsForgotten` | `FileSpec => []FileTypeOK`, `FileSpec => []NoDanglingHandle` |
| `FileRefinement` | `FileSpec => ImplementsByteStream` |
| `CodeInductive`, `CodeTypeCorrect`, `CodeUnread` | `CodeSpec => []CodeTypeOK`, `CodeSpec => []CodeIsNeverRead` |

The refinement rests on one fact about `fread`, that of w bytes asked for as one
item the result is w only if w is 1 and the byte was there, or w is 0
(`ItemsAreNotBytes`): so a read that reports success has delivered the byte, and
all others are reads that fail with bytes lost, which a `ByteStream` may do. It is
a weak stream, but no user of it is told an untruth. `CodeUnread` needs
`code_len >= size`, which every step keeps, since `bytecode_reset` and the seeks
touch `pc` only.

`LoaderOverStreams_proof`, for any files, memories and meaning of their bytes:

| theorem | statement |
|---|---|
| `InductiveInvariant`, `NothingIsLoaded` | `Spec => []NothingLoads` |
| `StreamsAreUsedByTheirCalls` | `Spec => FileSpec /\ CodeSpec` |
| `StreamsUnderTheLoader` | the theorems of the streams hold in the composition |

The invariant is that of the loader's second theorem, whose assumption the
streams now fulfil: whenever it runs, it is in front of its first read. A step of
the composition is a step or a stutter of each stream, so all that is proved of a
stream alone is true under the loader and its user.

Every invariant of the runs that hold is proved, and every property of their steps,
the refinements included. Only model-checked: liveness (`Terminates`, `LoadEnds`),
which needs fairness. The theorems about the loader alone are about a stream of the
convention its tests expect, which the two of the repository are not; what is
proved of the loader over these is `NothingIsLoaded`.

## 5. What was found

Each is a run with one property, violated by the code as it is.

1. `classfile.c:69` and everywhere: `0<=reader->Read...` takes success for failure
   (`LoaderWholeClass`; `NothingIsLoaded` shows that nothing can be loaded from
   any file). The runs of the loader alone therefore assume a stream of the
   opposite convention. Behind this are two more: the slot of `ReadUint32` holds
   `filestream_readUint16` (`filereader.c:105`), and a read of more than one byte
   compares items with bytes and always fails (`:32`, `:47`, `:62`, `:77`), so
   that with the sign corrected the file would still not load. The same slot is
   wrong in `bytecode.c:65`. In the run's trace the first read fails for these
   reasons, its EOF passes for success, and the class is refused at `:73`, for a
   magic nothing wrote. `FileAnswers` shows the reads alone, with `Calls` set to
   `{"ReadUint16"}` or another read.
2. `bytecode.c:16`: the reads index and advance `code_len`, never `pc`
   (`BytecodeReads`; `CodeUnread` shows that the code is never read).
3. `classfile.c:616`, `:638`, `:1310`: no return statement (`LoaderOutcome`, with
   `EmptyClasses`).
4. `classfile.c:322`, `:328`: NULL is written through (`LoaderOutcome`).
5. `classfile.c:868`, `:895`, `:934`: loops from 1 (`AttributeSyncOut`).
6. `classfile.c:716`: two bytes too many are skipped (`AttributeSyncOut`).
7. `thread.c:43`: a stale `lower` (`FrameStackReuse`).
8. `frame.c:108`: a pointer cut to an `int32_t` (`OperandStackHighRef`).
9. `op.c:10`: an entry that is missing or no `Utf8_info` is looked up
   (`LoaderOutcome`, with `NameFiles`).
10. `filereader.c:94`, `:98`: no test for a closed file (`FileAnswers`, with
    `{"Skip"}` or `{"Reset"}`).
11. `filereader.c:90`: `ftell` of something that is no file (`FileAnswers`, with
    `{"Position"}`).
12. `filereader.c:126`: no return statement, and a file left open (`FileAnswers`).
    `bytecode.c:83` lacks it too.

## 6. What is not modelled

* `reader->Position` in the arguments of `error`: taken to change nothing, as it
  does for a bytecode reader. `filestream_position` hands `ftell` something that
  is no `FILE`, which may end the program; the user's own calls of it may, those
  in an error message may not.
* `utils.c` but for the names: the casts are the identity on bit patterns, and
  `error` only logs.
* What a read of more than one byte makes of its buffer
  (`buf[0]<<8 + buf[1]`, which shifts by a sum): any bytes. No call reaches it.
* The contents of parsed structs: nothing reads them after they are stored, but
  for the pool's tags and texts. So it does not show that the bytes of `Code`
  (`classfile.c:661`) and the interfaces (`:132`) are read and the array is
  never assigned, or that `classfile.c:726` stores the index of a name in a
  `uint8_t` (`classfile.h:99`).
* What `Stack_Push` returns: `status` is a variable, but `CallStack` is about the
  lists and what is reported; no caller reads it.
* `StackMapFrame`: declared as not implemented in `classfile.h`; it is bytes here.
* `localVars` of a frame and `pc` of a thread: allocated or cleared, then unused.
* A stream without a reader (`stream->reader` is NULL): `LoadClassFile`
  returns NULL before its first read. No writer exists.
* Allocation failure: `GC_malloc`'s result is checked nowhere.
* `instruction.c`, an interface that nothing implements or calls; the garbage
  collector and the logger, which are other repositories.

With this every function of the repository that keeps state or decides something
is in a module.

## 7. The plan

In order of importance, with what is done:

1. *(done)* `CallStack`, `FrameStack`: the stack every Java call goes through.
   Refinement checked and proved.
2. *(done)* `ClassFileScript`, `ClassFileLoader`, `AttributeSync`: the largest
   part of the code.
3. *(done)* `OperandValues`, `OperandStack`: refinement checked and proved.
4. *(done)* `StreamReaderOp`, `ByteStream`, `FileStream`: refinement checked and
   proved.
5. *(done)* `BytecodeStream`, against `ByteStream`.
6. *(done)* `LoaderOverStreams`: the loader composed with both streams.
7. *(done)* `NameEquality`, used by the loader.
8. *(done)* Proofs: the loader's types, `MembersSeeWholePool`, `CrashHasAReason`,
   `ParsedByItsName`; the operand stack's `NoStaleRef`; the streams' invariants and
   refinement, alone and under the loader.
9. *(done)* Proofs: `DepthPaidByBytes`, with what each pending call can spend of
   the bytes read; `InSync`, with what each pending call will take of those left;
   `EntriesFit`.
10. By how much the four attributes of `AttributeSyncOut` are out of step, as a
    theorem: the bills are those of `AttributeSync_proof`, less one round.
11. When the code gets an interpreter: its use of the two stacks in place of the
    environments of `FrameStack` and `OperandStack`, `Reuse` and the verified
    bytecode among them.
