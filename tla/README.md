# A TLA+ model of go-peggy

go-peggy is a virtual machine for parsing expression grammars. A pattern is
compiled to bytecode (package `peggyvm`); the machine runs the bytecode on an
input, backtracking where the pattern has alternatives, and reports which parts
of the input were captured. Sets of bytes come from package `byteset`.

## 1. Inventory

| Part | Source | State | Operations | What is hard |
|---|---|---|---|---|
| bytecode machine | `execution.go`, `stack.go` | DP, XP, KS, CS, R | `Step` (25 opcodes), `fail`, `popCS`, `Run` | two stacks restored together; error returns and panics halfway through an instruction; KS shared with frames |
| instruction encoding | `opcode.go`, `op.go`, `data.go`, `util.go` | none | `OpMeta.Encode`, `Op.Decode` | lengths and signs of immediates, defaults, truncated bytecode |
| matching | `program.go`, `capture.go`, `result.go` | an Execution, pending starts | `Exec`, `Match` | pairing nested and repeated captures |
| disassembler | `program.go`, `label.go` | code address, labels needed, lines written | `Disassemble`, `FindLabel`, `writeOp` | two passes that must agree; errors of the writer |
| assembler | `assembler.go` | items with lengths and addresses, queue, who waits for whom | `EmitOp`, `EmitLabel`, `Fix`, `Finish` | lengths depend on distances and distances on lengths |
| union of matchers | `or.go`, `util.go` | goroutines, channels, merge buffer | `forEachUnion` | schedules, leaks, waiting for each other |
| ranges | `range.go` | list of ranges | `coalesceRanges`, `Match`, `ForEach` | ties in an unstable sort, the precondition of binary search, the largest byte |
| other matchers | `all.go`, `and.go`, `dense.go`, `exactly.go`, `none.go`, `not.go`, `sparse.go` | bit sets, expressions | `Match`, `ForEach`, `Optimize` | `Not(...).Optimize` writes to a shared value |

`Match` calls `Exec` and `Run`, which calls `Step` until the machine halts;
`Step` decodes one instruction with `Op.Decode` and asks matchers about bytes.
The disassembler uses the same decoder. The assembler uses `OpMeta.Encode`, and
what it produces is decoded by both.

## 2. Modules

- **Execution** models `Execution.Step`. One action per opcode is one whole call
  of `Step`, with each of its error returns and the panic of `addOffset` (after
  which the caller may recover and step again, on the half-updated machine).
  `ret` is what the call returned. Programs are decoded already: `P.Ops[xp]` is
  what `Op.Decode` finds at address `xp`, and `"BAD"` is any decoding error.
  uint64 arithmetic wraps at `MaxU64`.
- **Backtracking** is the abstract specification of the two stacks: what may be
  pushed, popped, refreshed, restored, recorded and discarded, and how the data
  pointer goes along. Execution implements it.
- **Bytecode** is the encoding at full width: a uint64 is the tuple of its eight
  bytes. `ImmDecode` or-s the bytes into the default, as the code does.
- **CaptureSlices** takes the steps of Execution and moves the Go slices of KS
  along with them: arrays, slices that share them, and `append`, which writes in
  place while there is room and else moves to a larger array. How much larger is the
  runtime's choice: the new array has room for one more element and for any number
  of `Spare` besides, at every move another one.
- **Match** composes Execution with Bytecode (`LoadBytes`) and adds `Run` and the
  loop of `Match` over the capture stack.
- **Samples** has the two sample programs of `peggyvm_test.go`, byte for byte, and
  the regular expressions that the test gives for them.
- **Disassembler** models both passes of `Disassemble` over real bytes. A line of
  the listing is a record; its layout is abstracted. Every flush may fail.
- **Assembler** models `EmitLabel` (with `GrabLabel`), `EmitOp`, `Fix` and
  `Finish`. One step of Fix is one `processItem`, one turn of the last-resort loop
  or one exit of a loop. An item is its position in `List`; the encoder is a
  parameter, of which only lengths matter. Panics leave the half-done state behind
  and the caller may go on. `saved` is a history variable: by how much an item was
  shortened when a jump over it might have been fixed already.
- **Assembly** puts the encoder of Bytecode and the type switch of `EmitOp` in the
  place of the parameters. An argument has its Go type and, if it is a number, as
  many bytes as that type; `converted` is the sign or zero extension to a uint64.
- **Matchers** has a heap of matchers of all nine kinds, which hold pointers to
  each other. Making one and calling `Optimize` are the actions; `Match`,
  `ForEach`, `asDense` and `Optimize` are recursive functions of the heap and a
  pointer, and `Optimize` returns the heap it leaves, since `Not(...).Optimize` writes to its
  receiver. `optimized` is a history variable: the receiver and the result of every
  call so far that returned another matcher than its receiver. `forEachUnion` and the binary search of ranges enter by what
  UnionForEach and Ranges show of them.
- **ForEach** is the contract in `interface.go`: f is called once for each byte of
  the set, in ascending order.
- **UnionForEach** models `forEachUnion`: goroutines, unbuffered channels (a send
  and its receive are one step) and the merging caller. The slice `data` is
  modelled by how often each byte is in it, since it is sorted before it is used;
  that no byte is in it twice is the work of `seen`, not of the model.
- **Ranges** models `coalesceRanges`, one turn of its loop per step, `ForEach` and
  `Match`. `sort.Sort` may leave ties in any order. `sort.Search` is modelled as
  the library's binary search.
- **MC*** modules give the small instances. Operators with a suffix
  (`resume_KeepsDP`, ...) are faulty variants of the definition that follows
  them; replacing it by the variant makes the property it was written for fail.

## 3. Runs

| Run | Checks | Shows |
|---|---|---|
| execution | TypeOK, DataPointersInBounds, CapturesInBounds, NoCapturesUnlessLive, SavedCapturesArePrefixes, CapturesNeverAhead, SlicesShowTheCaptures, ImplementsBacktracking, NoAlternativeSkipped | three families of programs: one of five opening instructions, then any two of 92 (all opcodes, indices in and out of range, offsets out of range on both sides), on four inputs; five instructions of choices, captures, calls, returns and failures; captures recorded before, in and after choices, in loops too, with arrays that fill up |
| execution_ret | RetReturnsFromCall, **violated** | RET rejects the frame that CALL pushed |
| disassembler | TypeOK, SweepInStep, AllOrNothingListing, LabelsResolve, Returns | immediates at the edges of the lengths 1, 2 and 4 (and 8-byte ones), cut short at every byte; jumps before, into, between and past instructions; bad bytecode; failing writers |
| disassembler_default | DecodeInvertsEncode, **violated** | ANYB 2 comes back as ANYB 3 |
| match | PanicsOnlyOnError, CapturesAreThePairs, CapturesCanBeSliced, SamplesMeanTheirRegex, ForwardTerminates, MatchReturns | the test suite's two sample programs, from their bytes, on all words of up to six letters over {a, b, n}; a choice, then any four instructions that record, nest and abandon captures; programs whose offsets are all forward |
| assembler | FixNeverGoofs, PanicsOnlyWithoutLabel, AddressesAreFinal, MissesOnlyBySaving, LabelsAscend, DecisionsAreFinal, FixEnds | all lists of up to five items, jumps to two labels in both directions; Finish called twice, with items in between, after a panic too |
| assembly_code | CodeDecodes | the real encoder: labels and numbers of all ten Go types as arguments; loops around the limit of a one-byte offset |
| assembly_loop | JumpsLand, **violated** | a jump fixed before a later one is shortened leads past its label |
| union_for_each | NoGoroutineLeak, ImplementsForEach, Terminates | up to three matchers over three bytes, every schedule |
| ranges | Coalesced, SameBytes, MatchIsMembership, ImplementsForEach | all lists of up to three ranges over six bytes, every order of ties |
| ranges_adjacent | AdjacentCoalesced, **violated** | adjacent ranges stay separate |
| matchers | TypeOK, MethodsAgree, OptimizeKeepsTheSet, OptimizeSettles, MatchersNeverChange | up to three matchers of any kind made from one another and the two singletons, optimized in any order |

### Bounds

`Families` pairs the programs of a run with the inputs they are given. `MaxCS` and
`MaxKS` bound the two stacks, which in the code are bounded by memory only: a push
beyond the bound is not taken, so an execution that loops and pushes stops there.
5 frames and 6 assignments are enough for a single pass through a program of the
first two families of the execution run (three instructions push at most three
frames and, as BCAP, FCAP, FCAP, five assignments; five without FCAP at most five of
each); in the third, only programs with three or more assignments by FCAP are cut
short, after their captures have outgrown an array of two cells, twice. `Spare` is
0 to 3 there, so that arrays are full at once, soon, or not within the bound; the
proof is for any set of natural numbers.
The programs of the match run reach
no bound, or its liveness properties would fail. `MaxU64` is 20 in the execution
run so that both ends of the address space are in reach of an offset. Six bytes let
the six ends of three ranges all differ, and include the largest byte; that the
coalescing is right for longer lists and all 256 bytes is proved.

The encoder of the assembler run takes 1, 2, 4 or 9 bytes for an offset, as the real
one does, but its limits are at 3, 7 and 11 instead of 127, 32767 and 2^31 - 1, so
that lists of five items (`MaxItems`) reach all of them.
`MaxCalls` is the number of calls of Finish. `MaxOffset` stands for the largest
int64; it is large enough for `MaxItems` of the longest instructions, as 2^63 is
for any list in memory. The loops of the `assembly_*` runs have up to 130 bytes of
filler in few items; there a TLC integer stands for an offset and `MaxOffset` is
encoded as the largest int64.

The matchers' bytes are four, in two words of two bits, so that a word has an edge
inside the range. `MaxObjects` bounds the matchers a program makes, `MaxHeap` what
Optimize may add, `MaxList` the arguments of And and Or. A call that needs more of
the heap than `MaxHeap` is not taken by TLC; the proofs are for every value of it.

Deadlock is not checked where the modelled function returns (`Disassemble`,
`Match`, `ForEach`), where the stack bounds stop a looping program, nor where the
bounds on items and calls of Finish are used up.

### Fairness

Weak fairness of the next step for the machine, `Match` and the disassembler:
their loops wait for nothing. For `forEachUnion`, weak fairness of the caller and
of the goroutines: the Go scheduler runs what can run. For the assembler, weak
fairness of Fix once it has been called; nobody has to call it.

## 4. Proofs

All theorems hold for every program, input, family of sets or list of ranges,
and any width of addresses and bytes that the constants' assumptions allow.

- **Execution_proofs**, about the machine: type correctness; data pointers, current
  and saved, stay within the input; so do captures, whose indices exist. A data
  pointer is only in bounds because the pointers saved in frames are, and
  `availableBytes` only means what it says because the data pointer is: the
  inductive invariant is the conjunction of all of them.
  Choice is ordered (`OrderedChoice`, for which the types are enough): no step drops
  a choice frame that it neither resumes nor has on top and gives up.
  Every step of the machine is a step of Backtracking or leaves its variables alone
  (`Refinement`), and the stack rules alone imply that saved captures form a chain of
  prefixes, that no capture is ahead of its data pointer, and that failed executions
  have no captures (`DisciplineInvariant`); so these three hold of the machine. The
  chain has to speak about every pair of choice frames, since any of them may be the
  next to be restored.
  Last, every slice of CaptureSlices, live or saved, always shows the captures that
  Execution says it has. The invariant adds that while the machine is live the saved
  slices are nested: a frame's slice is no longer than the live one and than the
  slices of the frames above it, so an append in place writes behind all of them.
  That is SavedCapturesArePrefixes at work.
  About Match: its result has its type, it panics only on an error of Run,
  captures can be sliced out of the input, and failures have none. The loop over
  the capture stack keeps the pairs so far sound, and a pending start is the
  position of a mark already seen, or 0, so no later end is before it. And the
  captures are the right ones (CapturesAreThePairs): after n marks a capture lists
  as many pairs as it has end marks among them, the k-th with the latest start since
  the end before, and its pending start is the one that the next end would take.
  That is an induction over the capture stack, mark by mark, in which the ends up to
  a mark are counted with the library's theorems on cardinality.
- **Samples_proofs**: SamplesMeanTheirRegex, for inputs of any length over all
  bytes. The instructions of both samples are decoded from their bytes, and each
  opcode they use gets a lemma about what its step does to the machine. The
  inductive invariant (`Sampled`) says where a sample is in the word: at each
  address it has (`Paths1`, `Paths2`), how far it has read, which frames are on the
  call stack, which marks on the capture stack, and what is known of the word so
  far; and, once it has halted (`Halted1`, `Halted2`), that it has succeeded exactly
  on the words of the expression, with the marks that such a word leaves. For
  `.*ana$` the loop has not passed the `ana` that ends the word, if there is one; for
  `^b(an)*a$` the letters read are those of b(an)*, and each round adds a pair of
  marks. What `Match`'s loop holds after any number of these marks is given outright
  (`HeldAt`), and shown to be the one solution of the loop's recursion (`LoopIs`).
- **Ranges_proofs**: for lists of any length, merging yields nonempty, disjoint,
  sorted ranges that cover exactly the bytes given; the binary search then finds a
  byte exactly if some range holds it (each turn keeps the answer between its two
  bounds and brings them closer, so as many turns as there are ranges are enough);
  and enumerating the ranges implements ForEach.
- **Bytecode_proofs**: `DecodeEncoded` says that `Op.Decode`, at any address of any
  bytecode where `OpMeta.Encode` has put an instruction, returns that instruction and
  its length, or an unexpected EOF if the bytecode ends within it, for all opcodes
  and all 64-bit immediates. An immediate comes back as the or of its value and the
  default of its slot, which is the value itself where `Survives` holds. The header's
  fields are read back from one byte or two; the length bits give back the lengths of
  the immediates, since those are 0, 1, 2, 4 or 8; and the bytes that were left out
  are those that the sign extension puts back. `DecodeType` says that whatever the
  bytes, what `Op.Decode` accepts is an instruction of the table, at least one byte
  long and within the bytecode, and that EOF is its answer at the end and only there.
- **Disassembler_proofs**: TypeOK, AllOrNothingListing, SweepInStep and LabelsResolve,
  for all programs. AllOrNothingListing needs to know that the second pass only comes
  to addresses that the first has been to and found in order: the invariant has a set
  of addresses, closed under stepping, whose instructions all decode and stay in the
  address space. SweepInStep follows from `DecodeEncoded` once it is known that a pass
  stands at a start of an instruction. LabelsResolve goes through an invariant about
  both passes: the first has noted the targets of every instruction it has passed;
  the second has written one line for each instruction it has passed, in order, which
  says the labels of its targets and has its own label above it if one is needed.
- **Assembler_proofs**: type correctness, FixNeverGoofs, PanicsOnlyWithoutLabel,
  AddressesAreFinal, MissesOnlyBySaving, LabelsAscend and DecisionsAreFinal, for lists of any
  length, any number of calls of Finish and any encoder with `EncoderGrows`: an
  encoding has at most 26 bytes, is longest for the largest offset, and gets no
  shorter when the offset moves away from 0. The invariant bounds the length of each
  jump from below by what its present distance needs (lengths only shrink, so
  distances do, so the bounds stay true), says of each fixed jump by how much its
  offset may exceed its distance, and, for the last assertion, that a round of the
  placing loop that has made no progress yet still has the first unplaced item in
  its queue. LabelsAscend follows by induction over the list: the labels
  of the first items ascend, since the addresses of all items do, and the last
  address is at most the length of the code.
  With the encoder of Assembly: it has `EncoderGrows`, for all opcodes,
  arguments and 64-bit offsets (`EncoderTheorem`), so all theorems about the assembler
  hold with it (`AssemblyTheorem`). And decoding the code that Finish returns at the
  address of an op gives back the instruction that was emitted (CodeDecodes): by
  AddressesAreFinal the bytes of an op begin in the code where its address says, and
  the rest is `DecodeEncoded` and, for what a number is extended to, `ConvertedIs`.
  `RealEncoder` is the one hypothesis: the parameters of
  Assembler are those of Assembly, the numbers in the arguments have the bytes of their types,
  and the offsets 64 bits. TLC evaluates `EncoderGrows` for the narrow encoder on all offsets
  and for the real one at the edges of its lengths.
- **Matchers_proofs** and **MatchersOptimize_proofs**: TypeOK, MethodsAgree,
  OptimizeKeepsTheSet, OptimizeSettles and MatchersNeverChange, for any number of
  matchers of any depth and dense sets of any size. That a recursion ends is the
  first thing to show, since `Not(...).Optimize` writes to a matcher that others may
  hold: the invariant (`Sound`) is that the heap has a rank, by which every matcher
  is above those it points to. A recursive function that only calls itself at lower
  ranks is what its body says, by induction over the rank (`Descends`). From that, Match
  is membership in the set that a matcher stands for, and ForEach lists that set in
  ascending order. Optimize (`Better`) grows the heap, keeps the rank and the set of
  every matcher, and returns one that has the receiver's set, a rank no higher, and
  nothing left to optimize, except perhaps a dense set, which the second call turns
  into its final form (`Settled`). OptimizeKeepsTheSet is about all calls so far:
  that no later call comes between a receiver and its result rests on Optimize
  keeping the set of every matcher, not of its receiver only. The assumptions are that a dense set has at least
  one word of at least one bit, and that what matchers are made of are bytes and
  lists of ranges as Ranges_proofs shows them to be.
  Matchers_proofs is also about `forEachUnion`: for any number of matchers and any
  schedule it implements ForEach and leaves no goroutine behind. The invariant
  says where each byte of each set is (still to be sent, buffered or passed to f),
  that none is buffered twice, and that what has been passed to f is below all that
  is yet to come.

Induction over the naturals, where it is needed, goes through the least element of
the set of counterexamples (from the library's well-foundedness of `<`). What is
needed of sequences (length, concatenation, subsequence, equality) is proved at the
start of Bytecode_proofs from the prover's own rules.

The types of Match, Assembler, UnionForEach and Ranges, and that the Result of a
failed match has no captures, are proved and not checked once more by TLC.

Every safety property that a run checks is proved. Only model-checked: liveness
(ForwardTerminates, MatchReturns, Returns, Terminates, FixEnds), which is out of the
prover's reach. The four disagreements of section 5 are counterexamples, found by TLC.

## 5. Disagreements between code and documentation

1. `RET` (`execution.go:241`) reports an error for a call frame and returns to a
   choice frame; the comments and `doc.go:273` say the opposite.
2. `ImmMeta.Decode` (`opcode.go:142`) or-s an explicit immediate into the default.
3. `coalesceRanges` (`range.go:157`) does not merge adjacent ranges, though its
   comments say so. Matching is not affected (SameBytes, MatchIsMembership).
4. The last resort of `Fix` (`assembler.go:279`) may shorten an instruction after a
   jump over it has been fixed: in `A: CHOICE C; 124 bytes; COMMIT A; C:` CHOICE
   leads one byte past C. MissesOnlyBySaving says how far such a miss can go, and
   that there is none where the last resort shortens nothing. The same is true of a
   Finish that is called again after a panic for a missing label: what had been
   fixed by the last resort stays.

Observed, and in agreement with the comments: the result of Optimize can itself be
improved once more (`Not` of a dense set that lacks one byte gives a dense set of one
byte), and not a third time (OptimizeSettles).

## 6. Not modelled

- `String` methods, texts of errors, `hexDump`, the layout of listings: formatting.
- The `Declare...` methods of the assembler and the tables that Finish hands to the
  program: lists that are appended to and not looked at. Execution and Disassembler
  take the tables as given.
- `Match` in one goroutine while another calls Optimize on the same `Not`: a data
  race about which the package says nothing. A call is one step of Matchers.
- A callback of ForEach that panics: forEachUnion then leaves its goroutines blocked.
- `doc.go` and the tests have no behaviour of their own; the semantics in `doc.go`
  are quoted in section 5 and the tests' sample programs are run in `match`.

What could come next: the program that Finish returns shown to be one that the
Disassembler's theorems speak of, and its listing assembled again.
