# Nib: a TLA+ model of the toolchain

Nib is a small systems language for the NEC V20.  Its toolchain is a chain of
sequential C programs that talk through files:

    source.nib + deps.nif --nib--> .nir + .nif
    all .nir              --nibbind--> .asm
    .asm                  --nibasm--> binary
    nibbuild runs the three for a root module and everything it uses

Nothing here is concurrent.  What is hard is ordering and fixpoints: register
allocation that is retried with fewer registers, an assembler that repeats a
pass until lengths settle, clobber sets and parameter registers that must be
computed callees first, moves that stand for one parallel copy, code that is
inserted around calls and undone at every exit, interfaces written by one
function and read back by another, and a build driver that decides by file
times over many builds.  This directory models those algorithms, checks them
with TLC on small instances and proves the main properties of the allocator,
the two sorts, the clobber sets, placement, the assembler's passes, forced
builds and the code around calls, entries and exits with TLAPS, for every
instance.

## Inventory

| component | source | state | operations | what makes it correct |
|---|---|---|---|---|
| register model | `bind.c` 33-100, 5342-5389 | tables | aliasing, pools | pools respect encodings |
| CFG, liveness, interference | `bind.c` 2860-2997, 4510-4875 | blocks, live sets, ranges, graph | sweeps, block walks | exact liveness; every conflict is an edge |
| allocator and driver | `bind.c` 5391-6200, 11668-11763 | assigned, spill slots, stack, BP flag | pre-colour, simplify, select, retry, coalesce, compact | no shared storage; BP reserved when needed; termination |
| stack cache | `bind.c` 5540-6020, 6392-6530 | spans of cached vregs | plan, push at definition, pop at use | LIFO on every path; the use reads the value |
| planned moves | `bind.c` 7031-7431 | move list, registers, stack | emit, save, pop | parallel-copy semantics; nothing else changes |
| call lowering | `bind.c` 6494-6950, 7568-7936, 10323-10432 | saves, stack area, temp slot | save, push, move, call, capture, drop, restore, reload | results and live values survive, the callee finds its arguments |
| frames and exits | `bind.c` 7937-8160, 8466-8522, 8832-8923, 9963-10017 | frame, saved set, DS | prologue, entry moves, return moves, tail calls, epilogue | what was pushed comes off at every exit |
| call order and clobbers | `bind.c` 6687-6776, 7570-7604, 10894-11000, 11789-11838 | order, clobber sets | leaf, scan, rest, merge | callees first; live registers survive calls |
| preference propagation | `bind.c` 11016-11305 | wishes, parameter and result registers, stack offsets | extern, honour, follow moves, take free, tell callers, settle | parameters apart; wishes reach the callers |
| module placement and output | `bind.c` 11315-11534 | module walks, segment stacks, emit_seg | place, emit, use, unwind | both walks agree; used modules move nothing |
| assembler | `asm.c` | labels, position, org stack, relaxed lines, errors | lines, runs, passes | references hit their labels |
| build driver | `build.c`, file side of `compile.c` | module list, order, files | scan, sort, decide, compile, bind | binary made from current sources |
| compiler: bodies | `compile.c` 901-3230 | scopes, vregs, labels, loops, IR | one case of emit_stmt() per statement | IR means what the source means |
| compiler: declarations | `compile.c` 3231-4354 | tables, .nif, .nir | declare, write, import | every reader agrees on calls and layouts |
| DS policies, instruction text | `bind.c` 4877-5065, 8924-9577, 10018-10893 | | validate, print | |
| lexer, parser, AST, tables | `nib.l`, `nib.y`, `ast.c`, `table.h` | | | |
| disassembler, timing, reports | `dis*.cpp`, `v20_timing.c`, `bind.c` 2998-4509 | | | nothing decides by them |

The components of the binder share `func_t`: liveness fills the ranges and the
graph, the allocator reads them and fills `assigned`, the stack-cache plan reads
both, the fixup pass reads `assigned` and the other functions' clobber sets and
parameter registers.  `bind.c` output is `asm.c` input; `compile.c` output is
the input of itself, for the using modules, and of `bind.c`; the .nif times are
what `build.c` decides by.

The hazards are listed in PROJECT.json with the properties that cover them.

## Modules

Each `MCx` module defines the inputs TLC enumerates.  Definitions named
`X_suffix` are faulty variants of `X`, used to show that a property can fail; no
specification refers to them.

    Pregs <- Alloc                         one function's registers
    Pregs <- Moves <- CallSite <- Frame    calls, entries and exits
    Liveness, Pregs <- StackCache          analysis, allocation, run
    Clobbers, Pregs <- Prefer; Place       between functions, between modules
    Prefer, Place <- Program               main() of the binder
    Order                                  what both sorts promise
    Lower, Interface                       the compiler
    Asm, Build                             the other two programs
    XProofs                                theorems about X; ProofFacts: shared lemmas

**Pregs** — registers, aliasing, pools.

**Alloc** — one function through the driver loop of `main()`.  A vreg is a
record of its `vreg_info_t` fields (`KindInfo`), a function a vreg vector, an
interference graph and its call results.  Actions follow
`allocate_registers()` in order: `Estimate`, `ColorFixed`, `ColorPreferred` or
`SkipPreferred`, `MarkRemoved`, `Simplify`/`PotentialSpill`, the select actions,
`EndSelect`; then the driver's `CheckCallTemp` and `RetrySpills`, each of which
may start over without BP (`Reallocate`), `CoalescePair`/`CoalesceSkip` and
`CompactSlots`.  `choose_color()` and the cost functions are operators with the
code's constants.  `main()` does not clear its local `bp_available` in the last
retry; the model does, because the allocation was made without BP and the local
is not read again.

**Liveness** — `build_cfg()` and `compute_block_def_use()` give `blocks`;
`FlowBlock` and `NextSweep` are the data flow, `ComputeLiveness` the ranges and
`InterfereBlock` one block of `build_igraph()`.  Instructions are reduced to
what they read, define and jump to.  Positions count from 1.  The cap of 16
predecessors per block is left out; it only affects `in_loop`.  The reference
(`LiveAbove`) is stated over paths of single instructions and shares nothing
with the block algorithm.

**StackCache** — continues `Liveness`: `Allocate` takes any spill set and any
assignment that respects the interference graph, which is all the module uses of
`Alloc`; then `plan_stack_cache_spills()`, pair by pair and vreg by vreg
(barriers, paths, nesting, the register to pop into), and then the function is
run, instruction by instruction along every path, on a register file, a frame
and a stack whose words say which definition of which vreg they hold.

**Moves** — the argument moves of one call.  `EmitMove` both plans and runs the
emitted code, on a register file whose bytes are symbolic
(`<<register, half>>`), so that where a value ends up can be read off.  Spilled
arguments are read through BP and give junk once BP is overwritten.  Remats are
immediates.  Sequences that save AX or BP around themselves are modelled by
their net effect.

**CallSite** — a call instruction around `Moves`: `emit_call_saves` (PUSHA
included), `PushArea`, the moves, `EmitCall` (direct, far through a pointer
built on the stack, near through a register), `CaptureResult` one by one,
`DropArea`, `emit_call_restores`, `ReloadResult` from the call temp slot.  The
called function gives results and junk in everything it does not preserve.

**Frame** — `Prologue`, `EntryMove`, a body that is left out, then one of the
exits: `PlanReturn`/`ReturnMove`, `TailArgs` and the direct or indirect tail
jump, and `emit_epilogue`, on the registers and stack of `Moves`.  Values that
leave on the stack are pushed together (`PushOut`, for `StackReturn` and
`TailArgs`) and popped into their slots one per step (`PopOut`, `EndOut`).  A
behaviour of `Frame!Spec` is either one call of `CallSite` or one function from
entry to exit; one run and one set of theorems covers both.

**Clobbers** — `topo_sort()` as one action per loop iteration, then one
`ComputeClobbers` per function.  What single instructions change is an input.
`Changes` is what a call really changes, by unrolling calls and epilogues; it is
the reference the computed sets are compared with.

**Prefer** — `propagate_preferences()`: externs first, then for each function in
topological order `HonourPreferences`, `FollowMoves`, `TakeFree` and
`Propagate`, and at last `Settle`.  `abi` is what the IR declares: parameters,
`.prefer`, moves, seg types, places and calls.

**Place** — `place_module()` and `emit_module()` as explicit stacks of calls;
each item kind is one action in each walk, `Enter` the entry of a used module.
`asm` is what the assembler makes of the `org`, `seg` and `endorg` written, with
the segment of every label; `entries` remembers what it was when each call
began, for `ModulesIsolated` only.

**Program** — `main()`: `PlaceNext`, the sort, `PreferStep`, the clobber loop
and the second walk in the code's order, with its two error exits.  One input is
a program, its interfaces and its layout.

**Order** — the abstract sort: an order grows by one node whose needs are all
ordered, and only when there is none left do the others follow.  `Clobbers`
(`SortsCallees`) and `Build` (`SortsModules`) instantiate it with a refinement
mapping, `sealed` being the phase of the loop; both loops scan in source order,
several times, and stutter where they skip a node.

**Asm** — one action per line kind, in pass 1 and pass 2, with `Rerun`,
`StartPass2` and `Finish` for `main()`.  Instructions are lengths plus label
references.  Lengths follow `asm_jcc`, `asm_jmp_call`, `asm_loop`,
`emit_modrm_mem` and `asm_alu`; `refs` records what pass 2 encoded.

**Build** — the steps of one `nibbuild` process, run again and again, with
`Edit` and `Tick` (external) in between.  A file is a time and the set of
source versions it was made from.  Version 0 stands for the output of a failed
compilation.  `topo_sort()` is `SortModule`, `SortAgain`, then `StartRest` and
one `AddRest` for each module, which orders those left by use cycles.  The process's variables are reset when it exits (`Exit`).

**Lower** — the parser builds any well-nested body of statements (`Parse`),
`emit_stmt()` turns it into IR, one action per kind of statement and one for
the end of each kind of block, keeping `C` (scopes, labels, break and continue
labels, pending flag checks); then the IR is executed next to the source.  The
value a statement computes is the statement's own place, so that what a variable
holds tells which assignment reached it.  Conditions and flags are free.

**Interface** — `compile()` over the declarations of one module after the
other: tables, the blocks written to .nif and .nir, the import of .nif through
`nif_parse_type()`, then the binder reading all .nir.  A type's text is a base
name and its bracketed numbers.

## Runs

| run | bound | result |
|---|---|---|
| `alloc_all` | all graphs on three vregs of 13 x 7 x 2 kinds; five byte vregs around CL; two vregs next to all four split registers pinned; calls whose cleanup keeps FLAGS; DS-relative addresses, also as bases and with preferences, next to a pinned BX | seven properties hold |
| `liveness_blocks` | seven control skeletons of up to six blocks with three holes (10 x 5 x 10 instructions); eight skeletons with the orders of eleven sets of four instructions, all allocations over two words and their halves | four hold |
| `fixup` | calls with up to two results over three places and four locations (also bytes, stack, frame, segment), up to eight live registers, any two and three arguments, permutations of four registers, indirect calls; functions with up to two parameters and two outgoing values, three exits, save sets, interrupt handlers | eight hold |
| `bind` | every call graph on three functions with an extern, contracts and DS policies; six call graphs with pins, moves, seg and stack parameters; eight parameters; module trees of three with every sequence of up to two declarations or three of five kinds | ten hold |
| `lower_bodies` | all bodies of up to four statements from each of four families | two hold |
| `interface` | signatures with every pair of parameters and results, conventions, structs, arrays, constants, initialisers, name clashes over two or three modules | three hold |
| `asm_passes` | two labels and two references in every order with gaps around the short limit; cascades of up to six branches; org, seg, equ | three hold |
| `build_builds` | five use graphs on three modules, one edit, times that coincide or not, plain and forced builds; a diamond with two edits in different seconds | three hold, `EventuallyCurrent` under fairness |
| `clobbers_calls` | a tail call; a caller of a recursive function | **violated** |
| `liveness_update` | one block, a vreg updated in place | **violated** |
| `asm_resolve` | the sources of `asm_passes` | **violated** |
| `lowering` | control flow, up to three statements | **violated** |

What the properties say:

* Allocation: `Coloring`, `BpReserved`, `StorageSound` (every value in a register
  its uses admit, or spilled, or rematerialised), `SpillsHaveFrame`, `FrameSound`
  (spill slots disjoint and without holes), `Termination`.
* Analysis: `LivenessExact`, `InterferenceComplete`, `LastUseCovers`,
  `CachedValuesKept` (every use reads what the vreg should hold).
* Calls: `ArgumentsPlaced`, `OthersUntouched`, `CalleeEntered` (stack arguments
  and target), `CallTransparent` (live registers and flags), `ResultsReachVregs`.
* Functions: `ParamsPlaced`, `ContractKept` (what the function promises to
  preserve, BP, DS and the stack at every exit), `ExitsRight` (values and jump
  target).
* Program: `SortsCallees` (refines `Order`), `AcyclicCallsSafe`, `ParamsApart`,
  `WishesTravel`, `WalksAgree`, `SegmentsBelieved`, `ModulesIsolated`,
  `WrittenOnce`, `Terminates`.
* Compiler: `FollowsSource`, `LabelsPlacedOnce`, `ArgumentsLineUp`,
  `DescriptorsAgree`, `ObjectsAgree`.
* Assembler: `SettledResolves`, `NoLateRelaxation`, `LabelsOnlyMoveUp`.
* Build: `SortsModules` (refines `Order`), `ForcedBuildCurrent`,
  `EventuallyCurrent`.

The type invariants of `Alloc` and of `Program` (with those of `Clobbers`,
`Prefer` and `Place`) are checked; `TypeOK` of the other modules documents their
state and is not an invariant of a run.

Why the bounds are enough: a colouring conflict needs two vregs and a third to
fill the pool, the retries need all split registers occupied, and slot pairing
needs several candidates for one partner.  Moves conflict in pairs, the stack
order matters from two cycles on, which takes four moves; results interfere in
pairs with a register saved between them; PUSHA needs six registers.  The data
flow's hardest case is information that runs against the sweep, which the
backward skeleton has; two cached values are enough to nest wrongly.  Wishes
travel two levels in a graph of three functions.  A used module can disturb its
user by what it leaves open, in the module below it or in itself.  Lowering
decides by the enclosing statement and the one before, which three levels
exhaust.  A branch is affected by one other branch, and the cascades reach
beyond the four re-runs.  A stale interface needs a chain of three modules.

Deadlock is checked where the last step has an explicit exit (`bind`) or loops;
`fixup`, `interface`, `lower_bodies`, `lowering` and `build_builds` set
CHECK_DEADLOCK FALSE: the program stops when the call, the modules or the body
are done, and `MaxClock` and `MaxEdits` end Build's environment.

Fairness: `Alloc`, `Clobbers` and `Program` assume weak fairness of their
next-state action, since each is one sequential process that runs to its exit.
`Build` assumes weak fairness of `BuildStep`, that is, the programmer keeps
running `nibbuild` and it keeps executing; nothing is assumed of edits.

### What the violated runs show

* `liveness_update`: `add %1, %1, 1` removes `%1` from the live set after adding
  it as a source (bind.c:4824), so a temporary defined and used above, in the
  same block, may be given `%1`'s register.
* `clobbers_calls`: tail callees are missing from the clobber set
  (bind.c:11803), and callers of recursive functions may be processed before
  them (bind.c:10997).
* `asm_resolve`: pass 1 is only re-run when it relaxed a branch itself, at most
  four times, so forward branches and label-sized operands can still grow in
  pass 2, which moves later labels without an error.
* `lowering`: `continue` in a `for` jumps to the top of the body (compile.c:3135)
  and skips the LOOP instruction, which SPEC.md:1462 says it goes to.

## Deviations met while modelling

Where the code does something else than its documents or its other parts say,
the model does what the code does and the property names the case, so that it
still says something about all others.

* **Allocation.**  `needs_frame` set for stack parameters does not take BP from
  the allocator (bind.c:11671), while BINDER.md:199 says BP must be reserved;
  `BpReserved` speaks of the flag `bp_available`, which is still set then.
  Pre-colouring ignores `needs_ds_addr` (bind.c:6045-6055), so a DS-relative
  address that prefers BP gets it, and the pool of one that is also a base is
  that of a base (bind.c:5355), with BP in it; bind.c:226 says "BX, SI, DI (not
  BP)".  `RegisterClass` excepts these two and holds every other DS-relative
  address to the three registers.
* **Analysis.**  A dead result of a multiple-result call may share the register
  of an earlier live result (bind.c:4839).  The dst of `out`, `outb`, `bins` and
  `stos` is not counted in `last_use` (bind.c:2935).
* **Stack cache.**  A use repeated in a loop that does not contain the
  definition pops on every iteration; moves of calls, returns and exits that
  push and pop are not taken into account; an operand that is a further result
  of a multiple-result call is not seen; positions stand for path order although
  jumps go backward; the register popped into may be one a call in the span
  returns its result in; the register for two siblings is compared with ranges
  that begin at the first definition in the text (bind.c:9597), so a value that
  comes from a block laid out below is overlooked and overwritten; a variable shift whose dst is in CX emits no pop.
* **Moves and calls.**  Bytes in AL and AH that change places lose one
  (bind.c:7364).  A byte in a high half for a parameter in its word, or the
  reverse, is taken as already placed (bind.c:7415), and a word in SI, DI or BP
  never reaches AH (bind.c:7200).  POPA brings back a register a result was
  captured in, a result on the stack is loaded into one half of a register that
  is popped for its other half (bind.c:7775, found by the proof that results
  arrive), one temp slot serves several results and the flags
  (bind.c:7751-7754), the frame is addressed after the callee or an argument
  changed BP, a capture may overwrite a later result's register, and loading
  stack results uses BX and AX.  The scratch of a far indirect call is popped
  over a result; a call through a register with an argument in BP does not save
  the frame pointer; the target is read after the argument moves; descriptors
  with stack places push nothing.
* **Entries and exits.**  Entry moves are emitted one after the other without
  regard to each other, and neither a byte nor a word that arrives in a segment
  register is moved to another register.  A parameter in DS is lost when the DS
  policy of the function loads DS first.  A cycle
  among return values is broken by overwriting ("Cycles are rare; preserve
  progress.", bind.c:8144), bytes are popped through AX, register arguments of a
  direct tail call are never moved, a result in DS is popped over where the DS
  policy has DS saved (bind.c:8837), an argument in BP meets the frame's BP, and
  an indirect tail call without a stable register uses AX.  Interrupt handlers
  do not save ES.
* **Preferences.**  When a byte register is preferred first and its word later,
  both are granted (bind.c:11130), so two parameters overlap.  A parameter that
  is pinned can lose its register to an earlier one whose vreg got a propagated
  wish; an indirect call through a descriptor then passes it elsewhere.
* **Placement.**  A function's own `at(...)` writes `org` and `seg`, but neither
  walk counts it, so functions after it are taken to be in the old segment
  (SPEC.md:552-559: all three forms push the position stack); and a used module
  with such a function or with an `end at` too many moves its user's position
  (SPEC.md:561: "A used module cannot move the parent's output position").
* **Assembler.**  A duplicate label goes unreported once a branch is relaxed
  (asm.c:162).  A forward LOOP or JCXZ beyond address 126 is rejected in pass 1
  although its target is near, unless a re-run resets the count (asm.c:1089).
* **Build.**  All decisions are taken before the first compilation, from old
  .nif times (build.c:413), so a change two levels down reaches the root one
  build later; USAGE.md:216 says modules are recompiled when dependencies "have
  changed".  A failed `nib` leaves fresh .nir and .nif files (compile.c:4348),
  which the next plain build takes as up to date.
* **Lowering.**  Flag conditions other than a flag or two plain flags joined by
  `|` or `&` test something else (SPEC.md:1373); flag checks after assignments
  of literals, of several results and of flags are dropped (SPEC.md:1349);
  assigning a far32 variable leaves its segment; several results are not stored
  to locals whose address is taken, `&` of a scalar global or of a local whose
  address is taken only in a flag check gives no address; far arguments are not
  split in direct tail calls and in calls of functions defined later.
* **Interfaces.**  `u32[]`, `seg[]`, struct arrays and bcd arrays are read back
  as other types; an unknown or private struct has size 0; names are cut after
  31 characters; a parameter or type name with "stack" or "register" in it
  changes the parsed place; far32, struct and seg-array globals get too little
  storage in the binder (bind.c:2710-2727 asks for "far", compile.c:624 writes
  "far32"); short u32 initialisers are filled with 2-byte zeros (SPEC.md:187-188);
  imported globals lose `at()`; `extern` is exported without `pub`
  (SPEC.md:1674).

## Proofs

Every theorem holds for every value of the constants that satisfies the
modules' assumptions, which `TLC` evaluates on the runs' instances:

| module | assumed of the constants | why the code satisfies it |
|---|---|---|
| `Alloc` | at least one vreg; vreg records well typed; a base, an index and a DS-relative address are addressable; graphs symmetric, irreflexive, on the function's vregs | `scan_addressing_constraints()` sets `needs_addressable` with each of them (bind.c:5317-5323); graphs are built by `build_igraph()` |
| `Liveness`, `StackCache` | vregs are numbers; instruction lists not empty and well typed, every jump has its label; the registers are the split words | `compile.c` numbers vregs and writes the labels; the IR reader |
| `Clobbers` | functions and externs are numbers, disjoint; programs well typed | indices of one table |
| `Place`, `Program` | segments are numbers; finitely many modules; each object declared once; inputs well typed, the calls between functions those of the call graph | `record_emit()` is called when an object is read; `build_call_graph()` makes both of the call instructions |
| `Build` | the root is a module; finitely many modules; worlds well typed | command line, file system |
| `Asm` | `MAX_RERUNS` a number, `MAX_OUTPUT` positive; programs are sequences of lines | `asm.c` limits |
| `Moves` | registers, places in the frame, the call temp slot and immediates are different things | a vreg has a register, or a spill slot, or its `remat_kind` (bind.c:211, 332) |
| `CallSite` | calls well typed; values live at the same time, arguments among each other and results among each other are apart; a register result is as wide as its vreg; segment registers take words; targets are words, a far call has one; a call that needs the temp slot or spilled values is in a function with a frame | the interference graph; one place per parameter or result; the driver's scans for `needs_frame` |
| `Frame` | functions well typed; parameters and results apart, in places of their own size; a near tail call jumps to a parameter that is a word and passes nothing on the stack; a function that addresses its frame has one; interrupt handlers have neither parameters nor results; the words above the return address are different slots, one for every value that leaves on the stack | the interference graph; a `u8` has a byte register (SPEC.md:60); `needs_frame`; `compile.c` rejects handlers with either (compile.c:3594-3596) and targets that are not `u16` (compile.c:3251) |

What is proved, each with the property of the runs it states:

* **AllocProofs** (`Alloc!Spec`): `TypeOK`; `Coloring`, which is not inductive
  by itself, because pinned vregs are coloured without looking at neighbours:
  `ColoringInv` adds `Fresh`, before and during that phase nothing but pinned
  vregs has a register.  `BpReserved` by `BpInv`, with `Fresh` again: BP is
  taken away only when no colour has been given, or together with all colours.
  `SpillsHaveFrame` by `FrameInv`, which follows the driver's phases: past the
  spill retry, slots imply that BP was taken away.  `StorageSound` by
  `StoredInv`: a vreg that needs a place is waiting, on the select stack, or
  has one, and the registers given out are in the pool of its class or are
  preferences that were checked (`RegisterClass`).  `FrameSound` by `SlotsInv`:
  until halves are paired every spill has its own slot and the slots are
  numbered without holes; pairing lets only two byte halves share, and ranks
  (the number of used slots below a slot) show that renumbering closes the
  holes and keeps different slots different.
* **ProgramProofs**, of `Clobbers!Spec`: `TypeOK` with `SortInv`, the loop's
  bookkeeping (`SortInv` shows that the loop over the rest begins only when no
  function is ready); from it the refinement of `Order` (`SortsCallees`), one
  step after the other; `AcyclicCallsSafe` by `OrderInv` (up to some point all
  callees come first, beyond it no function's could) and `ClobbersInv` (a set
  computed after those of all callees is final and complete), then by the
  smallest counterexample on the depth of `Changes`.
  Of `Program!BindSpec`: the same two, for the whole binder,
  by mapping its behaviours to those of `Clobbers`.  Of placement, `Types`, `WalkInv` and `CallsInv` say
  where the stack of calls stands; the next position is a function of position
  and layout, so the second walk retraces the first, and `PathInv` carries the
  first walk along as a trace with what it decided at each position:
  `WalksAgree`.  `BlocksInv` pairs the binder's segment stack with the
  assembler's org stack: `SegmentsBelieved`.  `DepthInv` and `FramesInv` bound
  both stacks from below by what they were at the current module's entry:
  `ModulesIsolated`.  `UsesInv` and `WrittenInv` follow which modules and items
  a walk is past, and reachability in as many steps as there are modules is
  shown to be all of it: `WrittenOnce`.
  Of the preferences, `PreferInv` is their type and `BindTypeOK` all of it
  together; a loop of the code is `Loop`, and `IteratedAt` is the rule that what
  every step keeps the loop keeps.  `ParamsApart` by `SettledInv`: after every
  step of a function's turn its registers are apart, since a wish is granted when
  `Used` does not have the register and a free one is taken when no half of it
  is in use.  `WishesTravel` by `WishInv`, which follows the turns (`TurnInv`): a
  vreg that only passes a parameter on wants nothing until its one callee has had
  its turn and then what the callee takes (`HearInv`), so when the caller's turn
  comes the parameter gets that register or another has it (`GotInv`); and the seg
  vregs of a function are final before it tells its callers (`SegsInv`).  That the
  callee's turn comes first is `OrderInv` again, for functions that reach no
  recursion.
* **BuildProofs** (`Build!Spec`): `TypeOK` by `BuildInv`; `SortsModules` by
  `SortInv`; `ForcedBuildCurrent` by `DiscoveryInv` (the scan finds the modules
  below the root, and their uses), `EarlyInv` (without cycles no module is left
  for the rest: of those left, the one with the fewest modules below it would
  be ready) and `FreshInv` (what has been compiled in a forced build is current).
* **AsmProofs** (`Asm!Spec`): `TypeOK`; `LabelsOnlyMoveUp`, `NoLateRelaxation`
  and `SettledResolves`.  A run over the source uses the labels of the run
  before it for what is still below, so `RunsInv` keeps two runs side by side:
  the current one up to its line, and a complete earlier one in which no line
  was longer and which is nowhere ahead.  When nothing was relaxed the two
  agree; `RefsInv` says what pass 2 has encoded so far.

* **FrameProofs** (`Frame!Spec`), for calls and functions alike.
  `OthersUntouched` and `ArgumentsPlaced` by `MovesInv`: while moves are
  emitted, `Progress` says that a move that is done has landed, that the source
  of one that is pending or waits on the stack is still what it was (unless AL
  and AH are both wanted, see the deviations), that the stack is the one the call began with under the words saved for cycles, and
  that nothing but destinations has changed.  `FrameInv` joins it with what is
  true where a call or a function's exit begins, so the same argument serves
  direct, indirect and near calls and near tail calls.  `ParamsPlaced` by
  `ParamsInv`: a parameter whose move is done is in its place or is one of the
  cases named, and one still to be moved is in its register.  `ContractKept` by
  `KeptInv`: at every step the stack is made of the layers the prologue pushed,
  handler's registers, BP, saved registers, DS, with the values that leave and
  the jump target above them; BP is the height of its layer; and a register
  outside the layers that the function must keep has its value on entry.  The
  epilogue takes the layers off from the top, whatever exit was taken.
* **CallProofs** (`Frame!Spec`), for every call.  `CalleeEntered` by
  `CallBefore`: up to the call instruction the stack is the layer of saved
  registers with the area, if any, on it, the moves began with the registers of
  the caller, and what an argument overwrites is among what the saves collect.
  `CallTransparent` by `CallAfter`: behind the call instruction, a live register
  that is not pushed has its value at every step (`LivesStay`), the slots of
  other values and the flags do, and BP is the frame pointer until the restores
  unless the call is one of those that lose it, and after them in any case; the
  restores take off the layer that `CallBefore` carried through the call.
  `ResultsReachVregs` by `ResultsInv` and `TempInv`: a result is where the
  callee left it until it is captured (`Left`), then in the temp slot if its
  register will be popped (`InTemp`), otherwise in its register or slot
  (`InAct`), unless it is one of those listed as lost; the restores pop no
  register that was captured into; and the slot is written only by calls for
  which the driver gave the frame one.
* **CallProofs** too, for every exit of a function: `ExitsRight` by
  `ValuesInv`, on the layers of `KeptInv`.  `ExitsRight` speaks of the last state
  only, so `ValuesInv` follows the values there: up to the exit a parameter is
  where it was placed (`Stays`); between pushes and pops the words on top carry
  the values still to be popped, and those popped are at their destinations
  (`OnTheirWay`), which rests on different slots for different results; while
  results are moved, a source still pending has not been overwritten, because
  the move picked overwrites none that is needed unless results are exchanged in
  a cycle (`BeingMoved`, `PickSpares`); the target of a near tail call is in a
  register no argument move changes, or on the stack under the words the moves
  save (`TargetIn`), then in a register the epilogue does not pop.  `WordsInv`
  (registers and words of the frame are pairs of bytes) lets the target be equal
  as a word.  `MovesInv` says where the register arguments of a near tail call are.

* **LivenessProofs** (`StackCache!CacheSpec`, which runs the analysis and goes on
  from it), for every function.  `BlocksOK` describes what `build_cfg()` makes:
  consecutive ranges of positions that control enters at the top and leaves at
  the bottom (`ControlOK`), with what they define and read first (`DataOK`).
  Liveness along paths is the least set closed under one step of the program
  (`AboveLeast`), so within a block it follows the instructions (`ThroughFrom`),
  and between blocks the equations of the data flow hold (`TrueFlow`).  The sets
  of the iteration stay below (`FlowOK`); and since the n-th sweep
  has found what n steps of the flow tell (`SweepOK`) and as many steps as there
  are blocks tell everything (`LevelsAre`), a sweep changes nothing long before
  the cap: `LivenessExact`.
  `LastUseCovers` by `RangesOK`, from the edges of a block to what is within.
  `InterferenceComplete` by `Joined`, block by block: walking a block backward
  keeps all that is live (`WalkLive`) and no edge is lost (`WalkEdges`).  It is
  proved for functions without in-place updates (`NoUpdates`); for others the
  walk loses the vreg, and `liveness_update` shows that the property is false.

`ProofFacts` has the lemmas about sequences, finite sets and recursive
functions they share.  The library's induction theorems cannot be instantiated
by the provers, so a recursive function's equations come from its iteration
(`Iterates`), and induction is the choice of a smallest counterexample.

Only model-checked:

* liveness, that is `Termination`, `Terminates` and `EventuallyCurrent`; the
  proof system has no rules for ENABLED with these provers;
* what `Lower` and `Interface` say: they declare RECURSIVE operators over syntax
  and types, in whose presence the prover loses its arithmetic;
* `CachedValuesKept` of `StackCache`: what a run finds in registers, frame and
  stack rests on every property of the analysis, on the allocation and on where
  all paths between two instructions lead; the functions of the run update no
  vreg in place.

## Not modelled

* Text parsing and printing (lexer, parser, instruction syntax of the IR reader
  and the assembler, formatting of emitted instructions), tables, timing and the
  reports, the disassembler, opcode encoding, map and debug files, missing files
  and command lines.
* Emission of single IR instructions (bind.c 8924-9577, 10018-10893): a table
  from patterns to text whose correctness is that of each pattern alone; what
  has state across instructions, the pushes, pops and moves around them, is
  modelled.
* `goto` to the name of a function, which becomes `goto.fn` (compile.c:3218-3222),
  a jump without cleanup (bind.c:156): `Lower` has `goto` to labels only.
* `validate_ds_policies()`: it only rejects programs, function by function.
* Routing of shift counts through CL and of far addresses through BX and ES
  (bind.c 7445-7566).
* The registers a single instruction or fixup changes (`collect_*_clobbers`) are
  inputs of `Clobbers`; the operands an instruction reads and defines are inputs
  of `Liveness`.

PROJECT.json gives the reason for each component.

## Plan

1. `Routing`: CL and ES:BX routing around shifts and far accesses, on the
   register file of `Moves`.
2. `Asm`: instruction encodings that depend on operand sizes.
