# Verification of SPIRV-Cross

SPIRV-Cross parses a SPIR-V module into an object graph, decides function by
function which results become temporaries and which are pasted where they are
used, where each variable is declared and which nested scopes the control flow
graph becomes, and writes the shader out as GLSL, HLSL, Metal or C++. The
library is single-threaded. What makes it hard is not concurrency but

- *speculation*: a function is emitted again and again until the guesses made
  while emitting it hold;
- *motion*: the evaluation of an instruction moves to the place where its result
  is used, the declaration of a variable to the block which dominates its uses,
  a block to the loop header which evaluates it;
- *translation between two semantics*: a graph of blocks becomes nested scopes,
  simultaneous assignments become a sequence, separate images and samplers
  become combined ones;
- *shared state behind long chains of handlers*: which expression reads which
  variable, which block is numbered, which id has which type.

This directory models the decisions of the first three kinds: expression
forwarding (`Forwarding`), the control flow graph (`CFG`), variable scopes
(`VariableScope`), the structurizer (`Structurizer`), the assignments of OpPhi
results (`PhiFlush`) and combined image samplers (`CombinedImageSamplers`), with
model-checked instances of all six and machine-checked proofs about each.
Where there is a meaning which the output has to have, it is a specification of
its own (`ControlFlow`, `PhiAssignment`) and the component is shown to implement
it. Paths below are relative to the repository; line numbers refer to the commit
next to which this directory lies.

## 1. Inventory

| Component | State | Operations | Interacts with | Hard behaviour |
|---|---|---|---|---|
| Parser, `spirv_parser.cpp` | current function and block, instructions, block marks | `parse` of each opcode | fills the object store; its marks steer the structurizer | merge information changed after the fact (equal branch targets) |
| Object store, `spirv_cross_parsed_ir.*`, `spirv_common.hpp` | ids, typed id lists, metadata, pools, loop locks | `set`, `add_typed_id`, `reset_all_of_type`, `increase_bound_by`, copies and moves | everything | lists and variants which disagree after a throw or a type change; ids which move during a loop |
| CFG, `spirv_cfg.*` | visit order, visit stack, edges, dominators | constructor, dominator and loop queries, `DominatorBuilder` | reads blocks; read by scope analysis and structurizer | iterative post-order with an explicit stack, invented edges |
| Variable scope, `spirv_cross.cpp` 3367-4410 | accesses by block, builder, candidates, dominators | `analyze_variable_scope`, `analyze_parameter_preservation`, `find_function_local_luts` | queries the CFG; writes blocks and variables | results which may depend on the order of unordered containers; scopes smaller than lifetimes |
| Expression forwarding, `spirv_glsl.cpp`, `spirv_cross.cpp` | forced and forwarded temporaries, use counts, invalid expressions, dependees, expression texts and dependencies | `emit_instruction`, `to_expression`, `register_read`, `register_write`, `flush_*` | driven by block emission and `compile` | stale expressions, lost or repeated effects, moved derivatives |
| Compile loop, `CompilerGLSL::compile`, `reset` | pass count, force and progress flags | one pass; the next pass | forwarding, phi copies, parameters, polyfills | endless or aborted recompilation |
| Structurizer, `emit_block_chain`, `branch` | open scopes, emitted blocks, ladders | blocks, branches, continues | CFG queries, phi assignment | break out of nested scopes, continue blocks emitted out of order |
| OpPhi assignment, `flush_phi` | phi variables and their copies | assignments on an edge | structurizer, forwarding | parallel assignment as a sequence |
| Call graph traversals, `OpcodeHandler` | function scope stacks, remappings | combined image samplers, interlocks, active variables, dref samplers | object store | push/pop discipline, results changed during the traversal |
| Reflection, layout, `spirv_reflect.*`, `get_declared_struct_size`, packing | none (pure) | sizes, offsets, std140/std430 checks | object store | alignment boundaries |
| Names | name caches | `update_name_cache`, sanitising | every declaration | uniqueness across scopes |
| HLSL, MSL, C++ back ends | binding tables, entry point interfaces | text and resource mapping | inherit all of the above | resource indices |
| C API, command line, containers | a context's allocations; options | wrappers | all | ownership |

`PROJECT.json` lists the components with what is modelled of each, and the
hazards at their lines.

What makes the modelled components correct:

- *Forwarding*: in the code returned, every pasted instruction yields the value
  it has at its own place; a derivative is evaluated in its own block; an effect
  happens once, in place; shared work is not duplicated; and the passes end.
- *CFG*: recorded edges form an acyclic graph, the single sweep over them
  computes its dominator tree, that tree is also true of the real control flow,
  and a construct's merge block is dominated from outside the construct.
- *Variable scope*: every access sees the declaration, no value which is still
  needed is lost with a declaration executed again, a loop variable stays in its
  loop, an argument which may be left unwritten keeps the caller's value, a
  result is declared, or defined, before it is used, and none of it depends on
  the order of a hash table.
- *Structurizer*: the emitted program is well formed and runs the blocks,
  assignments and decisions of the SPIR-V function, in its order, for every
  outcome of the conditions.
- *OpPhi assignment*: an edge gives all results their values at once, although
  the output assigns one after the other, and reads no copy which is not declared.
- *Combined image samplers*: on every path of calls the text samples the pair of
  image and sampler which SPIR-V samples, every lookup finds what it looks for,
  and a resource is declared for comparisons if and only if it is compared.

## 2. The modules and the code

### Forwarding: expressions, dependencies, passes

`Instructions` says what a function body consists of and what its instructions
read and write, `FunctionBodies` builds families of bodies, `Forwarding` is the
compiler. One function body (`prog`, chosen initially) is emitted, pass after
pass. An instruction is its position, which is also its result id. **The text of
an expression is abstracted to the set of instructions evaluated when it is
evaluated**; `out` has `<<j, i>>` when the statement of instruction `i` evaluates
instruction `j`. Everything the properties need is the difference between the
place of `j` and the place of the statements which evaluate it.

| State | In the code |
|---|---|
| `forced`, `forwarded`, `suppressed`, `used`, `invalid` | `forced_temporaries`, `forwarded_temporaries`, `suppressed_usage_tracking`, `expression_usage_counts`, `invalid_expressions` |
| `dependees`, `ctl` | `SPIRVariable::dependees`, `SPIRBlock::invalidate_expressions` |
| `text`, `deps`, `tracks`, `emitted_level`, `loaded_from` | fields of `SPIRExpression`; `tracks` is `implied_read_expressions` with the expression itself |
| `write_count`, `force`, `progress`, `pass` | parameter write counts, `is_force_recompile`, `is_force_recompile_forward_progress`, `pass_count` |

Each action is a whole handler: `OpLoad`, `OpAccessChain`, `OpArithmetic` (any
opcode which goes through `emit_unary_op`, `emit_binary_op` and relatives),
`OpStore`, `OpFunctionCall`, `OpImageWrite`, `OpControlBarrier`, `FlushPhi` (one
assignment), `Branch`, `BeginLoop`, `EndLoop`; `Recompile` is `reset` with its
check, `Finish` the return of `compile`. What an instruction reads and writes in
SPIR-V (`ReadCells`, `WrittenCells`, `Between`) is stated apart from the
compiler and used by the properties only: two buffer variables may be views of
one memory cell, and the compiler does not know cells.

### CFG: the constructor, and the queries

`FunctionBlocks` is the data type: the merge instruction, the terminator and the
targets of each block. In `CFG` the traversal is modelled entry by entry of
`visit_stack` (`StartVisit`, `visit_branch`, `EndVisit`,
`post_order_visit_resolve`), the sweep edge by edge (`NextBlock`, `ResolveEdge`,
`Climb`, `CommonDominator`; the last two are iterations of
`find_common_dominator`). A visit order of -1 is "not in `visited`", 0 is
"visited and `order` = 0". `succeeding_edges` is the inverse of `preceding`, and
is derived. `CFGQueries` has what others ask of a finished CFG
(`find_common_dominator`, `find_loop_dominator`, `DominatorBuilder`, `walk_from`)
and the reference notions: `Construct(h)`, `ContinueConstruct(h)`, `Reached`.

### VariableScope: composed with CFG

`VariableScope` EXTENDS `CFGQueries`: a behaviour first builds the CFG, then
follows one variable, one pointer parameter or one result of an instruction
through `analyze_variable_scope` (stages `cfg`, then `parameter`, or `loops`,
`accesses`, `loop_variable`, or `loops`, `temporaries`; then `end`, or `thrown`).
Accesses of a block are abstracted to none, read, write (a complete store comes
first) and update (a store after a read); a result is written by its definition.
`AddAccess` and `AddTemporaryAccess` take the accessed blocks in any order,
because the code iterates over an `unordered_set`. The analysis treats variables
and temporaries independently, so one is enough. `declare_temporary` and
`potential_declare_temporary` are told apart by `hoisted`: what is in the latter
is declared before its loop if the loop takes a form which needs it.

### Structurizer: composed with CFG, the parser's marks, and the output

`BlockParser` is the part of `Parser::parse` which makes blocks of labels, merge
instructions and terminators: the marks in `block_meta`,
`continue_block_to_loop_header`, and the collapsing of conditionals with two
equal targets. `StructuredProgram` is the language of the output, as far as
control goes: tokens (`run`, `phi`, `if`, `for`, `switch`, `break`, ...) and what
a GLSL compiler makes of them. `ControlFlow` is the abstract specification: the
executions of a SPIR-V function as sequences of visible steps (a block with
statements runs, the OpPhi results of an edge are assigned, a condition is
decided, the function ends).

A behaviour of `Structurizer` builds the CFG, emits (`stage = "emit"`), and then
*runs the emitted program* (`stage = "run"`) while `at` is the place in the SPIR-V
function:

| State | In the code |
|---|---|
| `todo` | the C++ call stack of the emission: calls of `emit_block_chain`, `branch`, `branch_to_continue`, `emit_continue_block`, ... which have not returned, and the statements between them |
| `out` | the statements written so far, as tokens |
| `complex_continue`, `disable_block_optimization`, `need_ladder_break`, `ignore_phi_from_block` | the fields of `SPIRBlock` which survive a pass: what the speculation has learnt |
| `switch_stack`, `fallthrough` | `current_emitting_switch_stack`, `current_emitting_switch_fallthrough` |
| `force`, `passes` | `is_force_recompile`, `pass_count` |
| `pc`, `ladders`, `picked`, `at` | the execution of the output: next token, true ladder variables, labels picked; where SPIR-V is |

`ImplementsControlFlow` is `Flow!Spec` of `INSTANCE ControlFlow`: while the program
is emitted nothing happens, then every token is a step of the SPIR-V function
or a stutter. The content of a block is reduced to whether it has statements
(`ops`), whether it has OpPhi results (`phis`) and how it exits; that is what
decides the forms of loops (`block_is_loop_candidate`,
`attempt_emit_loop_header`) and what a run can tell apart.

### PhiFlush: simultaneous assignment as a sequence

`PhiAssignment` says what the OpPhi instructions of a block mean: whoever comes
from a block gives all of them their values at once. `PhiFlush` is
`CompilerGLSL::flush_phi` for one block and all edges into it, over all passes:
which variables need a copy (`allocate_temporary_copy`), which expressions the
assignment of a variable invalidates, and the next pass either asks for. Values
are named by what they are when the edge begins, so the value a variable holds
after the code of an edge can be compared with the one it ought to have.
`ImplementsPhiAssignment` is the refinement. Edges of case labels, whose
assignments are written elsewhere, are in `Structurizer`.

### CombinedImageSamplers: traversals of the call graph

`ShaderCalls` is what the traversals read of a shader: for each function its
parameters of image and sampler type and the instructions which combine, fetch
or pass on such resources; loads and copies are collapsed into the variable they
come from, as `maybe_get_backing_variable` does. The stages are the public calls
in the order a user makes them: `dummy`
(`build_dummy_sampler_for_combined_images`), `combine`
(`build_combined_image_samplers`), `dref`, `usage` and `usage again`
(`analyze_image_and_sampler_usage`), and `run`, in which the text is executed
beside SPIR-V: a stack of frames, each with the meaning of its combined
parameters. `parameter_remapping` and `functions` are the stacks of
`CombinedImageSamplerHandler`. The lists of combined samplers and parameters,
which are searched before anything is added, are sets.

### MC modules

`MCForwarding` gives `Forwarding` the families of `FunctionBodies`: all sequences
of a given length over a few instructions, without dead results.
`StructuredFunctions` enumerates every function of up to `MaxBlocks` blocks which
obeys SPIR-V's structured control flow rules, up to renaming of its blocks:
`Shapes` generates, `IsStructured` states the rules (headers dominate their merge
blocks, constructs nest, one back edge per loop from the continue construct,
exits only to the merge or continue blocks of the enclosing constructs).
`MCCFG` checks them all; `MCVariableScope` adds the variables; `MCLoops` puts the
small ones into a loop of every kind (direct, conditional, do-while, continue
target apart from the back edge, nested switches) and `MCStructurizer` adds
contents. `MCPhiFlush` builds loop headers with OpPhi instructions, `MCShaders`
shaders of an entry point and two functions.

## 3. Runs

| Run | Question | Size |
|---|---|---|
| `forwarding_motion` | Does moving an evaluation change a value, move a derivative, lose or repeat an effect, or duplicate work; does every pass make progress, and does `compile` return? | all bodies of six families: memory 5, calls 4, control flow 5, dynamic indexing 5, buffer references 4, one loop 7 instructions; about 193,000 states |
| `forwarding_loop_carried`, `_phi_indexing`, `_computed_arguments` | three orders in which a read does move past a write | 4 to 6 instructions |
| `cfg_construction` | Is the CFG of a structured function right, and does the constructor return? | 4301 functions of up to 5 blocks, about 159,000 states |
| `scope_declarations` | Are variables and results declared where all accesses see them, in any order of the accesses, and not in a loop which loses them? | functions of up to 4 blocks, and those of 5 with a for loop; variables accessed by 1 or 2 blocks, scalars in for loops by 3, results used by up to 2 others; about 1,279,000 states |
| `scope_continue_chain` | The same for a continue construct of two blocks | one function of 6 blocks |
| `scope_dead_temporaries` | Does the analysis come to its end in dead code? | one function of 3 blocks |
| `structurizer_programs` | Does the emitted program do what the function does, in well-formed scopes, and does emission end without an exception? | functions of up to 4 blocks, and those of up to 3 in a loop of every kind, six contents, with and without case fallthrough; about 348,000 states |
| `structurizer_continue_phis` | The same for OpPhi results in a loop whose continue construct has two blocks | the loops which `structurizer_programs` leaves out |
| `phi_flush_header` | Does the sequence of assignments amount to the simultaneous one, in every pass which is kept? | 1000 loop headers with three OpPhi instructions and two parents; about 399,000 states |
| `combined_samplers` | Does the text sample what SPIR-V samples, and is each resource declared as it is used? | 16,704 shaders of three functions; about 1,001,000 states |

### Bounds

*Forwarding*: to violate a property a read, a write and a use are needed, and one
or two instructions through which the read is passed on; the lengths above leave
room for each. `MaxDeps` = 3 stands for 64, so that the limit on dependencies is
met. `MaxIterations` = 3 is the default of
`force_recompile_max_debug_iterations`; `pass` is capped there because the code
only compares against it.

*CFG*: five blocks hold a loop with an inner selection, a switch, nested
selections, early exits and unreachable merge and continue blocks; `MaxBranches`
= 2 bounds the switch labels.

*VariableScope*: two blocks give every relation of two accesses; a loop variable
needs three (header, continue block, and one after the loop), a result one to
define it and two to use it. The roles tell a scalar (a candidate for a loop
variable), a composite (not one), an OpPhi result (never preserved across
iterations), a parameter, a temporary (can be declared) and an access chain
(cannot). Nested loops in which an access chain is used by two continue blocks
need eight blocks and are not reached.

*Structurizer*: four blocks alone, and up to `MaxInner` = 3 blocks inside a loop
(so nine in all), meet every form of loop, a break through a switch, case
fallthrough, continue from nested constructs and unreachable merge blocks.
Before the bounds were chosen, all functions of four blocks were run with all
contents, all of five blocks with two switch labels and every single block silent
in turn, and 752 functions of five blocks with three labels: nothing differed
from the runs kept. At most one recompilation occurs in all of them, and blocks
are emitted twice where a continue block is both stamped into the header and
branched to. Two kinds of functions are left out because the run would report
them (section 4): `InvertsDoWhile` and `ContinuesFromLoneDefault`;
`LosesContinuePhi` is the run `structurizer_continue_phis`.

*PhiFlush*: a cycle of two variables needs one copy, a cycle of three two, and a
third result can stand behind a cycle; one is a loop variable, which is never
copied. A visit of each edge twice (`MaxVisits` = 2) reads a value which the first
visit wrote.

*CombinedImageSamplers*: with two levels of calls below the entry point a
parameter of a parameter occurs, with two images and samplers the arguments of
two calls differ; each level mixes parameters with globals, and comparisons stand
before and after other uses.

### Fairness

`StructuredSpec`, `FairSpec`, `MCSpec` and `PhiFairSpec` are weak fairness of the
whole next-state relation: the compile loop, the constructor of `CFG`, the
emission and the emitted program are sequential code which keeps running. Only
`CompileTerminates`, `ConstructionEnds` and `ProgramsGoOn` use it; the last says
that a program which goes on does not do so without visible steps, unless SPIR-V
may do that too, and assumes nothing about the outcome of conditions. Deadlock
checking is off because every behaviour stops when the function returns.

### Mutants

Each property has an operator next to the one it changes, marked `Mutant`, which
is a plausible slip in that code: a flush which forgets a class of variables, a
reset of too much, a search which stops early, a ladder which is not tested.
Substituting it violates the property.

### What the properties say

Forwarding:
`ForwardedReadsAreCurrent` (no statement evaluates an instruction after something
it reads was overwritten, the previous iteration of a loop included),
`DerivativesStayInTheirBlock`, `EffectsHappenOnceInOrder`, `NoRepeatedWork`,
`AlwaysForwardProgress` (the exception of `reset` is never thrown) and
`CompileTerminates`.

CFG: `EdgesDescend` (recorded edges descend in post order: acyclic),
`ClimbsInTheTree` (the assertion of `build_immediate_dominators`),
`DominatorsAreExact` (against a reference definition over the recorded edges),
`DominatorsAreReal` (against the real branches), `MergeIsOutside`,
`OutsideComesFirst`, `ConstructionEnds`.

VariableScope: `ArgumentsKeepTheirValue`, `OrderDoesNotMatter`,
`LoopDominatorsAreInnermost`, `AccessesSeeTheDeclaration` (variables, and results
used in other blocks than their own), `ChainsComeFirst` (the text defines an
access chain before it uses it), `LoopVariablesStayInTheLoop`,
`ValuesOutliveIterations`. `Scope(d)` is the reference for visibility: the blocks
dominated by `d` which lie in all structured constructs around `d`, with the
continue construct of a loop outside its body.

Structurizer: `ImplementsControlFlow` (the refinement), `JumpsHaveTargets` (scopes
are closed, a `break` has a loop or switch around it, a `continue` a loop),
`NeverThrows` (none of the exceptions of the emission, the recompilation limit
included), `ProgramsGoOn`.

PhiFlush: `ImplementsPhiAssignment` (the refinement), `CopiesAreDeclared`,
`NeverThrows` (the copies claim no progress and still never meet the limit of
`reset`), `CompileTerminates`.

CombinedImageSamplers: `SamplesTheRightPair`, `NeverThrows` (no lookup of a
combined sampler, or of the dummy sampler, fails), `ListedPairsAreSampled` (no
combined sampler is declared which no path of calls samples),
`ComparisonIsExact`.

## 4. What the code does otherwise than it says

Each of the first six is a run with a shortest counterexample; the properties
hold in the other families. All of them were also seen in the output of the
compiled library.

1. **Loads before a loop** (`forwarding_loop_carried`). A forwarded load is not
   usage-tracked, so nobody notices that it is read at a deeper loop level; a
   store later in the body changes what the next iteration reads
   (`src/spirv_glsl.cpp:13226`, 12244). In the run the body stores the loaded value
   to a local variable and then a constant to the variable it was loaded from.
2. **OpPhi results as indices** (`forwarding_phi_indexing`). Once an access
   chain's id is among the forced temporaries, the next pass registers no
   dependency on the OpPhi variable, although chains never become temporaries
   (`src/spirv_cross.cpp:2714`).
3. **Computed call arguments** (`forwarding_computed_arguments`). A forwarded call
   has no dependency on what its computed arguments were loaded from
   (`src/spirv_cross.cpp:454`).
4. **Continue constructs of several blocks** (`scope_continue_chain`). Only the
   continue target is recognised as a continue block. A variable stored in the
   body and read in the second block of the continue construct is declared in the
   body; the emitted header is `for (; i < 4; int _16, i += _16)`
   (`src/spirv_cross.cpp:4120`).
5. **OpPhi results and continue constructs of several blocks**
   (`structurizer_continue_phis`). `emit_continue_block` names the continue target
   as the parent of every edge, so that the assignments of the back edge are lost
   and the loop variable keeps its first value (`src/spirv_glsl.cpp:18620`).
6. **Temporaries in dead code** (`scope_dead_temporaries`). A result which two
   dead blocks share has no dominator, and asking whether "block 0" is a loop
   throws `nullptr` for a valid shader (`src/spirv_cross.cpp:4257`).

Met while modelling, without a run of their own:

- A load hands the reads of its access chain on to whoever uses the load; a load
  which is a temporary, because it is volatile or has 64 dependencies, counts them
  nowhere, and a computed index is computed again in each statement which uses the
  chain (`int l = b.m2[b.m0 * b.m0]; b.m2[b.m0 * b.m0] = 0;`,
  `src/spirv_glsl.cpp:13254`). The value is right; it is work which
  `track_expression_read` means to do once. Family `computed_indices` (five
  instructions) violates `NoRepeatedWork`. The proof of `WorkIsNeverRepeated` led
  to it.
- A result computed in the header of one loop and used once in the body of
  another loop behind it is pasted there and computed in every iteration: only the
  numbers of loops around the two places are compared
  (`src/spirv_glsl.cpp:12253`, `expression_read_implies_multiple_reads`). It is
  what `ResultsStayOutOfOtherLoops` excludes.

- Restrict buffers are in none of the lists which a barrier
  (`src/spirv_cross.cpp:602`) or an impure call (`src/spirv_glsl.cpp:12290`)
  flushes: families `restrict_barriers` (three instructions) and
  `restrict_calls` (three) of `FunctionBodies`.
- Calls to functions which read a module-scope image do not depend on the image
  (`src/spirv_cross.cpp:400`): family `image_reads` (three instructions). Nor do
  they depend on an image they are passed: `is_immutable` holds for every
  UniformConstant variable and for what is no lvalue, a storage image included, so
  `register_read` registers nothing (`src/spirv_cross.cpp:463`, 672): family
  `image_arguments` (three). Both were seen in the output of the compiled library,
  the call behind the `imageStore`.
- A buffer reference kept in a push constant has no dependees which a store
  through a reference would flush (`src/spirv_cross.cpp:532`): family
  `push_references` (three). For these, `Families <- Restrict_Barriers`
  (`Restrict_Calls`, `Image_Reads`, `Image_Arguments`, `Push_References`,
  `Computed_Indices` with `NoRepeatedWork`) in a copy of `MCForwarding_computed_arguments.cfg` gives the
  counterexample.
- An access chain which is defined in one arm of a selection and used in the
  continue block of a loop behind it has the selection header as dominator: the
  assertion that it is a loop header fails (`src/spirv_cross.cpp:4289`); in a build
  without assertions the flag is set on the wrong block and nothing else happens.
  The proof of `ChainsAlwaysComeFirst` met a second way to it: a chain defined in a
  loop in one arm, used by the continue block and behind the selection, whose other
  arm leaves the function.
- Of two nested loops whose continue blocks both use a chain defined in the inner
  body, only the outer one is made complex, because only the dominator of all uses
  is (`src/spirv_cross.cpp:4272`-4290). The text is right all the same: the
  inner continue block is then reached through the definition, and so is the
  merge block. This is the case `leaving` in `ChainsComeFirst` excludes; the proof
  led to it, at eight blocks.
- A loop header with `OpBranchConditional %c %body %body` loses its merge
  information in the parser (`src/spirv_parser.cpp:1339`); such a shader is emitted
  with `break` and `continue` outside of any loop.
- A loop header with statements and a condition, whose continue block ends in
  `OpBranchConditional %c %merge %header`, throws "Invalid continue block
  detected!" for a valid shader (`src/spirv_glsl.cpp:18635`, called from 18880).
- A switch with only a default label is written `do { } while (false)`; a
  `continue` for the loop around it leaves the `do` only
  (`src/spirv_glsl.cpp:19449`).
- The critical section of an interlock which is in control flow directly in the
  entry point is known to no call, so no resource is found in it
  (`src/spirv_cross.cpp:5796`), although `src/spirv_cross.hpp:1161` speaks of all
  resources; nor are resources found which a callee accesses through a parameter.
- Combined image samplers which are parameters are never marked for comparisons:
  with an image type of unknown depth a function takes a `sampler2D` where a
  `sampler2DShadow` is passed (`src/spirv_cross.cpp:4819`).
- A storage image which is only written by a callee, through a parameter, stays
  `readonly writeonly` (`src/spirv_glsl.cpp:3505`-3525).
- The test for loop variables of different types compares the first one with
  itself (`src/spirv_cross.cpp:4905`); a second check when the loop is emitted
  makes up for it.

## 5. Proofs

TLC shows the properties for the bounds above, TLAPS for every value of the
constants: all programs over any set of variables, all functions with any finite
number of blocks, structured or not, all blocks with any number of OpPhi
instructions and parents, all shaders of finitely many functions without
recursion.

| Theorem | Module | Assumption besides the ASSUMEs of the model |
|---|---|---|
| `TypeCorrect` : `TypeOK` | `Forwarding_proofs` | none |
| `ForwardProgress` : `AlwaysForwardProgress` | `Forwarding_proofs` | `MaxIterations > 1` |
| `EffectsStay` : `EffectsHappenOnceInOrder` | `Forwarding_proofs` | none |
| `ReadsStayCurrent` : `ForwardedReadsAreCurrent` | `Forwarding_proofs` | every program is `StraightLine` |
| `DerivativesStay` : `DerivativesStayInTheirBlock` | `Forwarding_proofs` | every program is `StraightLine` |
| `OnlyLoadsRepeatWork` | `Forwarding_proofs` | `LoopsNest`, `ResultsStayOutOfOtherLoops` |
| `WorkIsNeverRepeated` : `NoRepeatedWork` | `Forwarding_proofs` | the same and `IndicesAreLoaded` |
| `TypeCorrect` : `TypeOK` | `CFG_proofs` | none |
| `EdgesAlwaysDescend` : `EdgesDescend` | `CFG_proofs` | none |
| `ClimbsStayInTheTree` : `ClimbsInTheTree` | `CFG_proofs` | none |
| `DominatorsAlwaysExact` : `DominatorsAreExact` | `CFG_proofs` | none |
| `MergeIsAlwaysOutside` : `MergeIsOutside` | `CFG_structured_proofs` | `FollowsRules(func)` |
| `DominatorsAreAlwaysReal` : `DominatorsAreReal` | `CFG_structured_proofs` | `FollowsRules(func)` |
| `OutsideAlwaysComesFirst` : `OutsideComesFirst` | `CFG_structured_proofs` | `FollowsRules(func)` |
| `OrderNeverMatters` : `OrderDoesNotMatter` | `VariableScope_proofs` | none |
| `ArgumentsAlwaysKeepTheirValue` : `ArgumentsKeepTheirValue` | `VariableScope_proofs` | `FollowsRules(func)` |
| `ScopeTypesAreKept` : `ScopeTypeOK` | `VariableScope_proofs` | `FollowsRules(func)`, `ContinuesAreDominated(func)` |
| `LoopDominatorsAreAlwaysInnermost` : `LoopDominatorsAreInnermost` | `VariableScope_proofs` | `FollowsRules`, `LoopsAreClosed`, `TargetsAreUnique` of `func` |
| `LoopVariablesAlwaysStayInTheLoop` : `LoopVariablesStayInTheLoop` | `VariableScope_proofs` | `FollowsRules`, `ContinuesAreDominated`, `LoopsAreClosed` |
| `ChainsAlwaysComeFirst` : `ChainsComeFirst` | `VariableScope_proofs` | the same and `TargetsAreUnique` |
| `ValuesAlwaysOutliveIterations` : `ValuesOutliveIterations` | `VariableScope_proofs` | the same and `BackEdgesStayInLoops` |
| `AccessesAlwaysSeeTheDeclaration` : `AccessesSeeTheDeclaration` | `VariableScope_proofs` | the same as for `ChainsAlwaysComeFirst` and `RulesOfExits` |
| `JumpsAlwaysHaveTargets` : `JumpsHaveTargets` | `Structurizer_proofs` | `EmissionRules` |
| `InductiveInvariant`, `CopiesAlwaysDeclared` : `CopiesAreDeclared` | `PhiFlush_proofs` | none |
| `PhisNeverThrow` : `NeverThrows` | `PhiFlush_proofs` | none |
| `AssignsAtOnce` : `ImplementsPhiAssignment` | `PhiFlush_proofs` | none |
| `InductiveInvariant`, `LookupsSucceed` : `NeverThrows` | `CombinedImageSamplers_proofs` | none |
| `PairsAreRight` : `SamplesTheRightPair` | `CombinedImageSamplers_proofs` | none |
| `UsesInductiveInvariant`, `TypesAreKept` : `TypeOK` | `CombinedImageSamplers_proofs` | none |
| `ListsAreExact` : `ListedPairsAreSampled` | `CombinedImageSamplers_proofs` | none |
| `ComparisonsAreExact` : `ComparisonIsExact` | `CombinedImageSamplers_proofs` | none |

### The assumptions

The modules assume finitely many blocks and functions (`BlocksAssumption`,
`FunctionsAssumption`), as a SPIR-V module has, and for shaders that there is no
recursion. What a theorem assumes beyond that is named in the table, and TLC
evaluates it on the instances which are checked, so none of it is empty:

- `MaxIterations > 1`: the first pass may ask for another one only to mark a
  parameter as written, without progress.
- `StraightLine(p)` excludes exactly what section 4 and the alias analysis exclude:
  loops, access chains indexed by OpPhi results, calls with computed arguments, and
  bodies in which a write is not covered by the alias classes (`AliasingIsKnown`).
  The last condition is stated with the variables which the code makes a read a
  dependee of (`Readers`). No image is among them (`is_immutable`), so a pure call
  which reads an image, as a global or as an argument, is admitted when no write of
  that image follows it, and the theorem says nothing about the reordering of
  section 4.
- `LoopsNest(p)` is the shape of a body; `ResultsStayOutOfOtherLoops(p)` and
  `IndicesAreLoaded(p)` exclude the two cases of repeated work in section 4
  (`MCForwarding` states which families satisfy each).
- `FollowsRules(f)` is what the proofs need of SPIR-V's structured control flow: a
  header dominates its merge block (`MergesAreDominated`), every cycle has a block
  which dominates the others (`IsReducible`), and a loop is entered at its header
  (`LoopsHaveOneEntry`). `ContinuesAreDominated(f)`: a header dominates its continue
  target if that is reachable.
- The rules about constructs, in `CFGQueries`, are what the proofs need of how
  constructs nest. `LoopsAreClosed`: a loop holds its continue target, is entered at
  its header and left to its merge block. `TargetsAreUnique`: no two headers share a
  merge block or a continue target. `BackEdgesStayInLoops`: a branch to a
  dominator goes to the header of a loop around it. `RulesOfExits` are three:
  a construct is left for the header, merge block or continue target of a construct
  around it (`ConstructsAreLeftByExits`), a continue construct for its header or the
  merge block (`ContinuesAreClosed`), and a continue construct of several blocks
  needs no block of the body on the way to it (`LongContinuesStandAlone`). The last
  is not a rule of SPIR-V: it is what the function of finding 4 does not obey.
- `EmissionRules` are, for the emission of blocks, `FollowsRules`, `LoopsAreClosed`,
  `BackEdgesStayInLoops`, `TargetsAreUnique` and three more: a construct is entered
  at its header (`ConstructsHaveOneEntry`), a switch has a merge block
  (`SwitchesHaveMerges`), and no loop header is one which the parser collapses
  (`LoopsAreKept`). The last excludes the loop header of section 4 whose merge
  information gets lost; without it the theorem is false. `MCStructurizer` assumes
  them (`RulesAssumption`) for every structured function it enumerates, the ones in
  loops included. `SourcesAssumption` and `ContentsAssumption` only say that a
  function has merge instructions and terminators of the kinds there are.
- `MCCFG` and `MCVariableScope` assume (`RulesAssumption`), and TLC checks, that
  every structured function they enumerate satisfies all of these rules. They are
  theorems' hypotheses, not ASSUMEs, because `CFG` itself is for any function.

### The arguments

**Forward progress.** `ProgressInv`: the ids which can still be pasted or
invalidated (`Live`: forwarded, invalid, control-dependent or dependees of some
variable) are disjoint from the forced ones unless this pass has forced a new
one. An id is forced only if it is live, so forcing is progress; and from the
second pass on parameters no longer cause a pass, because every parameter
written by the part already emitted is known. Termination itself
(`CompileTerminates`) follows informally, since `forced` is bounded by the body,
but liveness is left to TLC.

**Moved reads.** `MotionInv` has for every expression `e` and every instruction
`j` in its text `Covered(e, j)`: for each variable `j` reads, `e` or one of its
dependencies is a dependee of it or already invalid; for a control-dependent `j`
the same about the block's list; and if something which disturbs `j` has been
emitted since, one of them is invalid. A statement which pastes `e` then either
finds nothing invalid, and `j` is in place, or asks for another pass, and what
was emitted does not count. `ChainsStay` (an access chain is never invalid, so
never forced) is why the OpPhi-indexed chains are excluded: it is what fails
there.

**Effects.** `EffectInv`: no text contains an instruction with side effects, and
the statements which do are those instructions' own.

**Repeated work.** `WorkInv` says who counts what. The work in the text of an
expression comes in the texts of the expressions which a read of it counts as read
(`PassedOn`); in a pass which is going to be kept, what is counted is read by one
instruction, which is in no loop the work is not part of (`CountInv`, from the
levels of `LevelInv`: `level` is the number of loops around the next instruction);
and if two texts contain the same work, the one is read by an instruction whose text
contains it, up to the other (`NestedInv`). Two statements which evaluate the same
work would then read expressions of which one is read by the other's reader, which
has a text, while a statement leaves none. A load which is a temporary counts
nothing, so what it evaluates is left out (`OnlyLoadsRepeatWork`), or known to be no
work (`IndexInv`, for `WorkIsNeverRepeated`): the invariant could not be closed
over computed indices, and the code is why (section 4).

**CFG.** `IInv` is the conjunction of `OrderInv` (`order` and `post_order` are
inverse), `StackInv` (the entry block is at the bottom of the stack and nowhere
else, what a block pushed is unvisited), `BranchInv` (every branch of an open
block is visited or above it on the stack: so when the block is resolved each
branch is numbered or leads back), `FedInv` (every block but the entry has an
edge into it or will get one from the open block which pushed it: so the sweep
finds a predecessor for each) and `TreeInv` (above the block being swept each
block has a dominator still higher up). `EdgesDescend` comes from `BranchInv`,
`ClimbsInTheTree` from `TreeInv`, which needs `FedInv` and `EdgesDescend`.

**Exact dominators.** `DomInv`, through the sweep: for the blocks already swept,
`immediate_dominators` is the nearest of the dominators (`IsExact`); for the block
being swept, the dominators of the candidate are those common to the edges resolved
so far; and each iteration of `find_common_dominator` keeps the common dominators of
the two blocks it climbs from (`ClimbKeeps`), because what is left behind by a climb
comes later in the order than what dominates both. That edges descend makes one sweep
enough. Reachability is a recursive function over the number of blocks; that it is
the least set closed under edges (`ReachableIsLeast`, `ReachableIsClosed`) and that
`Above` follows the tree to the root (`TreeIsDominance`) are inductions, done with
the lemmas of `IterationTheorems`: minimal elements of sets of naturals, and
iterations of a function over a finite set. The library's induction theorems take an
operator as parameter, which the provers here cannot instantiate.

**Structured functions.** `StructureInv` adds what the traversal has done to a
function which follows the rules: a block on the stack was reached, and from the
open blocks below it (`OnStackInv`, `ReachInv`, `PathInv`); each entry was pushed by
the last block opened before it, a merge block below the other branches
(`ParentInv`), so back edges lead to dominators and every other branch is recorded
(`RecordInv`), nothing else is (`OnlyBranchesInv`), and the merge block of a loop is
numbered before the loop is entered (`MergeFirstInv`). `OutsideComesFirst` is in the
last; the recorded graph then has exactly the paths of the branches and of the
invented edges from headers to merge blocks, none of which changes a dominator if
headers dominate their merge blocks.

**Variable scope.** The specification implies that of `CFG` (`ScopeBuildsCFG`), so
all of the above is available. `BuilderInv`: the builder holds the closest common
dominator of the blocks added so far (`IsClosest`), a notion which does not know an
order; `AddBlockIsClosest` is the step. `ParameterInv`: the search has the blocks it
was given; if it finds no path on which the parameter stays unwritten then there is
none, because a shortest such path never takes an edge which leads back
(`UnwrittenPathIsFound`, from `TargetInv`). `ScopeInv`: declarations are in numbered
blocks and the loop searches end, since each step goes to a block with a higher
number (`LoopSearchEnds`).

**Loops around blocks.** `find_loop_dominator` follows one recorded edge backwards
at each step. `PrecedingInv` says where those edges come from: a branch, or an
invented edge from a header to its merge block. So each step either keeps the set of
loops around the block (`LoopsAround`, by `EdgesAndLoops`) or comes to a header which
is the innermost of them; a step which would come out of a loop at its merge block
is seen, and made before the loop (`SearchKeepsTheLoops`, `SearchFindsInnermost`).
`InnermostInv` keeps the answer while the accesses are added.

**Declarations.** `PlacementInv` says that the dominator dominates all accesses and
what was added for them, the headers of accessed continue blocks (`GivenFor`), and
what `FindLoopVariable` and `DeclareTemporary` have tested. Dominating
is not seeing: an access is hidden when it is outside a construct around
the declaration. `SeenInConstruct` goes backwards from such an access: a construct
left for a header, merge block or continue target of a construct around it is left
for a block which the declaration does not dominate (`ConstructsNest`), a
contradiction. `SeenInContinue` is the same for continue constructs; there a
declaration in the body may dominate the continue block, which is why the code adds
the header, and why it has to be the one block for which the code does so.
`ChainIsInLoop` and `ResultIsDominated` are the same argument for access chains, with
the header added under the condition that there are several uses.

**Iterations.** `OutsideInv`: what is not stored first in its dominator is declared
outside of all loops, because the outermost loop around it has none around itself
(`OutermostIsOutside`). A value which comes back to the declaration does so on a
cycle; take the block of all those cycles which is entered first (`IsReducible`): it
is the header of a loop, and if it is not the declaring block itself then the
declaration is inside that loop (`CyclesAreLoops`). Which values come from where,
and which are needed, are iterations again (`DefinedIsLeast`, `NeededIsLeast`). An
OpPhi result is needed in its own block only, and the blocks before store it
(`PhiIsNeededAtOnce`).

**Well-formed scopes.** The invariant relates the stack of calls to the text. What
is written and what is left to do are one sequence (`Whole`); it is read from its
beginning with a stack of the scopes which are open, a token or a call at a time
(`TaskStep`). `CallStep` says which scopes a call needs: those of the loops and
switches around the block it emits (`Fits`), the scope of the loop it closes, a loop
for a continue. In a pass which is going to be kept the whole sequence can be read
(`Emitted`), and each handler preserves that because what it writes and leaves to do
moves the stack as its call did (`CallIsReplaced`, `ScanKept`). The facts about the
graph are `EdgeFits` (what a branch leads to is in no construct but those around the
branch, since constructs are entered at their headers), `MergeFits` (what follows a
construct is where the construct is), `BreakFits` (a branch to a marked merge block
leaves a loop or switch which is still open) and `ContinueFits`. A ladder variable
belongs to a switch in a loop (`LadderInv`), so its test has something to leave. A pass which asks for another may
write anything: an attempt at a loop header which fails does. When nothing is left
to do the text can be read from the empty stack to the empty stack, and
`ScannedTextIsWellFormed` shows that the reference definition, which counts depths
and searches the text for what closes a scope, agrees (`ScannedTextNests`,
`OpenScopeIsAround`, `ScopesEnd`, `ScopesBalance`).

**OpPhi assignments.** The inductive invariant of `PhiFlush` has three parts besides
types. Every expression which reads a variable and may still be pasted is tracked
as a dependee of it (`RegisterWriteTracks`), so the assignment of the variable
either comes after the expression's last use or makes it invalid and asks for a
pass. A variable which is read after it was assigned is copied
(`DemandsACopy`), and the copy is declared in every pass in which it was known
from the start. So in a pass which is kept, what each assignment reads is what
its value was when the edge began (`ReadsTheOldValue`). The refinement
(`StepsRefine`) maps the last assignment of an edge to the simultaneous one and
every other step to a stutter.

**Combined image samplers.** What a traversal has to find is named first: `Needs`,
the pairs a function combines, and `Completed`, the functions whose traversal is
over. The invariant says that the table of the traversal's remapping stack agrees
with the calls on it (`StackInv`); that every combined parameter of a function is
needed by one of its instructions (`KeysInv`); that a completed function, and
every function it calls, has a combined parameter or sampler for each of its
pairs (`DoneInv`), which is what makes it right to follow a callee only once; and
that on every frame of the execution a combined parameter means what looking its
image and sampler up in the caller means (`RunInv`, through the lemma
`CallResolves`). The functions a dummy sampler is not needed in are closed under
calls (`DummyInv`), so that the lookup of it never fails. Recursion is excluded by
the ASSUME on `Rank`, as SPIR-V excludes it.

**Uses of combined image samplers.** `UsesInv` describes the sets the traversals
fill by the *contexts* of a traversal, a function with the meaning its parameters
have there: whatever is in a set was put there in a context which some path of calls
executes (`PairsInv`, `DrefInv`, `MarkInv`, `SampledInv`), and when a traversal is
over, a set of contexts closed under calls has been walked completely (`WalkInv`,
`FinishedInv`). That two traversals are enough for the comparisons is the closure of
`dependency_hierarchy` along paths (`HierarchyIsClosed`), which ends because the rank
of functions increases along dependencies.

**Only model-checked**:

- liveness (`CompileTerminates`, `ConstructionEnds`, `ProgramsGoOn`): TLAPS here has
  no ENABLED;
- `Structurizer`: its refinement, and `NeverThrows`. The refinement relates where the
  program is to where the function is, through the targets of all jumps in the text.
  `NeverThrows` compares the number of passes with `MaxIterations`, 3 in the code:
  a pass may also take back what an earlier one set (`SetComplex`), and nothing in the
  code bounds the number of passes for every function. It also has the exception of
  `emit_continue_block`, which some valid functions do meet (section 4). So it stays a
  statement about the functions of the run;
- reads which move in loops, into calls with computed arguments and past OpPhi
  assignments: `ReadsStayCurrent` excludes them because the code moves some of them
  wrongly.

## 6. Not modelled

- *Forwarding*: opcodes with forwarding rules of their own (OpCompositeInsert,
  OpCopyObject, image queries, which inherit no dependencies at
  `src/spirv_glsl.cpp:15298`), pointers to pointers, buffer pointer variables; recompilation for reasons other than forwarding and
  parameters.
- *VariableScope*: lookup tables, the clearing of unusable loop variables,
  variables with initializers, temporaries of opaque types.
- *Structurizer*: loop variables and initialisers of for headers, declarations,
  hints, legacy switches, conditions bound to a temporary, return values,
  terminators of ray tracing and mesh shaders. That a value is declared where it is
  used is the subject of `VariableScope`, not repeated here.
- *CombinedImageSamplers*: arrays, image types, resources found through
  interlocks, built-ins and active variables.
- *Not yet*: the rest of the parser, the object store, layout and names; see the
  plan.
- *Not intended*: the text of each opcode and back end, JSON, option parsing and
  containers. They make up most of the lines of the repository; what they do is
  formatting, and the repository compares their output with reference files.

## 7. Plan

Done: the six components of section 2 with their runs, and the proofs of section 5.

Next, most important behaviour first:

1. `ParsedIR`: ids, variants, typed lists, combined lists, loop locks, copy and
   move; the abstract specification is a map from ids to types. Theorem: lists
   and map agree.
2. `Interlocks`: the resources of critical sections, as a traversal which composes
   with `ShaderCalls`.
3. `VariableScope`: lookup tables, loop variables of a block together.
4. Pure operators: std140/std430 packing, name caches.

Theorems to come: the refinement of `ControlFlow`, which has the open scopes of
`Structurizer_proofs` to build on; reads in loops under the restriction that no
forwarded load is older than the loop.
