----------------------------- MODULE VariableScope -----------------------------
(***************************************************************************)
(* Where a variable is declared: Compiler::analyze_variable_scope.         *)
(*                                                                         *)
(* SPIR-V declares every variable of a function at its top.  The back ends *)
(* declare it in the block which dominates its accesses, or in the header  *)
(* of a for loop, so that its scope in the emitted program is smaller than *)
(* its lifetime in SPIR-V.  The analysis runs after the CFG of the         *)
(* function is built (module CFG) and looks at one variable at a time;     *)
(* this module follows one variable, one parameter or one result of an     *)
(* instruction through it.  A result which is used where its statement is  *)
(* not seen gets a declaration of its own, too.                            *)
(***************************************************************************)
EXTENDS CFGQueries

CONSTANT VariablesOf(_)   \* the variables considered in a function: a role and the accesses

\* What a block does with the variable.  "write" stores the whole variable
\* before anything reads it, "update" stores it after reading it.
Accesses == {"none", "read", "write", "update"}

\* "scalar" and "composite" are variables of the function, "phi" stands for the
\* result of an OpPhi, "parameter" is a pointer argument.  A "temporary" is the
\* result of an instruction and an "access_chain" that of an OpAccessChain: they
\* are written where they are defined and read elsewhere.
Results == {"temporary", "access_chain"}
Roles == {"scalar", "composite", "phi", "parameter"} \cup Results

ASSUME VariablesAssumption ==
  \A f \in Functions : \A v \in VariablesOf(f) : v.role \in Roles /\ v.access \in [Blocks -> Accesses]

VARIABLES
  stage,          \* where the analysis of the variable is
  role, access,   \* the variable: its role and, by block, its accesses
  loop_dominator, \* SPIRBlock::loop_dominator, NoBlock for NoDominator
  pending,        \* accessed blocks which builder has not been given
  added,          \* blocks which builder has been given
  builder,        \* DominatorBuilder::dominator
  candidates,     \* the continue blocks which access a scalar, or a result used elsewhere too
  dominator,      \* SPIRVariable::dominator, for a temporary the block which may declare it
                  \* (declare_temporary, potential_declare_temporary), NoBlock for none
  hoisted,        \* hoisted_temporaries has it
  complex_continue, \* the header which is made complex for an access chain, NoBlock for none
  loop_header,    \* the header whose loop_variables has it, NoBlock for none
  preserved       \* analyze_parameter_preservation counted a read

placement == <<hoisted, complex_continue>>
result == <<dominator, placement, loop_header, preserved>>
scope_vars == <<stage, role, access, loop_dominator, pending, added, builder,
                candidates, result>>

-------------------------------------------------------------------------------
ContinueOf(x) == {h \in Headers("loop") : func[h].continue_block = x}

\* A loop header which is its own continue block does not count.
is_continue(x) == ContinueOf(x) \ {x} # {}
continue_block_to_loop_header(x) == CHOOSE h \in ContinueOf(x) : h # x

\* Mutant: one successor which stores is enough.
exists_unaccessed_path_to_return_all(stores) ==
  LET open[x \in Blocks] ==
        x \notin stores /\ (Successors(x) = {} \/ \A y \in Successors(x) : open[y])
  IN open[Entry]

\* Some path of the CFG ends without a block of stores.
exists_unaccessed_path_to_return(stores) ==
  LET open[x \in Blocks] ==
        x \notin stores /\ (Successors(x) = {} \/ \E y \in Successors(x) : open[y])
  IN open[Entry]

-------------------------------------------------------------------------------
Accessed == {x \in Blocks : access[x] # "none"}
Stores == {x \in Blocks : access[x] \in {"write", "update"}}

\* An OpPhi is read by its block and written by the blocks before it.
IsPhi(v) ==
  \E t \in DOMAIN func :
    LET parents == {x \in DOMAIN func : t \in Elements(func[x].targets)}
    IN v.access = [x \in Blocks |-> IF x = t THEN (IF t \in parents THEN "update" ELSE "read")
                                   ELSE IF x \in parents THEN "write" ELSE "none"]

\* The uses of a result are dominated by its definition.  Everything dominates dead
\* code: there the structure of the function decides.
IsResult(v) ==
  \E d \in DOMAIN func :
    /\ v.access[d] = "write"
    /\ \A x \in Blocks \ {d} : v.access[x] # "none" =>
         /\ v.access[x] = "read"
         /\ x \notin ReachableWithout(IF x \in Reached THEN RealFlow ELSE StructuralFlow, d)

ScopeInit ==
  /\ Init
  /\ stage = "cfg" /\ role = "scalar" /\ access = [x \in Blocks |-> "none"]
  /\ loop_dominator = [x \in Blocks |-> NoBlock]
  /\ pending = {} /\ added = {} /\ builder = NoBlock /\ candidates = {}
  /\ dominator = NoBlock /\ loop_header = NoBlock /\ preserved = FALSE
  /\ hoisted = FALSE /\ complex_continue = NoBlock

BuildCFG == stage = "cfg" /\ Next /\ UNCHANGED scope_vars

\* traverse_all_reachable_opcodes collects the accesses.
CollectAccesses ==
  /\ stage = "cfg" /\ phase = "done"
  /\ \E v \in VariablesOf(func) :
       /\ \A x \in Blocks \ DOMAIN func : v.access[x] = "none"
       /\ v.role = "phi" => IsPhi(v)
       /\ v.role \in Results => IsResult(v)
       /\ role' = v.role /\ access' = v.access
  /\ stage' = IF role' = "parameter" THEN "parameter" ELSE "loops"
  /\ UNCHANGED <<vars, loop_dominator, pending, added, builder, candidates, result>>

\* An argument which is not completely written on every way to a return keeps
\* the value of the caller.
analyze_parameter_preservation ==
  /\ stage = "parameter"
  /\ preserved' = (Accessed # {} /\ (Stores = {} \/ exists_unaccessed_path_to_return(Stores)))
  /\ stage' = "end"
  /\ UNCHANGED <<vars, role, access, loop_dominator, pending, added, builder, candidates,
                 dominator, placement, loop_header>>

FindLoopDominators ==
  /\ stage = "loops"
  /\ loop_dominator' =
       [x \in Blocks |-> IF x \notin DOMAIN func THEN NoBlock
                         ELSE IF is_continue(x) THEN continue_block_to_loop_header(x)
                         ELSE find_loop_dominator(x)]
  /\ pending' = Accessed
  /\ stage' = IF role \in Results THEN "temporaries" ELSE "accesses"
  /\ UNCHANGED <<vars, role, access, added, builder, candidates, result>>

\* Mutant: a continue block counts like any other block.
LiftedAccess_plain(x) == {}

\* The header is before the body and before the continue block.
LiftedAccess(x) == IF is_continue(x) THEN {continue_block_to_loop_header(x)} ELSE {}

\* One iteration over the unordered set of accessed blocks.
AddAccess ==
  /\ stage = "accesses"
  /\ \E x \in pending :
       LET d == IF LiftedAccess(x) = {} THEN builder
                ELSE add_block(builder, continue_block_to_loop_header(x))
       IN /\ builder' = add_block(d, x)
          /\ candidates' = IF is_continue(x) /\ role \in {"scalar", "phi"}
                           THEN candidates \cup {x} ELSE candidates
          /\ pending' = pending \ {x}
          /\ added' = added \cup {x} \cup LiftedAccess(x)
  /\ UNCHANGED <<vars, stage, role, access, loop_dominator, result>>

\* The merge block of the loop around block d.
MergeCandidate(d) ==
  IF func[d].merge = "loop" THEN func[d].merge_block
  ELSE IF loop_dominator[d] # NoBlock THEN func[loop_dominator[d]].merge_block
  ELSE NoBlock

\* The continue block c belongs to another loop than block d: it cannot reach
\* the merge block.
IsOtherLoop(d, c) ==
  LET m == MergeCandidate(d)
  IN m # NoBlock /\ order[m] # 0 /\ (order[c] = 0 \/ order[m] > order[c])

OutermostLoop(d) ==
  LET outer[x \in Numbered] == IF loop_dominator[x] = NoBlock THEN x ELSE outer[loop_dominator[x]]
  IN outer[d]

\* Mutant: a store anywhere in the block is enough.
may_read_undefined_variable_in_block_stored(d) == access[d] \notin {"write", "update"}

\* What is not stored first in block d may be needed from the iteration before.
may_read_undefined_variable_in_block(d) == access[d] # "write"

\* The candidate is rejected, or a loop around the dominator may carry a value.
ChooseDominator ==
  LET d == lift_continue_block_dominator(builder)
  IN /\ stage = "accesses" /\ pending = {}
     /\ builder' = d
     /\ candidates' = IF d # NoBlock /\ \E c \in candidates : candidates = {c} /\ IsOtherLoop(d, c)
                      THEN {} ELSE candidates
     /\ dominator' = IF d # NoBlock /\ role # "phi" /\ may_read_undefined_variable_in_block(d)
                     THEN add_block(d, OutermostLoop(d)) ELSE d
     /\ stage' = "loop_variable"
     /\ UNCHANGED <<vars, role, access, loop_dominator, pending, added, placement, loop_header,
                    preserved>>

\* The blocks from block d on, up to header h, when there is no branch in
\* between; the empty set when there is one.
StraightPath(d, h) ==
  LET path[x \in Blocks] ==
        IF x = h THEN {h}
        ELSE IF \E y \in Blocks : Successors(x) = {y} /\ preceding[y] = <<x>>
             THEN LET rest == path[CHOOSE y \in Successors(x) : TRUE]
                  IN IF rest = {} THEN {} ELSE {x} \cup rest
             ELSE {}
  IN path[d]

\* Mutant: accesses after the loop are not looked for.
IsLoopVariable_anywhere(h) == StraightPath(dominator, h) \cap Accessed # {}

\* The variable can be declared in the header of the for loop.
IsLoopVariable(h) ==
  /\ StraightPath(dominator, h) \cap Accessed # {}
  /\ ReachableFrom(func[h].merge_block) \cap Accessed = {}

FindLoopVariable ==
  /\ stage = "loop_variable"
  /\ loop_header' =
       IF dominator # NoBlock /\ \E c \in candidates : candidates = {c}
       THEN LET h == continue_block_to_loop_header(CHOOSE c \in candidates : TRUE)
            IN IF IsLoopVariable(h) THEN h ELSE NoBlock
       ELSE NoBlock
  /\ stage' = "end"
  /\ UNCHANGED <<vars, role, access, loop_dominator, pending, added, builder, candidates,
                 dominator, placement, preserved>>

-------------------------------------------------------------------------------
is_single_block_loop(x) == func[x].merge = "loop" /\ func[x].continue_block = x

\* Mutant: only the blocks which use it count, not the loop around the use.
LiftedUse_plain(x) == {}

\* A use in a continue block, if it is not the only block, is as good as one in
\* the header: the block may be emitted there.
LiftedUse(x) == IF Cardinality(Accessed) # 1 THEN LiftedAccess(x) ELSE {}

AddTemporaryAccess ==
  /\ stage = "temporaries"
  /\ \E x \in pending :
       LET d == add_block(builder, x)
       IN /\ builder' = IF LiftedUse(x) = {} THEN d ELSE add_block(d, continue_block_to_loop_header(x))
          /\ candidates' = IF LiftedUse(x) = {} THEN candidates ELSE candidates \cup {x}
          /\ pending' = pending \ {x}
          /\ added' = added \cup {x} \cup LiftedUse(x)
  /\ UNCHANGED <<vars, stage, role, access, loop_dominator, result>>

\* A result which is used in several blocks is declared in its dominator, before
\* it is computed if that is not the block which computes it.  An access chain
\* cannot be declared: its loop becomes one whose continue block comes last.  The
\* dominator is looked up before it is known to exist.
DeclareTemporary ==
  LET several == Cardinality(Accessed) # 1
      known == builder # NoBlock
      hoist == known /\ (builder \notin Accessed \/ (several /\ is_single_block_loop(builder)))
  IN /\ stage = "temporaries" /\ pending = {}
     /\ stage' = IF several /\ ~known THEN "thrown" ELSE "end"
     /\ dominator' = IF role = "temporary" /\ several THEN builder ELSE NoBlock
     /\ hoisted' = (role = "temporary" /\ hoist)
     /\ complex_continue' =
          IF role = "access_chain" /\ hoist /\ candidates # {} THEN builder ELSE NoBlock
     /\ UNCHANGED <<vars, role, access, loop_dominator, pending, added, builder, candidates,
                    loop_header, preserved>>

ScopeNext ==
  \/ BuildCFG \/ CollectAccesses \/ analyze_parameter_preservation
  \/ FindLoopDominators \/ AddAccess \/ ChooseDominator \/ FindLoopVariable
  \/ AddTemporaryAccess \/ DeclareTemporary

ScopeSpec == ScopeInit /\ [][ScopeNext]_<<vars, scope_vars>>

-------------------------------------------------------------------------------
\* The scopes around the declarations of block d: what a header declares is
\* declared before its construct.
Around(d) == {h \in (DOMAIN func \ Headers("none")) \ {d} : d \in Construct(h)}

\* The blocks which see a declaration made in block d.
Scope(d) ==
  {x \in DOMAIN func \ ReachableWithout(RealFlow, d) :
     \A h \in Around(d) :
       /\ x \in Construct(h)
       /\ func[h].merge = "loop" /\ x \in ContinueConstruct(h) => d \in ContinueConstruct(h)}

-------------------------------------------------------------------------------
\* Types; declarations are made in blocks of the CFG only.
ScopeTypeOK ==
  /\ stage \in {"cfg", "parameter", "loops", "accesses", "loop_variable", "temporaries",
               "end", "thrown"}
  /\ role \in Roles /\ access \in [Blocks -> Accesses]
  /\ loop_dominator \in [Blocks -> Blocks \cup {NoBlock}]
  /\ pending \subseteq Blocks /\ added \subseteq Blocks /\ candidates \subseteq Blocks
  /\ {builder, dominator, loop_header, complex_continue} \subseteq Numbered \cup {NoBlock}
  /\ preserved \in BOOLEAN /\ hoisted \in BOOLEAN

\* A parameter which some execution leaves as it was is passed in as well as out.
ArgumentsKeepTheirValue ==
  stage = "end" /\ role = "parameter" /\ Stores # {} =>
    LET unwritten == ReachableWithout({e \in RealFlow : {e[1], e[2]} \cap Stores = {}}, NoBlock)
    IN (\E x \in unwritten \ Stores : func[x].terminator = "exit") => preserved

\* The order in which an unordered container yields the accesses does not
\* matter: the builder holds the closest common dominator of what it was given.
OrderDoesNotMatter ==
  stage \in {"accesses", "temporaries"} =>
    LET reached == {x \in added : order[x] # 0}
        common == {d \in Numbered : \A x \in reached : d \in DominatorsOf(x)}
    IN IF reached = {} THEN builder = NoBlock
       ELSE builder \in common /\ common \subseteq DominatorsOf(builder)

\* Each block knows the innermost loop around it when the accesses are added.
LoopDominatorsAreInnermost ==
  stage = "accesses" /\ added = {} =>
    \A x \in Reached :
      LET loops == {h \in Headers("loop") : h # x /\ x \in Construct(h)}
      IN IF loops = {} THEN loop_dominator[x] = NoBlock
         ELSE loop_dominator[x] \in loops /\ \A h \in loops : loop_dominator[x] \in Construct(h)

\* Every access of a variable, and every use of a result in another block, sees
\* the declaration; a result which is not hoisted is declared by its definition.
AccessesSeeTheDeclaration ==
  stage = "end" /\ loop_header = NoBlock
    /\ (role \in {"scalar", "composite", "phi"} \/ (role = "temporary" /\ Cardinality(Accessed) > 1)) =>
    /\ \A x \in Accessed \cap Reached : dominator # NoBlock /\ x \in Scope(dominator)
    /\ role = "temporary" /\ ~hoisted => access[dominator] = "write"

\* The definition of an access chain comes before its uses in the text: a loop
\* whose body defines the chain for its continue block does not have the
\* continue block in its header, if the loop can be left without the definition.
ChainsComeFirst ==
  stage = "end" /\ role = "access_chain" =>
    \A h \in Headers("loop") :
      LET c == func[h].continue_block
          body == Construct(h) \ (ContinueConstruct(h) \cup {h})
          leaving == {func[h].merge_block} \cap Reached
      IN access[c] = "read" /\ c \in Reached
           /\ (\E d \in body : access[d] = "write" /\ leaving \subseteq ReachableWithout(RealFlow, d))
         => complex_continue = h

\* The analysis comes to its end.
AnalysisCompletes == stage # "thrown"

\* A variable declared in the header of a loop is not used outside the loop,
\* except on the way to it.
LoopVariablesStayInTheLoop ==
  stage = "end" /\ loop_header # NoBlock =>
    Accessed \cap Reached \subseteq Construct(loop_header) \cup StraightPath(dominator, loop_header)

\* The blocks at whose end the variable may hold a value which was stored, and
\* the blocks which need the value it has at their start.
Defined ==
  LET after[n \in 0 .. Cardinality(Blocks)] ==
        IF n = 0 THEN Stores \cap Reached
        ELSE LET held == after[n - 1]
             IN held \cup {e[2] : e \in {d \in RealFlow : d[1] \in held}}
  IN after[Cardinality(Blocks)]
Needed ==
  LET before[n \in 0 .. Cardinality(Blocks)] ==
        IF n = 0 THEN {x \in Blocks : access[x] \in {"read", "update"}}
        ELSE LET needed == before[n - 1]
             IN needed \cup {e[1] : e \in {d \in RealFlow : d[2] \in needed /\ access[d[1]] = "none"}}
  IN before[Cardinality(Blocks)]

\* A value which is still needed is not lost to the declaration being executed
\* again, in the next iteration of a loop around it.
ValuesOutliveIterations ==
  stage = "end" /\ role \in {"scalar", "composite", "phi"} /\ dominator # NoBlock =>
    \A e \in RealFlow :
      /\ e[2] = dominator /\ e[1] \in Defined
      /\ ~(func[dominator].merge = "loop" /\ e[1] \in Construct(dominator))
      => dominator \notin Needed
===============================================================================
