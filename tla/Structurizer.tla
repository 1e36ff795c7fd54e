------------------------------ MODULE Structurizer ------------------------------
(***************************************************************************)
(* From a control flow graph to nested scopes: emit_block_chain, branch    *)
(* and their helpers of CompilerGLSL.                                      *)
(*                                                                         *)
(* A behaviour builds the CFG, asks it for the loop around each block,     *)
(* emits the blocks (again, if a guess turns out wrong), and then runs the *)
(* emitted program.  The C++ call stack of the emission is todo: what is   *)
(* still to be done, first things first.                                   *)
(***************************************************************************)
EXTENDS CFGQueries, BlockParser, StructuredProgram

CONSTANTS
  SourcesOf(_),   \* the functions considered which the parser makes into a function
  Contents(_),    \* the contents considered for the blocks of a function
  MaxIterations   \* force_recompile_max_debug_iterations

\* What OpLabel, OpSelectionMerge, OpLoopMerge and the terminators give.
Instructions ==
  [merge : {"none", "loop", "selection"}, merge_block : Blocks \cup {NoBlock},
   continue_block : Blocks \cup {NoBlock}, terminator : {"direct", "select", "multiselect", "exit"},
   targets : Seq(Blocks)]

ASSUME SourcesAssumption ==
  \A f \in Functions : \A source \in SourcesOf(f) : \A x \in DOMAIN source : source[x] \in Instructions

\* A terminator without targets is one of these.
ASSUME ContentsAssumption ==
  \A f \in Functions : \A c \in Contents(f) : \A x \in DOMAIN f :
    f[x].terminator = "exit" => c.exits[x] \in {"return", "kill", "unreachable"}

VARIABLES
  stage,           \* "cfg", "emit", "run", "end", or "thrown"
  meta, header_of, \* ir.block_meta, ir.continue_block_to_loop_header
  content,         \* what is in the blocks, see ControlFlow
  loop_dominator,
  todo, out,       \* the calls which have not returned, the program so far
  complex_continue, disable_block_optimization, need_ladder_break, \* of blocks
  ignore_phi_from_block,
  switch_stack,    \* current_emitting_switch_stack
  fallthrough,     \* current_emitting_switch_fallthrough
  force, passes,   \* is_force_recompile, passes begun
  pc, at,          \* the program: next token; where the SPIR-V function is
  ladders,         \* the ladder variables which are true
  picked           \* by switch, the target its selector leads to

given == <<vars, meta, header_of, content, loop_dominator>>
speculation == <<complex_continue, disable_block_optimization, need_ladder_break,
                 ignore_phi_from_block>>
emission == <<todo, out, speculation, switch_stack, fallthrough, force, passes>>
execution == <<pc, at, ladders, picked>>

\* The SPIR-V function as the emitted program goes through it.
Flow == INSTANCE ControlFlow

-------------------------------------------------------------------------------
\* Fields of a SPIRBlock; NoBlock for a field which is 0.

IsLoopHeader(x) == func[x].merge = "loop"
next_block(x) ==
  IF func[x].merge = "selection" THEN func[x].merge_block
  ELSE IF func[x].terminator = "direct" THEN func[x].targets[1] ELSE NoBlock
merge_block(x) == IF IsLoopHeader(x) THEN func[x].merge_block ELSE NoBlock
true_block(x) == IF func[x].terminator = "select" THEN func[x].targets[1] ELSE NoBlock
false_block(x) == IF func[x].terminator = "select" THEN func[x].targets[2] ELSE NoBlock

\* SPIRBlock::phi_variables has an entry for parent.
flush_phi_required(parent, x) ==
  x \in content.phis /\ x # NoBlock /\ x \in Elements(func[parent].targets)

is_continue(x) == "continue" \in meta[x]
is_loop_break(x) == "loop merge" \in meta[x]
is_break(x) == meta[x] \cap {"loop merge", "switch merge"} # {}
is_conditional(x) == meta[x] \cap {"selection merge", "switch merge"} # {}

\* Every block on the way of direct branches from x to y, y excepted, passes Ok.
IsDirectWay(x, y, Ok(_)) ==
  LET way[z \in Blocks, steps \in 0 .. Cardinality(Blocks)] ==
        \/ z = y
        \/ /\ steps # 0 /\ Ok(z)
           /\ func[z].terminator = "direct" /\ func[z].merge = "none"
           /\ way[func[z].targets[1], steps - 1]
  IN x # NoBlock /\ y # NoBlock /\ way[x, Cardinality(Blocks)]

execution_is_branchless(x, y) == LET Any(z) == TRUE IN IsDirectWay(x, y, Any)

block_is_noop(x) ==
  /\ func[x].terminator = "direct" /\ content.ops[x] = "none"
  /\ LET child == func[x].targets[1]
     IN ~flush_phi_required(x, x) /\ ~flush_phi_required(child, x) /\ ~flush_phi_required(x, child)

execution_is_noop(x, y) == IsDirectWay(x, y, block_is_noop)

execution_is_direct_branch(x, y) ==
  func[x].terminator = "direct" /\ func[x].merge = "none" /\ func[x].targets[1] = y

\* One branch of block x leaves the loop of header h, the other does not.
LeavesBy(x, h, leaving, staying) ==
  /\ staying # merge_block(h) /\ staying # h
  /\ leaving = merge_block(h) \/ execution_is_noop(leaving, merge_block(h))
IsPositiveCandidate(x, h) == LeavesBy(x, h, false_block(x), true_block(x))
IsNegativeCandidate(x, h) == LeavesBy(x, h, true_block(x), false_block(x))

IsCandidate(x) ==
  x \notin disable_block_optimization /\ x \notin complex_continue

\* block_is_loop_candidate(x, MergeToSelectForLoop)
IsSelectFor(x) ==
  /\ IsCandidate(x) /\ func[x].terminator = "select" /\ IsLoopHeader(x)
  /\ IsPositiveCandidate(x, x) \/ IsNegativeCandidate(x, x)
  /\ ~flush_phi_required(x, x) /\ ~flush_phi_required(x, merge_block(x))

\* block_is_loop_candidate(x, MergeToSelectContinueForLoop)
IsSelectContinueFor(x) ==
  /\ IsSelectFor(x)
  /\ func[x].continue_block = IF IsPositiveCandidate(x, x) THEN true_block(x) ELSE false_block(x)

\* block_is_loop_candidate(x, MergeToDirectForLoop)
IsDirectFor(x) ==
  /\ IsCandidate(x) /\ func[x].terminator = "direct" /\ IsLoopHeader(x) /\ block_is_noop(x)
  /\ LET child == func[x].targets[1]
     IN /\ func[child].terminator = "select" /\ func[child].merge = "none"
        /\ IsPositiveCandidate(child, x) \/ IsNegativeCandidate(child, x)
        /\ ~flush_phi_required(x, merge_block(x))
        /\ ~flush_phi_required(false_block(child), merge_block(x))

continue_block_type(x) ==
  LET h == loop_dominator[x]
      Leaves(y) == y = merge_block(h) \/ execution_is_noop(y, merge_block(h))
  IN IF x \in complex_continue THEN "complex"
     ELSE IF IsLoopHeader(x) THEN "while"
     ELSE IF h = NoBlock THEN "complex"
     ELSE IF execution_is_noop(x, h) THEN "while"
     ELSE IF execution_is_branchless(x, h) THEN "for"
     ELSE IF /\ func[x].terminator = "select" /\ func[x].merge = "none"
             /\ ~flush_phi_required(x, true_block(x)) /\ ~flush_phi_required(x, false_block(x))
             /\ \/ true_block(x) = h /\ Leaves(false_block(x))
                \/ false_block(x) = h /\ Leaves(true_block(x))
     THEN "do while" ELSE "complex"

\* CFG::node_terminates_control_flow_in_sub_graph
MergesToNothing(d) ==
  \/ func[d].merge = "none"
  \/ /\ func[func[d].merge_block].terminator = "exit"
     /\ content.exits[func[d].merge_block] = "unreachable"

node_terminates_control_flow_in_sub_graph(x, y) ==
  LET outside == merge_block(x)
      Dominator(z) == LET among[k \in 0 .. Len(preceding[z])] ==
                            IF k = 0 THEN NoBlock ELSE add_block(among[k - 1], preceding[z][k])
                      IN among[Len(preceding[z])]
      Ignored(d, t) == /\ d = x \/ MergesToNothing(d)
                       /\ outside # NoBlock /\ func[d].terminator = "select"
                       /\ execution_is_branchless(t, outside)
      walk[z \in Blocks] ==
        \/ z = x
        \/ LET d == Dominator(z)
           IN /\ d # NoBlock
              /\ \/ func[d].merge # "none" /\ func[d].merge_block = z
                 \/ func[d].terminator = "direct" /\ func[d].targets[1] = z
                 \/ /\ func[d].terminator = "select"
                    /\ \/ true_block(d) = z /\ Ignored(d, false_block(d))
                       \/ false_block(d) = z /\ Ignored(d, true_block(d))
              /\ walk[d]
  IN walk[y]

-------------------------------------------------------------------------------
\* Tokens written by helpers which do not emit blocks.

Run(x) == IF content.ops[x] = "statements" THEN <<Of("run", x)>> ELSE <<>>

flush_phi(x, y) ==
  IF flush_phi_required(x, y) /\ ignore_phi_from_block[y] # x THEN <<Token("phi", x, y)>> ELSE <<>>

\* The blocks emit_continue_block stamps out, up to a loop header; what it throws
\* is a token.  The OpPhi results are flushed for the continue target.  A way without
\* a header has no end: it is cut short after as many steps as there are blocks.
emit_continue_block(c, follow_true, follow_false) ==
  LET Following(x) ==
        IF next_block(x) # NoBlock THEN next_block(x)
        ELSE IF true_block(x) # NoBlock /\ follow_true THEN true_block(x)
        ELSE IF false_block(x) # NoBlock /\ follow_false THEN false_block(x)
        ELSE NoBlock
      stamped[p \in (DOMAIN func) \X (0 .. Cardinality(Blocks))] ==
        IF "header" \in meta[p[1]] THEN <<>>
        ELSE IF Following(p[1]) = NoBlock \/ p[2] = 0 THEN <<Plain("throw")>>
        ELSE Run(p[1]) \o flush_phi(c, Following(p[1])) \o stamped[<<Following(p[1]), p[2] - 1>>]
  IN stamped[<<c, Cardinality(Blocks)>>]

\* What is left to do.
Task(do, x, y) == [do |-> do, x |-> x, y |-> y, token |-> Plain("none")]
Chain(x) == Task("chain", x, NoBlock)
BranchTo(x, y) == Task("branch", x, y)
Later(token) == [do |-> "write", x |-> NoBlock, y |-> NoBlock, token |-> token]

-------------------------------------------------------------------------------
\* The head of a block.  A form is the way it is emitted, with the tokens written.

Form(kind, tokens) == [kind |-> kind, tokens |-> tokens]

\* attempt_emit_loop_header for header x; cond is the block with the condition.
HasSideEffects(cond) ==
  \/ content.ops[cond] = "statements"
  \/ flush_phi_required(cond, true_block(cond)) \/ flush_phi_required(cond, false_block(cond))

attempt_emit_loop_header(x, kind, cond) ==
  LET c == func[x].continue_block
      Condition(plain, negated) ==
        Of(IF execution_is_noop(true_block(cond), merge_block(x)) THEN negated ELSE plain, cond)
      step == IF kind = "select continue for" THEN <<>> ELSE emit_continue_block(c, FALSE, FALSE)
  IN IF HasSideEffects(cond)
     THEN Form("failed", Run(cond) \o (IF kind = "direct for" THEN <<>>
                                       ELSE emit_continue_block(c, TRUE, TRUE)))
     ELSE IF continue_block_type(c) = "for"
     THEN Form(kind, <<Condition("for", "for not")>> \o step \o <<Plain("body")>>)
     ELSE IF continue_block_type(c) = "while"
     THEN Form(kind, <<Condition("while", "while not")>>)
     ELSE Form("failed", <<>>)

\* The continue construct allows a loop with a condition at its head or end.
HasSimpleContinue(x) ==
  IsLoopHeader(x) /\ continue_block_type(func[x].continue_block) # "complex"

FormOf(x) ==
  IF HasSimpleContinue(x) /\ IsSelectContinueFor(x)
  THEN attempt_emit_loop_header(x, "select continue for", x)
  ELSE IF HasSimpleContinue(x) /\ IsSelectFor(x)
  THEN attempt_emit_loop_header(x, "select for", x)
  ELSE IF HasSimpleContinue(x) /\ IsDirectFor(x)
  THEN attempt_emit_loop_header(x, "direct for", func[x].targets[1])
  ELSE IF HasSimpleContinue(x) /\ continue_block_type(func[x].continue_block) = "do while"
  THEN Form("do while", <<Plain("do")>> \o Run(x))
  ELSE IF IsLoopHeader(x) THEN Form("generic", <<Plain("loop")>> \o Run(x))
  ELSE Form("plain", Run(x))

\* The branch of block cond which stays in the loop of header x.
BodyBranch(cond, x) ==
  BranchTo(cond, IF execution_is_noop(true_block(cond), merge_block(x))
                 THEN false_block(cond) ELSE true_block(cond))

-------------------------------------------------------------------------------
\* The end of a block: the tasks its terminator leaves.

\* branch(from, cond, true_block, false_block)
ConditionalBranch(x) ==
  LET merge == next_block(x)
      NeedsCode(y) == y # merge \/ flush_phi_required(x, y)
      t == true_block(x)
      f == false_block(x)
  IN IF NeedsCode(t)
     THEN <<Later(Of("if", x)), BranchTo(x, t)>>
            \o (IF NeedsCode(f) THEN <<Later(Plain("else")), BranchTo(x, f)>> ELSE <<>>)
            \o <<Later(Plain("end"))>>
     ELSE IF NeedsCode(f)
     THEN <<Later(Of("unless", x)), BranchTo(x, f), Later(Plain("end"))>>
     ELSE <<>>

default_block(x) == func[x].targets[1]
Cases(x) == SubSeq(func[x].targets, 2, Len(func[x].targets))

Flatten(s) == LET all[n \in 0 .. Len(s)] == IF n = 0 THEN <<>> ELSE all[n - 1] \o s[n] IN all[Len(s)]

\* The targets with labels, in the order of their labels.  The default block goes
\* next to a case which falls through to it, or to which it falls through.
block_declaration_order(x) ==
  LET d == default_block(x)
      Own(y) == IF y # next_block(x) /\ y # d THEN <<y>> ELSE <<>>
      labels == Flatten([k \in DOMAIN Cases(x) |-> Own(Cases(x)[k])])
      Adjacent(k) == \/ execution_is_direct_branch(labels[k], d)
                     \/ execution_is_direct_branch(d, labels[k])
      near == {k \in DOMAIN labels : Adjacent(k)}
  IN IF d = next_block(x) THEN labels
     ELSE IF near = {} THEN Append(labels, d)
     ELSE LET k == CHOOSE i \in near : \A j \in near : i <= j
              n == IF execution_is_direct_branch(labels[k], d) THEN k ELSE k - 1
          IN SubSeq(labels, 1, n) \o <<d>> \o SubSeq(labels, n + 1, Len(labels))

\* Literals which lead to the merge block although there is a default block.
HasLiteralsToMerge(x) ==
  default_block(x) # next_block(x) /\ next_block(x) \in Elements(Cases(x))

\* Labels which are entered from the switch and from the label before, both with
\* OpPhi results to assign: the switch assigns them before it is entered.
PhiLabels(x, labels) ==
  {k \in DOMAIN labels : /\ content.case_fallthrough /\ k > 1
                         /\ flush_phi_required(x, labels[k])
                         /\ flush_phi_required(labels[k - 1], labels[k])}

\* A switch without cases, and one which does nothing at all.
IsBlockLike(x) == Len(func[x].targets) = 1
IsCollapsed(x) == IsBlockLike(x) /\ default_block(x) = next_block(x)

FallsThrough(labels, k) ==
  /\ content.case_fallthrough /\ k < Len(labels)
  /\ execution_is_direct_branch(labels[k], labels[k + 1])

\* The tokens before the first label.
SwitchHead(x) ==
  LET labels == block_declaration_order(x)
      Assigned(k) == IF k \in PhiLabels(x, labels)
                     THEN <<Token("selects", x, labels[k]), Token("phi", x, labels[k]), Plain("end")>>
                     ELSE <<>>
  IN (IF x \in need_ladder_break THEN <<Of("clear", x)>> ELSE <<>>)
       \o Flatten([k \in DOMAIN labels |-> Assigned(k)])
       \o (IF IsCollapsed(x) THEN <<>> ELSE IF IsBlockLike(x) THEN <<Plain("once")>>
           ELSE <<Of("switch", x)>>)

SwitchTasks(x) ==
  LET labels == block_declaration_order(x)
      Label(y) == IF y = default_block(x)
                  THEN IF IsBlockLike(x) THEN <<>> ELSE <<Later(Of("default", x))>>
                  ELSE <<Later(Token("case", x, y))>>
      Case(k) == Label(labels[k])
                   \o <<Task(IF FallsThrough(labels, k) THEN "fall through" ELSE "break out", x, x),
                        BranchTo(x, labels[k]), Task("break out", x, x)>>
      m == next_block(x)
      needs_phi == flush_phi_required(x, m) /\ (default_block(x) = m \/ HasLiteralsToMerge(x))
      merging == IF ~IsCollapsed(x) /\ (needs_phi \/ HasLiteralsToMerge(x))
                 THEN (IF HasLiteralsToMerge(x) THEN <<Later(Token("case", x, m))>> ELSE <<>>)
                        \o (IF default_block(x) = m THEN <<Later(Of("default", x))>> ELSE <<>>)
                        \o <<Task("flush", x, m), Later(Plain("break"))>>
                 ELSE <<>>
  IN Flatten([k \in DOMAIN labels |-> Case(k)]) \o merging
       \o (IF IsCollapsed(x) THEN <<Task("flush", x, m)>> ELSE <<Later(Plain("end"))>>)
       \o <<Task("leave switch", x, x)>>

\* Mutant: a switch is not seen to have ended.
IsInSwitch_after(x) ==
  LET search[y \in Blocks] ==
        IF func[y].terminator = "multiselect" \/ IsLoopHeader(y)
        THEN func[y].terminator = "multiselect"
        ELSE preceding[y] # <<>> /\ search[idom[y]]
  IN search[x]

\* The search for the construct around an OpUnreachable.
IsInSwitch(x) ==
  LET Outside(m) == m # NoBlock /\ find_common_dominator(m, x) = m
      search[y \in Blocks] ==
        LET m == IF IsLoopHeader(y) THEN merge_block(y) ELSE next_block(y)
        IN IF (func[y].terminator = "multiselect" \/ IsLoopHeader(y)) /\ ~Outside(m)
           THEN func[y].terminator = "multiselect"
           ELSE preceding[y] # <<>> /\ search[idom[y]]
  IN search[x]

\* Mutant: the return at the end of a function is left out in a loop, too.
ExitTokens_in_loop(x) ==
  CASE content.exits[x] = "return" ->
         IF node_terminates_control_flow_in_sub_graph(Entry, x) \/ loop_dominator[x] # NoBlock
         THEN <<>> ELSE <<Plain("return")>>
    [] content.exits[x] = "kill" -> <<Plain("kill")>>
    [] content.exits[x] = "unreachable" -> IF IsInSwitch(x) THEN <<Plain("break")>> ELSE <<>>

ExitTokens(x) ==
  CASE content.exits[x] = "return" ->
         IF /\ node_terminates_control_flow_in_sub_graph(Entry, x) /\ loop_dominator[x] = NoBlock
         THEN <<>> ELSE <<Plain("return")>>
    [] content.exits[x] = "kill" -> <<Plain("kill")>>
    [] content.exits[x] = "unreachable" -> IF IsInSwitch(x) THEN <<Plain("break")>> ELSE <<>>

\* What is left to do for block x after its head.
TerminatorTasks(x, kind) ==
  LET next == next_block(x)
      jumps == is_continue(next) \/ is_break(next) \/ is_conditional(next)
      goes_on == Task("next", x, next)
      c == func[x].continue_block
  IN CASE func[x].terminator = "direct" ->
            IF loop_dominator[x] = next THEN <<BranchTo(x, next)>>
            ELSE IF kind = "direct for" THEN <<>>
            ELSE IF jumps THEN <<BranchTo(x, next)>>
            ELSE <<goes_on>>
       [] func[x].terminator = "select" ->
            (IF kind = "select continue for"
             THEN <<Task("complex", c, c), BodyBranch(x, x), Task("simple", c, c)>>
             ELSE IF kind = "select for" THEN <<BodyBranch(x, x)>>
             ELSE ConditionalBranch(x))
              \o (IF next = NoBlock THEN <<>> ELSE <<goes_on>>)
       [] func[x].terminator = "multiselect" -> SwitchTasks(x) \o <<goes_on>>
       [] func[x].terminator = "exit" -> <<>>

-------------------------------------------------------------------------------
\* The calls.

Calling(do) == stage = "emit" /\ todo # <<>> /\ todo[1].do = do
Now == todo[1]

\* The call writes tokens and leaves tasks, the first of which may be to write.
Proceed(tokens, tasks) ==
  \E text \in {tokens}, left \in {tasks \o Tail(todo)} :
    \E n \in {m \in 0 .. Len(left) : /\ \A k \in 1 .. m : left[k].do = "write"
                                     /\ m < Len(left) => left[m + 1].do # "write"} :
      /\ out' = out \o text \o [k \in 1 .. n |-> left[k].token]
      /\ todo' = SubSeq(left, n + 1, Len(left))
      /\ stage' = IF Plain("throw") \in Elements(text) THEN "thrown" ELSE stage

\* emit_block_chain_inner
emit_block_chain ==
  Calling("chain") /\ \E x \in {Now.x} : \E form \in {FormOf(x)} :
    LET c == func[x].continue_block
        IsSwitch == func[x].terminator = "multiselect"
        labels == block_declaration_order(x)
        first == IF form.kind = "direct for" THEN <<BodyBranch(func[x].targets[1], x)>> ELSE <<>>
        last == IF ~IsLoopHeader(x) THEN <<>>
                ELSE IF form.kind \in {"do while", "failed"} /\ continue_block_type(c) = "do while"
                THEN <<Task("end do", x, c)>> ELSE <<Task("end loop", x, c)>>
    IN /\ Proceed(form.tokens \o (IF IsSwitch THEN SwitchHead(x)
                                 ELSE IF func[x].terminator = "exit" THEN ExitTokens(x) ELSE <<>>),
                  first \o TerminatorTasks(x, form.kind) \o last)
       /\ complex_continue' =
            complex_continue
              \cup (IF IsLoopHeader(x) /\ ~HasSimpleContinue(x) THEN {x} ELSE {})
              \cup (IF form.kind = "generic" THEN {c} ELSE {})
       /\ disable_block_optimization' =
            IF form.kind = "failed" THEN disable_block_optimization \cup {x}
            ELSE disable_block_optimization
       /\ force' = (force \/ form.kind = "failed")
       /\ ignore_phi_from_block' =
            IF IsSwitch
            THEN [y \in Blocks |-> IF \E k \in PhiLabels(x, labels) : labels[k] = y THEN x
                                   ELSE ignore_phi_from_block[y]]
            ELSE ignore_phi_from_block
       /\ switch_stack' = IF IsSwitch THEN Append(switch_stack, x) ELSE switch_stack
       /\ UNCHANGED <<given, need_ladder_break, fallthrough, passes, execution>>

\* Mutant: only the innermost switch is left.
Ladder_innermost(m) ==
  LET n == Len(switch_stack)
      Leaves(k) == /\ loop_dominator[switch_stack[k]] # NoBlock
                   /\ merge_block(loop_dominator[switch_stack[k]]) = m
  IN IF n > 0 /\ Leaves(n) THEN <<switch_stack[n]>> ELSE <<>>

\* The switches around, innermost last, which a break out of the loop with merge
\* block m has to leave one by one.
Ladder(m) ==
  LET Leaves(k) == /\ loop_dominator[switch_stack[k]] # NoBlock
                   /\ merge_block(loop_dominator[switch_stack[k]]) = m
      n == Len(switch_stack)
      held == {k \in 0 .. n : \A j \in k + 1 .. n : Leaves(j)}
      lowest == CHOOSE k \in held : \A j \in held : k <= j
  IN SubSeq(switch_stack, lowest + 1, n)

\* branch(from, to)
branch ==
  LET x == Now.x
      y == Now.y
      phis == flush_phi(x, y)
      ladder == IF is_loop_break(y) THEN Ladder(y) ELSE <<>>
      sets == [k \in DOMAIN ladder |-> Of("set", ladder[Len(ladder) + 1 - k])]
      merges == meta[y] \cap {"loop merge", "switch merge", "selection merge"} # {}
  IN /\ Calling("branch")
     /\ IF "header" \in meta[y] /\ loop_dominator[x] = y
        THEN Proceed(phis \o <<Plain("continue")>>, <<>>) /\ UNCHANGED <<need_ladder_break, force>>
        ELSE IF x # y /\ is_break(y)
        THEN /\ Proceed(phis \o sets \o <<Plain("break")>>, <<>>)
             /\ need_ladder_break' = need_ladder_break \cup Elements(ladder)
             /\ force' = (force \/ ~(Elements(ladder) \subseteq need_ladder_break))
        ELSE /\ Proceed(phis,
                        IF is_continue(y) \/ x = y
                        THEN IF is_continue(y) /\ merges THEN <<>> ELSE <<Task("continue", x, y)>>
                        ELSE IF is_conditional(y) THEN <<>> ELSE <<Chain(y)>>)
             /\ UNCHANGED <<need_ladder_break, force>>
     /\ UNCHANGED <<given, complex_continue, disable_block_optimization, ignore_phi_from_block,
                    switch_stack, fallthrough, passes, execution>>

branch_to_continue ==
  LET x == Now.x
      y == Now.y
      loop == IF IsLoopHeader(x) THEN x ELSE loop_dominator[x]
      outside == loop # NoBlock /\ node_terminates_control_flow_in_sub_graph(loop, x)
  IN /\ Calling("continue")
     /\ IF x = y THEN Proceed(<<>>, <<>>)
        ELSE IF y \in complex_continue THEN Proceed(<<>>, <<Chain(y)>>)
        ELSE Proceed(IF outside THEN <<>> ELSE <<Plain("continue")>>, <<>>)
     /\ UNCHANGED <<given, speculation, switch_stack, fallthrough, force, passes, execution>>

\* The block after a terminator which does not jump.
emit_next_block ==
  LET x == Now.x
      y == Now.y
  IN /\ Calling("next")
     /\ Proceed((IF func[x].merge # "selection" THEN flush_phi(x, y) ELSE <<>>)
                  \o (IF ~fallthrough /\ is_loop_break(y) THEN <<Plain("break")>> ELSE <<>>),
                IF fallthrough \/ is_loop_break(y) THEN <<>>
                ELSE IF is_continue(y) THEN <<Task("continue", x, y)>>
                ELSE IF x = y THEN <<>> ELSE <<Chain(y)>>)
     /\ UNCHANGED <<given, speculation, switch_stack, fallthrough, force, passes, execution>>

\* What follows a loop.
AfterLoop(x) ==
  LET m == merge_block(x) IN IF is_continue(m) THEN <<Task("continue", x, m)>> ELSE <<Chain(m)>>

EndLoop ==
  /\ Calling("end loop")
  /\ Proceed(<<Plain("end")>>, AfterLoop(Now.x))
  /\ UNCHANGED <<given, speculation, switch_stack, fallthrough, force, passes, execution>>

\* The condition of a do while is in the continue block, which must be silent.
EndDo ==
  LET x == Now.x
      c == Now.y
      positive == execution_is_noop(true_block(c), loop_dominator[c])
      stamped == emit_continue_block(c, positive, ~positive)
  IN /\ Calling("end do")
     /\ Proceed((IF Plain("throw") \in Elements(stamped) THEN stamped ELSE <<>>)
                  \o <<Of(IF positive THEN "again if" ELSE "again unless", c)>>, AfterLoop(x))
     /\ complex_continue' = IF stamped = <<>> THEN complex_continue ELSE complex_continue \cup {c}
     /\ force' = (force \/ stamped # <<>>)
     /\ UNCHANGED <<given, disable_block_optimization, need_ladder_break, ignore_phi_from_block,
                    switch_stack, fallthrough, passes, execution>>

\* if (_ladder_break) { break; }
LeaveSwitch ==
  /\ Calling("leave switch")
  /\ Proceed(IF Now.x \in need_ladder_break THEN <<Of("test", Now.x)>> ELSE <<>>, <<>>)
  /\ switch_stack' = SubSeq(switch_stack, 1, Len(switch_stack) - 1)
  /\ UNCHANGED <<given, speculation, fallthrough, force, passes, execution>>

\* The assignments of an edge.
FlushEdge ==
  /\ Calling("flush")
  /\ Proceed(flush_phi(Now.x, Now.y), <<>>)
  /\ UNCHANGED <<given, speculation, switch_stack, fallthrough, force, passes, execution>>

\* Assignments between two calls.
SetFallthrough ==
  /\ Calling("fall through") \/ Calling("break out")
  /\ fallthrough' = (Now.do = "fall through")
  /\ Proceed(<<>>, <<>>)
  /\ UNCHANGED <<given, speculation, switch_stack, force, passes, execution>>

SetComplex ==
  /\ \/ Calling("complex") /\ complex_continue' = complex_continue \cup {Now.x}
     \/ Calling("simple") /\ complex_continue' = complex_continue \ {Now.x}
  /\ Proceed(<<>>, <<>>)
  /\ UNCHANGED <<given, disable_block_optimization, need_ladder_break, ignore_phi_from_block,
                 switch_stack, fallthrough, force, passes, execution>>

\* Mutant: what a pass found out about breaks is forgotten.
Recompile_forgetful ==
  /\ stage = "emit" /\ todo = <<>> /\ force
  /\ passes' = passes + 1 /\ force' = FALSE
  /\ stage' = IF passes' >= MaxIterations THEN "thrown" ELSE stage
  /\ out' = <<>> /\ todo' = <<Chain(Entry)>> /\ switch_stack' = <<>> /\ need_ladder_break' = {}
  /\ UNCHANGED <<given, complex_continue, disable_block_optimization, ignore_phi_from_block,
                 fallthrough, execution>>

\* compile() begins another pass, unless reset() thinks it never ends.
Recompile ==
  /\ stage = "emit" /\ todo = <<>> /\ force
  /\ passes' = passes + 1 /\ force' = FALSE
  /\ stage' = IF passes' >= MaxIterations THEN "thrown" ELSE stage
  /\ out' = <<>> /\ todo' = <<Chain(Entry)>> /\ switch_stack' = <<>>
  /\ UNCHANGED <<given, speculation, fallthrough, execution>>

\* compile() returns the program, which is then called.
Finish ==
  /\ stage = "emit" /\ todo = <<>> /\ ~force
  /\ stage' = "run" /\ pc' = 1 /\ at' = Flow!Start(Entry)
  /\ UNCHANGED <<given, emission, ladders, picked>>

Emit ==
  \/ emit_block_chain \/ branch \/ branch_to_continue \/ emit_next_block \/ EndLoop \/ EndDo
  \/ LeaveSwitch \/ FlushEdge \/ SetFallthrough \/ SetComplex \/ Recompile \/ Finish

-------------------------------------------------------------------------------
\* The emitted program runs.

IsVisibleToken(token) ==
  token.op \in {"run", "phi", "if", "unless", "while", "while not", "for", "for not",
               "again if", "again unless", "selects", "switch", "return", "kill"}

Current == out[pc]
Settled_at == Flow!Settled(at)
Running(ops) ==
  /\ stage = "run" /\ at # Flow!Lost /\ ~Flow!ExitsBy(Settled_at, "unreachable")
  /\ pc <= Len(out) /\ out[pc].op \in ops

\* An assignment before a switch which the selector does not call for: nobody sees
\* it, unless the OpPhi result is in use where the selector leads.
IsIdle(token) ==
  /\ token.op = "phi" /\ picked \notin {NoBlock, token.y}
  /\ find_common_dominator(token.y, picked) # token.y

RunStatements ==
  /\ Running({"run", "phi"})
  /\ at' = IF IsIdle(Current) THEN at
           ELSE IF Current.op = "run" THEN Flow!AfterRun(Settled_at, Current.x)
           ELSE Flow!AfterPhi(Settled_at, Current.x, Current.y)
  /\ pc' = pc + 1
  /\ UNCHANGED <<given, stage, emission, ladders, picked>>

\* A condition is true or false.
Decide ==
  LET x == Current.x
      Opener == OpenerOf(out, pc)
      Negated == Current.op \in {"unless", "while not", "for not", "again unless"}
  IN /\ Running({"if", "unless", "while", "while not", "for", "for not", "again if", "again unless"})
     /\ \E holds \in BOOLEAN :
          /\ at' = Flow!AfterDecision(Settled_at, x, IF holds THEN true_block(x) ELSE false_block(x))
          /\ pc' = IF Current.op \in {"again if", "again unless"}
                   THEN IF holds # Negated THEN Opener + 1 ELSE pc + 1
                   ELSE IF holds # Negated THEN BodyOf(out, pc)
                   ELSE IF Current.op \in {"if", "unless"} THEN ElseOf(out, pc) + 1
                   ELSE CloserOf(out, pc) + 1
     /\ UNCHANGED <<given, stage, emission, ladders, picked>>

\* A selector has a value, which leads to a target.
Select ==
  LET x == Current.x
      d == default_block(x)
      Holds(y) == IF Current.y = d THEN y \in {d, next_block(x)} ELSE y = Current.y
  IN /\ Running({"selects", "switch"})
     /\ \E y \in IF picked = NoBlock THEN Elements(func[x].targets) ELSE {picked} :
          /\ at' = IF picked = NoBlock THEN Flow!AfterDecision(Settled_at, x, y) ELSE at
          /\ IF Current.op = "switch"
             THEN pc' = LabelOf(out, pc, y) + 1 /\ picked' = NoBlock
             ELSE pc' = (IF Holds(y) THEN pc + 1 ELSE CloserOf(out, pc) + 1) /\ picked' = y
     /\ UNCHANGED <<given, stage, emission, ladders>>

\* Everything which neither SPIR-V nor the ladders know of.
Jump ==
  LET op == Current.op
      Opener == OpenerOf(out, pc)
      Broken == CloserOf(out, Around(out, pc, Breakable)) + 1
  IN /\ Running({"loop", "do", "once", "body", "else", "end", "case", "default", "break",
                 "continue", "clear", "set", "test"})
     /\ pc' = CASE op \in {"loop", "do", "once", "case", "default", "clear", "set"} -> pc + 1
                [] op = "body" -> CHOOSE k \in 1 .. pc : BodyOf(out, k) = pc + 1 /\ out[k].op \in {"for", "for not"}
                [] op = "else" -> CloserOf(out, pc)
                [] op = "end" -> IF out[Opener].op \in Loops \ {"once"}
                                 THEN NextIteration(out, Opener) ELSE pc + 1
                [] op = "break" -> Broken
                [] op = "continue" -> NextIteration(out, Around(out, pc, Loops))
                [] op = "test" -> IF Current.x \in ladders THEN Broken ELSE pc + 1
     /\ ladders' = CASE op = "clear" -> ladders \ {Current.x}
                     [] op = "set" -> ladders \cup {Current.x}
                     [] OTHER -> ladders
     /\ UNCHANGED <<given, stage, emission, at, picked>>

\* return, discard, the closing brace, or undefined behaviour.
Exit ==
  /\ stage = "run" /\ at # Flow!Lost
  /\ \/ Flow!ExitsBy(Settled_at, "unreachable") /\ at' = Flow!Done
     \/ /\ ~Flow!ExitsBy(Settled_at, "unreachable")
        /\ pc <= Len(out) => Current.op \in {"return", "kill"}
        /\ at' = Flow!AfterExit(Settled_at, IF pc <= Len(out) THEN Current.op ELSE "return")
  /\ stage' = "end"
  /\ UNCHANGED <<given, emission, pc, ladders, picked>>

Execute == RunStatements \/ Decide \/ Select \/ Jump \/ Exit

-------------------------------------------------------------------------------
StructurizerInit ==
  /\ Init
  /\ \E f \in SourcesOf(func) :
       func = Blocks_of(f) /\ meta = block_meta(f) /\ header_of = header_of_continue(f)
  /\ stage = "cfg"
  /\ content = [ops |-> <<>>, phis |-> {}, exits |-> <<>>, case_fallthrough |-> FALSE]
  /\ loop_dominator = [x \in Blocks |-> NoBlock]
  /\ todo = <<>> /\ out = <<>>
  /\ complex_continue = {} /\ disable_block_optimization = {} /\ need_ladder_break = {}
  /\ ignore_phi_from_block = [x \in Blocks |-> NoBlock]
  /\ switch_stack = <<>> /\ fallthrough = FALSE /\ force = FALSE /\ passes = 0
  /\ pc = 0 /\ at = Flow!Nowhere /\ ladders = {} /\ picked = NoBlock

BuildCFG ==
  /\ stage = "cfg" /\ Next
  /\ UNCHANGED <<meta, header_of, content, loop_dominator, stage, emission, execution>>

\* The analyses are done; compile() begins its first pass.  What is in the blocks is
\* chosen here, where it is first looked at.
BeginEmission ==
  /\ stage = "cfg" /\ phase = "done"
  /\ content' \in Contents(func)
  /\ loop_dominator' =
       [x \in Blocks |-> IF x \notin DOMAIN func THEN NoBlock
                         ELSE IF header_of[x] \notin {NoBlock, x} THEN header_of[x]
                         ELSE find_loop_dominator(x)]
  /\ stage' = "emit" /\ todo' = <<Chain(Entry)>>
  /\ UNCHANGED <<vars, meta, header_of, out, speculation, switch_stack, fallthrough, force, passes, execution>>

StructurizerNext == BuildCFG \/ BeginEmission \/ Emit \/ Execute

structurizer_vars == <<given, stage, emission, execution>>
StructurizerSpec == StructurizerInit /\ [][StructurizerNext]_structurizer_vars
FairStructurizerSpec == StructurizerSpec /\ WF_structurizer_vars(StructurizerNext)

-------------------------------------------------------------------------------
\* The emitted program does what the SPIR-V function does: it runs the blocks, assigns
\* the OpPhi results and decides the branches of an execution of the function in their
\* order, and exits as it does.  A wrong guess of emit_block_chain about the shape of a
\* loop, a break which needs a ladder and a wrong place for the assignments of an edge
\* would show here.
ImplementsControlFlow == Flow!Spec

\* A program does not spin without doing anything, unless the function does: a jump
\* which is left out (the return at the end of a function, the continue at the end of
\* a loop body) is one which the program does not miss.
ProgramsGoOn ==
  []<>(stage = "run" => pc > Len(out) \/ IsVisibleToken(out[pc]) \/ ~Flow!IsVisible(Settled_at))

\* A valid function is compiled: what a pass guesses wrong is settled before
\* force_recompile_max_debug_iterations, and emit_continue_block finds its way.
NeverThrows == stage # "thrown"

\* Every break of the program is in a loop or a switch, every continue in a loop, and
\* every scope which begin_scope opens is closed.
JumpsHaveTargets == stage = "run" => IsWellFormed(out)
===============================================================================
