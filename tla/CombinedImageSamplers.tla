----------------------- MODULE CombinedImageSamplers -----------------------
(***************************************************************************)
(* GLSL has no separate images and samplers.  Traversals of the call graph *)
(* find out which image meets which sampler, through any number of calls,  *)
(* and the text then passes combined samplers in their place:              *)
(*                                                                         *)
(*   dummy         build_dummy_sampler_for_combined_images                 *)
(*   combine       build_combined_image_samplers                           *)
(*   dref, usage,  analyze_image_and_sampler_usage: which resources are    *)
(*   usage again   declared for comparisons                                *)
(*   run           the shader which was written is executed: what each     *)
(*                 sampling samples, beside what SPIR-V says it samples    *)
(*                                                                         *)
(* The lists of combined parameters and samplers, which are searched       *)
(* before anything is added, are sets: declaration and call list them in   *)
(* the same order.                                                         *)
(***************************************************************************)
EXTENDS ShaderCalls

VARIABLES
    shader,                     \* the module, one of Shaders
    stage,                      \* the traversal, or "end" or "thrown"
    stack,                      \* the calls being followed
    dummy_sampler,              \* dummy_sampler_id # 0
    combined_parameters,        \* per function, SPIRFunction::combined_parameters
    do_combined_parameters,     \* per function
    combined_image_samplers,    \* pairs of globals which became uniforms
    dref_combined_samplers,     \* places of the samplings which compare
    dependency_hierarchy,       \* per parameter, the operands passed for it
    comparison_ids,             \* ids declared for comparisons
    bound,                      \* of the execution: <<parameter, global>>
    sampled                     \* of the execution: what was sampled

combining == <<combined_parameters, do_combined_parameters, combined_image_samplers>>
usage == <<dref_combined_samplers, dependency_hierarchy, comparison_ids>>
execution == <<bound, sampled>>
vars == <<shader, stage, stack, dummy_sampler, combining, usage, execution>>

\* Mutant: the uses are followed once
Stages_once == <<"dummy", "combine", "dref", "usage", "run", "end">>
Stages == <<"dummy", "combine", "dref", "usage", "usage again", "run", "end">>

-----------------------------------------------------------------------------
(* The traversal: traverse_all_reachable_opcodes follows every call. *)

(***************************************************************************)
(* remap is the top of parameter_remapping while combining, the globals    *)
(* passed while running; combined the combined samplers passed.            *)
(***************************************************************************)
Frame(f, remap, combined) ==
    [fn |-> f, next |-> 1, remap |-> remap, combined |-> combined]
Empty == [p \in {} |-> p]

Top == stack[Len(stack)]
Caller == stack[Len(stack) - 1]
Ops(f) == shader[f].ops
Op == Ops(Top.fn)[Top.next]
At(kinds) == Top.next <= Len(Ops(Top.fn)) /\ Op.op \in kinds
AtEnd == Top.next > Len(Ops(Top.fn))

Advance == stack' = [stack EXCEPT ![Len(stack)].next = @ + 1]
Push(frame) == stack' = Append(stack, frame)
Return ==
    stack' = [SubSeq(stack, 1, Len(stack) - 1) EXCEPT ![Len(stack) - 1].next = @ + 1]
Start(s) == stage' = s /\ stack' = <<Frame(Main, Empty, Empty)>>

Params(f) == ParamsOf(shader[f])
ParamIndex(f, id) == CHOOSE k \in DOMAIN shader[f].params : shader[f].params[k] = id
SamplerOf(o) == IF o.op = "fetch" THEN Dummy ELSE o.sampler

-----------------------------------------------------------------------------
(* combine *)

\* Mutant: only the arguments of the last call are looked at
remap_parameter_shallow(id) == id

\* What an id stands for in this call
remap_parameter(id) == IF id \in DOMAIN Top.remap THEN Top.remap[id] ELSE id

\* Mutant: an argument which is a parameter itself stays one
push_remap_parameters_as_passed(f, args) ==
    [p \in Params(f) |-> args[ParamIndex(f, p)]]

push_remap_parameters(f, args) ==
    [p \in Params(f) |-> remap_parameter(args[ParamIndex(f, p)])]

(***************************************************************************)
(* A pair as a function sees it: a global by its id, a parameter by its    *)
(* index, which is what the caller's arguments are looked up with.         *)
(***************************************************************************)
CombinedParameter(f, image, sampler) ==
    [global_image |-> image \notin Params(f),
     image_id |-> IF image \in Params(f) THEN ParamIndex(f, image) ELSE image,
     global_sampler |-> sampler \notin Params(f),
     sampler_id |-> IF sampler \in Params(f) THEN ParamIndex(f, sampler) ELSE sampler]

ImageOf(c, args) == IF c.global_image THEN c.image_id ELSE args[c.image_id]
CombinedSamplerOf(c, args) == IF c.global_sampler THEN c.sampler_id ELSE args[c.sampler_id]

\* What registering a pair adds to the parameters of f
register_combined_image_sampler(f, image, sampler) ==
    IF image \in Params(f) \/ sampler \in Params(f)
    THEN {CombinedParameter(f, image, sampler)}
    ELSE {}

\* Mutant: a callee which was processed before is not looked at again
Propagated_first_call(caller, callee, args) ==
    UNION {register_combined_image_sampler(caller, ImageOf(c, args), CombinedSamplerOf(c, args)) :
              c \in {d \in combined_parameters[callee] : do_combined_parameters[callee]}}

\* What a call with these arguments adds to the parameters of its caller
Propagated(caller, callee, args) ==
    UNION {register_combined_image_sampler(caller, ImageOf(c, args), CombinedSamplerOf(c, args)) :
              c \in combined_parameters[callee]}

(***************************************************************************)
(* An image and a sampler meet.  The entry point is on no stack of         *)
(* functions and has no combined parameters.                               *)
(***************************************************************************)
Combine ==
    /\ stage = "combine" /\ At({"sample", "fetch"})
    /\ IF Op.op = "fetch" /\ ~dummy_sampler
       THEN stage' = "thrown" /\ UNCHANGED <<stack, combining>>
       ELSE /\ combined_parameters' =
                  IF Len(stack) > 1 /\ do_combined_parameters[Top.fn]
                  THEN [combined_parameters EXCEPT ![Top.fn] =
                          @ \cup register_combined_image_sampler(Top.fn, Op.image, SamplerOf(Op))]
                  ELSE combined_parameters
            /\ combined_image_samplers' = combined_image_samplers
                  \cup {<<remap_parameter(Op.image), remap_parameter(SamplerOf(Op))>>}
            /\ Advance
            /\ UNCHANGED <<stage, do_combined_parameters>>
    /\ UNCHANGED <<shader, dummy_sampler, usage, execution>>

CombineCall ==
    /\ stage = "combine" /\ At({"call"})
    /\ Push(Frame(Op.callee, push_remap_parameters(Op.callee, Op.args), Empty))
    /\ UNCHANGED <<shader, stage, dummy_sampler, combining, usage, execution>>

(***************************************************************************)
(* end_function_scope: the callee is done for good, its combined           *)
(* parameters become the caller's.                                         *)
(***************************************************************************)
CombineReturn ==
    /\ stage = "combine" /\ Len(stack) > 1 /\ AtEnd
    /\ do_combined_parameters' = [do_combined_parameters EXCEPT ![Top.fn] = FALSE]
    /\ combined_parameters' =
          IF Len(stack) > 2 /\ do_combined_parameters[Caller.fn]
          THEN [combined_parameters EXCEPT ![Caller.fn] =
                  @ \cup Propagated(Caller.fn, Top.fn, Ops(Caller.fn)[Caller.next].args)]
          ELSE combined_parameters
    /\ Return
    /\ UNCHANGED <<shader, stage, dummy_sampler, combined_image_samplers, usage, execution>>

-----------------------------------------------------------------------------
(* dummy and dref *)

\* The traversal for the dummy sampler stops at the first use of one.
FindDummy ==
    /\ stage = "dummy" /\ At({"sample", "fetch"})
    /\ dummy_sampler' = (Op.op = "fetch")
    /\ IF Op.op = "fetch" THEN Start("combine") ELSE Advance /\ UNCHANGED stage
    /\ UNCHANGED <<shader, combining, usage, execution>>

FindDref ==
    /\ stage = "dref" /\ At({"sample", "fetch"})
    /\ dref_combined_samplers' = dref_combined_samplers
          \cup (IF Op.op = "sample" /\ Op.dref THEN {<<Top.fn, Top.next>>} ELSE {})
    /\ Advance
    /\ UNCHANGED <<shader, stage, dummy_sampler, combining, dependency_hierarchy,
                   comparison_ids, execution>>

Call ==
    /\ stage \in {"dummy", "dref"} /\ At({"call"})
    /\ Push(Frame(Op.callee, Empty, Empty))
    /\ UNCHANGED <<shader, stage, dummy_sampler, combining, usage, execution>>

-----------------------------------------------------------------------------
(* usage *)

(***************************************************************************)
(* add_hierarchy_to_comparison_ids: an operand and all it can stand for.   *)
(* A chain of parameters passes a function at most once.                   *)
(***************************************************************************)
WithHierarchy(id) ==
    LET reach[n \in 0 .. Cardinality(Functions)] ==
          IF n = 0 THEN {id}
          ELSE reach[n - 1] \cup UNION {dependency_hierarchy[x] : x \in reach[n - 1]}
    IN  reach[Cardinality(Functions)]

MarkComparisons ==
    /\ stage \in {"usage", "usage again"} /\ At({"sample", "fetch"})
    /\ comparison_ids' = comparison_ids \cup
          IF <<Top.fn, Top.next>> \in dref_combined_samplers
          THEN WithHierarchy(Op.image) \cup WithHierarchy(Op.sampler)
          ELSE {}
    /\ Advance
    /\ UNCHANGED <<shader, stage, dummy_sampler, combining, dref_combined_samplers,
                   dependency_hierarchy, execution>>

\* begin_function_scope with add_dependency for each argument
UsageCall ==
    /\ stage \in {"usage", "usage again"} /\ At({"call"})
    /\ LET argument(p) == Op.args[ParamIndex(Op.callee, p)]
       IN  /\ dependency_hierarchy' =
                [x \in DOMAIN dependency_hierarchy |->
                   dependency_hierarchy[x]
                     \cup (IF x \in Params(Op.callee) THEN {argument(x)} ELSE {})]
           /\ comparison_ids' = comparison_ids
                \cup {p \in Params(Op.callee) : argument(p) \in comparison_ids}
    /\ Push(Frame(Op.callee, Empty, Empty))
    /\ UNCHANGED <<shader, stage, dummy_sampler, combining, dref_combined_samplers, execution>>

NoDependencies == [x \in Ids |-> {}]

\* The combined samplers declared as shadow samplers
ShadowPairs == {c \in combined_image_samplers : c[2] \in comparison_ids}

-----------------------------------------------------------------------------
(* run *)

\* What SPIR-V passes to a callee
Passed(f, args) ==
    LET value(id) == IF id \in Params(Top.fn) THEN Top.remap[id] ELSE id
    IN  [p \in Params(f) |-> value(args[ParamIndex(f, p)])]

\* What SPIR-V says is sampled here
Pair(image, sampler) ==
    LET value(id) == IF id \in Params(Top.fn) THEN Top.remap[id] ELSE id
    IN  <<value(image), value(sampler)>>

\* Mutant: the sampler is not compared
FindCombined_by_image(image, sampler) ==
    {c \in combined_parameters[Top.fn] :
        c.image_id = CombinedParameter(Top.fn, image, sampler).image_id}

FindCombined(image, sampler) ==
    {c \in combined_parameters[Top.fn] : c = CombinedParameter(Top.fn, image, sampler)}

FromParameters(image, sampler) == image \in Params(Top.fn) \/ sampler \in Params(Top.fn)

\* to_combined_image_sampler finds a mapping
IsMapped(image, sampler) ==
    IF FromParameters(image, sampler)
    THEN FindCombined(image, sampler) # {}
    ELSE <<image, sampler>> \in combined_image_samplers

\* The pair behind the combined sampler whose name it returns
to_combined_image_sampler(image, sampler) ==
    IF FromParameters(image, sampler)
    THEN Top.combined[CHOOSE c \in FindCombined(image, sampler) : TRUE]
    ELSE <<image, sampler>>

(***************************************************************************)
(* A sampling instruction.  An image without a sampler goes through        *)
(* convert_separate_image_to_expression.                                   *)
(***************************************************************************)
Sample ==
    /\ stage = "run" /\ At({"sample", "fetch"})
    /\ IF /\ IsMapped(Op.image, SamplerOf(Op))
          /\ Op.op = "fetch" => dummy_sampler
       THEN /\ sampled' = sampled \cup
                  {[spirv |-> Pair(Op.image, SamplerOf(Op)),
                    emitted |-> to_combined_image_sampler(Op.image, SamplerOf(Op)),
                    dref |-> Op.op = "sample" /\ Op.dref]}
            /\ Advance
            /\ UNCHANGED stage
       ELSE stage' = "thrown" /\ UNCHANGED <<stack, sampled>>
    /\ UNCHANGED <<shader, dummy_sampler, combining, usage, bound>>

(***************************************************************************)
(* OpFunctionCall: separate images and samplers are skipped, a combined    *)
(* sampler is passed for each combined parameter of the callee.            *)
(***************************************************************************)
RunCall ==
    /\ stage = "run" /\ At({"call"})
    /\ LET g == Op.callee
           args == Op.args
       IN  IF \A c \in combined_parameters[g] : IsMapped(ImageOf(c, args), CombinedSamplerOf(c, args))
           THEN /\ Push(Frame(g, Passed(g, args),
                          [c \in combined_parameters[g] |->
                             to_combined_image_sampler(ImageOf(c, args), CombinedSamplerOf(c, args))]))
                /\ bound' = bound \cup {<<p, Passed(g, args)[p]>> : p \in Params(g)}
                /\ UNCHANGED stage
           ELSE stage' = "thrown" /\ UNCHANGED <<stack, bound>>
    /\ UNCHANGED <<shader, dummy_sampler, combining, usage, sampled>>

-----------------------------------------------------------------------------
FunctionReturn ==
    /\ stage \in {"dummy", "dref", "usage", "usage again", "run"}
    /\ Len(stack) > 1 /\ AtEnd
    /\ Return
    /\ UNCHANGED <<shader, stage, dummy_sampler, combining, usage, execution>>

\* The second traversal of the usage starts without dependencies.
NextStage ==
    /\ stage \notin {"end", "thrown"}
    /\ Len(stack) = 1 /\ AtEnd
    /\ \E n \in DOMAIN Stages : Stages[n] = stage /\ Start(Stages[n + 1])
    /\ dependency_hierarchy' = NoDependencies
    /\ UNCHANGED <<shader, dummy_sampler, combining, dref_combined_samplers,
                   comparison_ids, execution>>

Init ==
    /\ shader \in Shaders
    /\ stage = "dummy"
    /\ stack = <<Frame(Main, Empty, Empty)>>
    /\ dummy_sampler = FALSE
    /\ combined_parameters = [f \in Functions |-> {}]
    /\ do_combined_parameters = [f \in Functions |-> TRUE]
    /\ combined_image_samplers = {}
    /\ dref_combined_samplers = {}
    /\ dependency_hierarchy = NoDependencies
    /\ comparison_ids = {}
    /\ bound = {}
    /\ sampled = {}

Next ==
    \/ FindDummy
    \/ Combine \/ CombineCall \/ CombineReturn
    \/ FindDref
    \/ MarkComparisons \/ UsageCall
    \/ Sample \/ RunCall
    \/ Call \/ FunctionReturn \/ NextStage

Spec == Init /\ [][Next]_vars

-----------------------------------------------------------------------------
(* Properties *)

(***************************************************************************)
(* The tables keep their types; a parameter stands for a global.           *)
(***************************************************************************)
TypeOK ==
    /\ stage \in {Stages[n] : n \in DOMAIN Stages} \cup {"thrown"}
    /\ stack \in Seq([fn : Functions, next : Nat \ {0},
                      remap : {Empty} \cup UNION {[Params(f) -> Globals] : f \in Functions},
                      combined : {Empty} \cup UNION {[combined_parameters[f] -> Globals \X (Globals \cup {Dummy})] :
                                                       f \in Functions}])
    /\ dummy_sampler \in BOOLEAN
    /\ DOMAIN combined_parameters = Functions
    /\ do_combined_parameters \in [Functions -> BOOLEAN]
    /\ combined_image_samplers \subseteq Globals \X (Globals \cup {Dummy})
    /\ dependency_hierarchy \in [Ids -> SUBSET Operands]
    /\ comparison_ids \subseteq Operands

(***************************************************************************)
(* Whatever the path of calls, an instruction of the text samples the      *)
(* image through the sampler which meet in SPIR-V on that path.            *)
(***************************************************************************)
SamplesTheRightPair == \A s \in sampled : s.emitted = s.spirv

(***************************************************************************)
(* No lookup fails: for every sampling and every call the combined         *)
(* samplers needed were found by the traversals before ("Cannot find       *)
(* mapping for combined sampler", "no dummy sampler has been created").    *)
(***************************************************************************)
NeverThrows == stage # "thrown"

(***************************************************************************)
(* The uniforms reported to the application by                             *)
(* get_combined_image_samplers are the pairs the shader samples, no more   *)
(* and no fewer.                                                           *)
(***************************************************************************)
ListedPairsAreSampled ==
    stage = "end" => combined_image_samplers = {s.spirv : s \in sampled}

(***************************************************************************)
(* A resource is declared for comparisons if some comparison uses it, a    *)
(* parameter if such a resource is passed for it.  Two traversals are      *)
(* needed: one carries the mark from the comparison to what was passed,    *)
(* the other to whatever else that is passed to.                           *)
(***************************************************************************)
ComparisonIsExact ==
    stage = "end" =>
        LET compared == UNION {{s.spirv[1], s.spirv[2]} : s \in {t \in sampled : t.dref}}
        IN  /\ comparison_ids =
                 compared \cup {b[1] : b \in {c \in bound : c[2] \in compared}}
            /\ {s.emitted : s \in {t \in sampled : t.dref}} \subseteq ShadowPairs

=============================================================================
