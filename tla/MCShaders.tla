------------------------------ MODULE MCShaders ------------------------------
(***************************************************************************)
(* Shaders of an entry point and two functions, one of which calls the     *)
(* other; each has an image and a sampler as parameters.                   *)
(***************************************************************************)
EXTENDS ShaderCalls

CONSTANTS outer, inner,                     \* the functions
          image, other_image, sampler, other_sampler,
          outer_image, outer_sampler, inner_image, inner_sampler

MCFunctions == {Main, outer, inner}
MCRank == [f \in MCFunctions |-> IF f = Main THEN 2 ELSE IF f = outer THEN 1 ELSE 0]

MCShader(main_ops, outer_ops, inner_ops) ==
    [f \in MCFunctions |->
        IF f = Main THEN [params |-> << >>, ops |-> main_ops]
        ELSE IF f = outer THEN [params |-> <<outer_image, outer_sampler>>, ops |-> outer_ops]
        ELSE [params |-> <<inner_image, inner_sampler>>, ops |-> inner_ops]]

Calls(f, images, samplers) == {Calling(f, <<i, s>>) : i \in images, s \in samplers}
Samplings(images, samplers, drefs) ==
    {Sampling(i, s, d) : i \in images, s \in samplers, d \in drefs}
Fetches(images) == {Fetching(i) : i \in images}
Pairs(S, T) == {<<s, t>> : s \in S, t \in T}

(***************************************************************************)
(* Parameters mixed with globals on every level, with and without a        *)
(* sampler.                                                                *)
(***************************************************************************)
CombiningShaders ==
    LET outer_calls == Calls(inner, {outer_image, image}, {outer_sampler, sampler})
        outer_uses == Samplings({outer_image, image}, {outer_sampler, sampler}, {FALSE})
                        \cup Fetches({outer_image, image})
        inner_uses == Samplings({inner_image, image}, {inner_sampler, sampler}, {FALSE})
                        \cup Fetches({inner_image})
        main_calls == Calls(outer, {image, other_image}, {sampler, other_sampler})
        others == Calls(inner, {other_image}, {sampler, other_sampler})
                    \cup Samplings({image}, {other_sampler}, {FALSE}) \cup Fetches({other_image})
    IN  {MCShader(m, o, i) :
            m \in Pairs(main_calls, main_calls) \cup Pairs(others, main_calls),
            o \in Pairs(outer_calls, outer_calls \cup outer_uses) \cup Pairs(outer_uses, outer_calls),
            i \in {<<u>> : u \in inner_uses}}

(***************************************************************************)
(* Comparisons before and after other uses of the same resources, on every *)
(* level.                                                                  *)
(***************************************************************************)
ComparingShaders ==
    LET outer_calls == Calls(inner, {outer_image}, {outer_sampler, sampler})
        outer_uses == Samplings({outer_image}, {outer_sampler}, BOOLEAN)
        inner_uses == Samplings({inner_image}, {inner_sampler, sampler}, BOOLEAN)
        main_ops == Calls(outer, {image, other_image}, {sampler, other_sampler})
                      \cup Calls(inner, {image, other_image}, {sampler, other_sampler})
                      \cup Samplings({image}, {sampler, other_sampler}, BOOLEAN)
    IN  {MCShader(m, o, i) :
            m \in Pairs(main_ops, main_ops),
            o \in Pairs(outer_calls, outer_calls \cup outer_uses) \cup Pairs(outer_uses, outer_calls),
            i \in {<<u>> : u \in inner_uses}}

SampledShaders == CombiningShaders \cup ComparingShaders
=============================================================================
