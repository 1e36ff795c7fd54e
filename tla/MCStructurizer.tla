----------------------------- MODULE MCStructurizer -----------------------------
(***************************************************************************)
(* The functions of MCLoops, with several contents.                        *)
(***************************************************************************)
EXTENDS MCLoops, Structurizer

CONSTANT LostPhis   \* whether the loops of LosesContinuePhi are considered

\* A switch with a default label only may have been a bogus conditional.
MCSourcesOf(f) ==
  {f} \cup {[x \in DOMAIN f |->
              IF f[x].terminator = "multiselect" /\ Len(f[x].targets) = 1 /\ f[x].targets[1] # f[x].merge_block
              THEN [f[x] EXCEPT !.terminator = "select", !.targets = f[x].targets \o f[x].targets]
              ELSE f[x]]}

\* A switch with a default label only, in a loop whose next iteration is begun
\* from the construct of the switch.
ContinuesFromLoneDefault(f) ==
  \E s \in DOMAIN f :
    /\ f[s].terminator = "multiselect" /\ Len(f[s].targets) = 1
    /\ f[s].merge_block # f[s].targets[1]
    /\ LET dom == StructuralDominance(f)
           Inside(h, x) == <<h, x>> \in dom /\ <<f[h].merge_block, x>> \notin dom
       IN \E h \in DOMAIN f :
            /\ f[h].merge = "loop" /\ Inside(h, s)
            /\ \E e \in Edges(f) : Inside(s, e[1]) /\ e[2] \in {h, f[h].continue_block}

\* A loop whose header has a condition and statements, and whose continue block
\* goes back when its condition is false.
InvertsDoWhile(f, c) ==
  \E h \in DOMAIN f :
    /\ f[h].merge = "loop" /\ f[h].terminator = "select"
    /\ c.ops[h] = "statements" \/ \E k \in 1 .. 2 : f[h].targets[k] \in c.phis
    /\ LET k == f[h].continue_block IN f[k].terminator = "select" /\ f[k].targets[2] = h

\* A loop with OpPhi results whose continue target is not the block which goes back.
LosesContinuePhi(f, c) ==
  \E h \in DOMAIN f :
    f[h].merge = "loop" /\ h \in c.phis /\ h \notin Elements(f[f[h].continue_block].targets)

\* Which blocks have no statements, which have OpPhi results, how the exits which
\* are merge blocks exit, and the others.
MCContents(f) ==
  LET ids == DOMAIN f
      merges == {f[h].merge_block : h \in ids}
      headers == {h \in ids : f[h].merge = "loop"}
      joins == ids \ {Entry}
      falls == \E x \in ids : f[x].terminator = "multiselect"
      Content(silent, phis, merged, other, fall) ==
        [ops |-> [x \in ids |-> IF x \in silent THEN "none" ELSE "statements"], phis |-> phis,
         exits |-> [x \in ids |-> IF x \in merges THEN merged ELSE other], case_fallthrough |-> fall]
  IN {c \in UNION {{Content({}, joins, "return", "return", fall),
                    Content(headers, joins \ headers, "unreachable", "return", fall),
                    Content(headers, headers, "return", "return", fall),
                    Content(headers, joins, "kill", "unreachable", fall),
                    Content(ids, {}, "return", "return", fall),
                    Content(ids, joins \ headers, "unreachable", "kill", fall)} : fall \in {FALSE, falls}} :
        ~InvertsDoWhile(f, c) /\ (LostPhis \/ ~LosesContinuePhi(f, c))}

\* They follow the rules the proofs assume.
FollowsEmissionRules(f) ==
  /\ FollowsRules(f) /\ LoopsAreClosed(f) /\ BackEdgesStayInLoops(f) /\ TargetsAreUnique(f)
  /\ ConstructsHaveOneEntry(f) /\ SwitchesHaveMerges(f)
  /\ \A source \in MCSourcesOf(f) : LoopsAreKept(source)

ASSUME RulesAssumption == \A f \in MCLooped : IsStructured(f) => FollowsEmissionRules(f)

\* The rules of structured control flow are checked once, when a function is chosen.
MCInit == StructurizerInit /\ IsStructured(func) /\ ~ContinuesFromLoneDefault(func)
MCSpec ==
  /\ MCInit
  /\ [][StructurizerNext]_structurizer_vars
  /\ WF_structurizer_vars(StructurizerNext)
===============================================================================
