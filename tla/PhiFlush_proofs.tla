---------------------------- MODULE PhiFlush_proofs ----------------------------
(***************************************************************************)
(* For all blocks, edges and values: the code flush_phi writes assigns the *)
(* OpPhi results of a block at once.                                       *)
(***************************************************************************)
EXTENDS PhiFlush, TLAPS

Ids == Variables \cup Values
AnyValue == Ids \cup {Stale, Nothing}

TypeInv ==
  /\ join \in Joins /\ phase \in {"emit", "done", "thrown"}
  /\ pass \in 0 .. MaxIterations
  /\ forced \subseteq Values /\ allocated \subseteq Variables
  /\ force \in BOOLEAN /\ progress \in BOOLEAN
  /\ text \in [Values -> {"none", "temporary", "forwarded"}]
  /\ dependees \in [Variables -> SUBSET Values]
  /\ invalid \subseteq Values /\ declared \subseteq Variables
  /\ from \in Parents \cup {Nothing} /\ itr \in Nat \ {0}
  /\ saved \subseteq Variables
  /\ static \in [Variables -> AnyValue] /\ env \in [Variables -> AnyValue]
  /\ copy \in [Variables -> AnyValue]
  /\ written \in [Parents -> SUBSET [Variables -> AnyValue]]
  /\ visits \in [Parents -> Nat]

Fv(k) == join.phis[k].function_variable
Lv(k) == join.phis[k].local_variable

\* An entry of this edge which has been dealt with.
Done(k) == k \in DOMAIN join.phis /\ k < itr /\ join.phis[k].parent = from

\* A forwarded text is known to the variables it reads until one of them is written.
Tracked ==
  \A e \in Values : \A v \in join.reads[e] :
    text[e] = "forwarded" => e \in dependees[v] \cup invalid

\* What has not been written is as it was; what has been written has its new value,
\* has been copied if need be, and no text which reads it is valid.
EdgeInv ==
  /\ \A v \in Variables : (\A k \in DOMAIN join.phis : Done(k) => Fv(k) # v)
                            => env[v] = v /\ static[v] = Nothing
  /\ \A k \in DOMAIN join.phis : Done(k) =>
       /\ \A e \in Values : Fv(k) \in join.reads[e] /\ text[e] = "forwarded" => e \in invalid
       /\ IsStatic(Fv(k)) => static[Fv(k)] = Lv(k)
       /\ ~IsStatic(Fv(k)) => /\ static[Fv(k)] = Nothing
                              /\ ~force => env[Fv(k)] = Lv(k)
                              /\ \A l \in DOMAIN join.phis :
                                   l >= itr /\ join.phis[l].parent = from /\ Lv(l) = Fv(k)
                                   => Fv(k) \in saved
  /\ \A v \in saved : copy[v] = v

\* The copies of this pass are declared unless another pass follows.
CopyInv == saved \subseteq allocated /\ (~force => allocated \subseteq declared)

\* An edge which has been written has the meaning of the OpPhi instructions.
WrittenInv ==
  ~force => \A p \in Parents : written[p] # {} => written[p] = {Meaning!Assigned(join, p)}

\* Entry k of a variable of the output needs a copy.
Demands(k) ==
  /\ ~(Fv(k) \in join.loop_variables /\ join.phis[k].parent \in join.outside)
  /\ \E l \in DOMAIN join.phis :
       l > k /\ join.phis[l].parent = join.phis[k].parent /\ Lv(l) = Fv(k)

\* The first pass finds all copies; the later ones claim progress.
ProgressInv ==
  /\ \A k \in DOMAIN join.phis :
       /\ Demands(k)
       /\ pass > 0 \/ written[join.phis[k].parent] # {} \/ Done(k)
       => Fv(k) \in allocated
  /\ pass > 0 /\ force => progress
  /\ phase # "thrown"

IInv == TypeInv /\ Tracked /\ (from # Nothing => EdgeInv) /\ CopyInv /\ WrittenInv /\ ProgressInv

-------------------------------------------------------------------------------
\* What is known of a block.
LEMMA JoinFacts ==
  ASSUME join \in Joins
  PROVE /\ \A k \in DOMAIN join.phis : /\ k \in Nat \ {0} /\ k <= Len(join.phis)
                                       /\ Fv(k) \in Variables /\ Lv(k) \in Ids
                                       /\ join.phis[k].parent \in Parents
        /\ Len(join.phis) \in Nat /\ DOMAIN join.phis = 1 .. Len(join.phis)
        /\ \A k, l \in DOMAIN join.phis :
             join.phis[k].parent = join.phis[l].parent /\ Fv(k) = Fv(l) => k = l
        /\ \A k \in DOMAIN join.phis :
             join.phis[k].parent \in join.outside => Lv(k) \in Values
        /\ \A e \in Values : join.reads[e] \subseteq Variables
<1>1. JoinOK(join)
  BY PhiAssumption
<1>2. join.phis \in Seq([local_variable : Ids, parent : Parents, function_variable : Variables])
  BY <1>1 DEF JoinOK, Ids
<1>3. \A k \in DOMAIN join.phis :
        join.phis[k] \in [local_variable : Ids, parent : Parents, function_variable : Variables]
  <2> DEFINE Entry == [local_variable : Ids, parent : Parents, function_variable : Variables]
             phis == join.phis
  <2>1. phis \in Seq(Entry)
    BY <1>2
  <2> HIDE DEF Entry, phis
  <2>2. \A k \in DOMAIN phis : phis[k] \in Entry
    BY <2>1
  <2> QED
    BY <2>2 DEF Entry, phis
<1>4. Len(join.phis) \in Nat /\ DOMAIN join.phis = 1 .. Len(join.phis)
  BY <1>2
<1>5. \A k, l \in DOMAIN join.phis :
        join.phis[k].parent = join.phis[l].parent /\ Fv(k) = Fv(l) => k = l
  BY <1>1 DEF JoinOK, Fv
<1>6. \A k \in DOMAIN join.phis : join.phis[k].parent \in join.outside => Lv(k) \in Values
  BY <1>1 DEF JoinOK, Lv
<1>7. \A e \in Values : join.reads[e] \subseteq Variables
  BY <1>1 DEF JoinOK
<1> QED
  BY <1>3, <1>4, <1>5, <1>6, <1>7 DEF Fv, Lv

\* The initial state satisfies the invariant.
LEMMA InitIInv == PhiInit => IInv
<1> SUFFICES ASSUME PhiInit PROVE IInv
  OBVIOUS
<1>1. TypeInv
  <2>1. 0 \in 0 .. MaxIterations
    BY PhiAssumption
  <2>2. Old \in [Variables -> AnyValue] /\ NoValues \in [Variables -> AnyValue]
    BY DEF Old, NoValues, AnyValue, Ids
  <2>3. written \in [Parents -> SUBSET [Variables -> AnyValue]]
    BY DEF PhiInit
  <2>4. /\ text \in [Values -> {"none", "temporary", "forwarded"}]
        /\ dependees \in [Variables -> SUBSET Values] /\ visits \in [Parents -> Nat]
    BY DEF PhiInit
  <2>5. /\ env \in [Variables -> AnyValue] /\ copy \in [Variables -> AnyValue]
        /\ static \in [Variables -> AnyValue]
    BY <2>2 DEF PhiInit
  <2>6. pass \in 0 .. MaxIterations /\ itr \in Nat \ {0}
    BY <2>1 DEF PhiInit
  <2> QED
    BY <2>3, <2>4, <2>5, <2>6 DEF PhiInit, TypeInv
<1>2. Tracked /\ CopyInv /\ WrittenInv /\ from = Nothing
  BY JoinFacts DEF PhiInit, Tracked, CopyInv, WrittenInv
<1>3. ProgressInv
  BY JoinFacts, PhiAssumption DEF PhiInit, ProgressInv, Done
<1> QED
  BY <1>1, <1>2, <1>3 DEF IInv

-------------------------------------------------------------------------------
\* Every step keeps the types.
LEMMA TypeStep == TypeInv /\ [PhiNext]_phi_vars => TypeInv'
<1> SUFFICES ASSUME TypeInv, [PhiNext]_phi_vars PROVE TypeInv'
  OBVIOUS
<1> USE JoinFacts, PhiAssumption
<1>1. ASSUME NEW e \in Values, EmitValue(e) PROVE TypeInv'
  BY <1>1 DEF EmitValue, TypeInv, compiler, edge
<1>2. ASSUME NEW p \in Parents, BeginFlush(p) PROVE TypeInv'
  BY <1>2 DEF BeginFlush, TypeInv, compiler, tables, Old, NoValues, AnyValue, Ids
<1>3. CASE SkipEntry
  BY <1>3 DEF SkipEntry, TypeInv, compiler, tables
<1>4. CASE SetStatic
  <2>1. itr \in DOMAIN join.phis /\ Fv(itr) \in Variables /\ Lv(itr) \in AnyValue
    BY <1>4 DEF SetStatic, AtEntry, TypeInv, AnyValue
  <2>2. static' \in [Variables -> AnyValue]
    BY <1>4, <2>1 DEF SetStatic, Phi, Fv, Lv, TypeInv
  <2>3. dependees' \in [Variables -> SUBSET Values] /\ invalid' \subseteq Values
    BY <1>4, <2>1 DEF SetStatic, register_write, Phi, Fv, TypeInv
  <2> QED
    BY <1>4, <2>2, <2>3 DEF SetStatic, TypeInv, compiler
<1>5. CASE AssignVariable
  <2>1. itr \in DOMAIN join.phis /\ Fv(itr) \in Variables /\ Lv(itr) \in Ids
    BY <1>5 DEF AssignVariable, AtEntry, TypeInv
  <2>2. /\ saved' \subseteq Variables /\ allocated' \subseteq Variables
        /\ copy' \in [Variables -> AnyValue]
    BY <1>5, <2>1 DEF AssignVariable, AllocateCopy, Phi, Fv, TypeInv
  <2>3. Read(Phi.local_variable) \in AnyValue
    BY <1>5, <2>1, <2>2 DEF Read, Phi, Lv, TypeInv, AnyValue, Ids
  <2>4. env' \in [Variables -> AnyValue]
    BY <1>5, <2>1, <2>3 DEF AssignVariable, Phi, Fv, TypeInv
  <2>5. dependees' \in [Variables -> SUBSET Values] /\ invalid' \subseteq Values
    BY <1>5, <2>1 DEF AssignVariable, register_write, Phi, Fv, TypeInv
  <2>6. forced' \subseteq Values /\ force' \in BOOLEAN /\ progress' \in BOOLEAN
    BY <1>5, <2>1 DEF AssignVariable, AllocateCopy, NoteRead, NeedsCopy, TypeInv
  <2> QED
    BY <1>5, <2>2, <2>4, <2>5, <2>6 DEF AssignVariable, TypeInv
<1>6. CASE EndFlush
  <2>1. from \in Parents
    BY <1>6 DEF EndFlush, TypeInv
  <2>2. [v \in Variables |-> IF static[v] = Nothing THEN env[v] ELSE static[v]]
          \in [Variables -> AnyValue]
    BY DEF TypeInv
  <2> QED
    BY <1>6, <2>1, <2>2 DEF EndFlush, TypeInv, compiler, tables
<1>7. CASE Recompile
  <2>1. pass' \in 0 .. MaxIterations
    <3>1. MaxIterations \in Nat /\ pass \in 0 .. MaxIterations
      BY DEF TypeInv
    <3> QED
      BY <1>7, <3>1 DEF Recompile
  <2>2. CASE phase' = "thrown" /\ UNCHANGED <<allocated, force, progress, tables, written, visits>>
    BY <1>7, <2>1, <2>2 DEF Recompile, TypeInv, edge, tables
  <2>3. CASE /\ Reset /\ force' = FALSE /\ progress' = FALSE
             /\ text' = [e \in Values |-> "none"] /\ dependees' = [v \in Variables |-> {}]
             /\ invalid' = {} /\ written' = [p \in Parents |-> {}]
             /\ visits' = [p \in Parents |-> 0] /\ UNCHANGED phase
    <3>1. written' \in [Parents -> SUBSET [Variables -> AnyValue]]
      BY <2>3
    <3> QED
      BY <1>7, <2>1, <2>3, <3>1 DEF Recompile, Reset, TypeInv, edge
  <2> QED
    BY <1>7, <2>2, <2>3 DEF Recompile
<1>8. CASE Finish
  BY <1>8 DEF Finish, TypeInv, compiler, tables, edge
<1>9. CASE UNCHANGED phi_vars
  BY <1>9 DEF phi_vars, TypeInv, compiler, tables, edge
<1> QED
  BY <1>1, <1>2, <1>3, <1>4, <1>5, <1>6, <1>7, <1>8, <1>9 DEF PhiNext

-------------------------------------------------------------------------------
\* A write moves the values which depend on the variable to the invalid ones.
LEMMA RegisterWriteTracks ==
  ASSUME TypeInv, Tracked, NEW v \in Variables, register_write(v), UNCHANGED <<join, text>>
  PROVE /\ Tracked' /\ invalid \subseteq invalid'
        /\ \A e \in Values : v \in join.reads[e] /\ text[e] = "forwarded" => e \in invalid'
<1>1. \A w \in Variables : dependees[w] \cup invalid \subseteq dependees'[w] \cup invalid'
  BY DEF register_write, TypeInv
<1>2. dependees'[v] = {}
  BY DEF register_write, TypeInv
<1>3. \A e \in Values : join.reads[e] \subseteq Variables
  BY JoinFacts DEF TypeInv
<1>4. Tracked'
  BY <1>1, <1>3 DEF Tracked
<1>5. \A e \in Values : v \in join.reads[e] /\ text[e] = "forwarded" => e \in invalid'
  BY <1>2, <1>4 DEF Tracked
<1> QED
  BY <1>4, <1>5 DEF register_write

\* Every step keeps track of the texts which read a variable.
LEMMA TrackedStep == TypeInv /\ Tracked /\ [PhiNext]_phi_vars => Tracked'
<1> SUFFICES ASSUME TypeInv, Tracked, [PhiNext]_phi_vars PROVE Tracked'
  OBVIOUS
<1>0. \A e \in Values : join.reads[e] \subseteq Variables
  BY JoinFacts DEF TypeInv
<1>1. ASSUME NEW e \in Values, EmitValue(e) PROVE Tracked'
  <2> SUFFICES ASSUME NEW x \in Values, NEW v \in join.reads[x], text'[x] = "forwarded"
               PROVE x \in dependees'[v] \cup invalid'
    BY <1>1 DEF Tracked, EmitValue
  <2>1. v \in Variables
    BY <1>0
  <2>2. CASE x = e
    BY <1>1, <2>1, <2>2 DEF EmitValue, TypeInv
  <2>3. CASE x # e
    BY <1>1, <2>1, <2>3 DEF EmitValue, TypeInv, Tracked
  <2> QED
    BY <2>2, <2>3
<1>2. ASSUME NEW p \in Parents, BeginFlush(p) PROVE Tracked'
  BY <1>2 DEF BeginFlush, tables, Tracked
<1>3. CASE SkipEntry
  BY <1>3 DEF SkipEntry, tables, Tracked
<1>4. CASE SetStatic
  BY <1>4, JoinFacts, RegisterWriteTracks DEF SetStatic, AtEntry, Phi, Fv, TypeInv
<1>5. CASE AssignVariable
  BY <1>5, JoinFacts, RegisterWriteTracks DEF AssignVariable, AtEntry, Phi, Fv, TypeInv
<1>6. CASE EndFlush
  BY <1>6 DEF EndFlush, tables, Tracked
<1>7. CASE Recompile
  BY <1>7 DEF Recompile, tables, Tracked
<1>8. CASE Finish
  BY <1>8 DEF Finish, tables, Tracked
<1>9. CASE UNCHANGED phi_vars
  BY <1>9 DEF phi_vars, tables, Tracked
<1> QED
  BY <1>1, <1>2, <1>3, <1>4, <1>5, <1>6, <1>7, <1>8, <1>9 DEF PhiNext

\* The entry which is looked at was not dealt with, nor was another one for its variable.
LEMMA FreshEntry ==
  ASSUME TypeInv, AtEntry, Phi.parent = from, EdgeInv
  PROVE /\ itr \in DOMAIN join.phis /\ Fv(itr) \in Variables /\ Lv(itr) \in Ids
        /\ \A k \in DOMAIN join.phis : Done(k) => Fv(k) # Fv(itr)
        /\ env[Fv(itr)] = Fv(itr) /\ static[Fv(itr)] = Nothing
        /\ UNCHANGED <<join, from>> /\ itr' = itr + 1 =>
             \A k \in DOMAIN join.phis : Done(k)' <=> k = itr \/ Done(k)
<1>1. itr \in DOMAIN join.phis /\ Fv(itr) \in Variables /\ Lv(itr) \in Ids
  BY JoinFacts DEF AtEntry, TypeInv
<1>2. \A k \in DOMAIN join.phis : Done(k) => Fv(k) # Fv(itr)
  BY <1>1, JoinFacts DEF Done, Phi, TypeInv
<1>3. env[Fv(itr)] = Fv(itr) /\ static[Fv(itr)] = Nothing
  BY <1>1, <1>2 DEF EdgeInv
<1>4. ASSUME UNCHANGED <<join, from>> /\ itr' = itr + 1, NEW k \in DOMAIN join.phis
      PROVE Done(k)' <=> k = itr \/ Done(k)
  BY <1>1, <1>4, JoinFacts DEF Done, Phi, TypeInv
<1> QED
  BY <1>1, <1>2, <1>3, <1>4

-------------------------------------------------------------------------------
\* At an edge, what an entry names is read as it was when the edge began, or another
\* pass follows.
LEMMA ReadsTheOldValue ==
  ASSUME TypeInv, Tracked, EdgeInv, AssignVariable
  PROVE /\ \A v \in saved' : copy'[v] = v
        /\ ~force' => Read(Lv(itr)) = Lv(itr)
<1>0. AtEntry /\ Phi.parent = from
  BY DEF AssignVariable
<1>1. /\ itr \in DOMAIN join.phis /\ Fv(itr) \in Variables /\ Lv(itr) \in Ids
      /\ env[Fv(itr)] = Fv(itr)
  BY <1>0, FreshEntry
<1>2. \A v \in saved' : copy'[v] = v
  BY <1>1 DEF AssignVariable, EdgeInv, TypeInv, Phi, Fv
<1>3. ASSUME ~force' PROVE Read(Lv(itr)) = Lv(itr)
  <2>1. ~force /\ Lv(itr) \notin invalid
    BY <1>3 DEF AssignVariable, AllocateCopy, NoteRead, Phi, Lv
  <2>2. CASE Lv(itr) \in saved'
    BY <1>2, <2>2 DEF Read
  <2>3. CASE Lv(itr) \in Variables \ saved'
    <3>1. \A k \in DOMAIN join.phis : Done(k) => Fv(k) # Lv(itr)
      <4> SUFFICES ASSUME NEW k \in DOMAIN join.phis, Done(k), Fv(k) = Lv(itr) PROVE FALSE
        OBVIOUS
      <4>1. from \notin join.outside
        BY <1>0, <1>1, <2>3, JoinFacts, PhiAssumption DEF Phi, TypeInv
      <4>2. ~IsStatic(Fv(k))
        BY <4>1 DEF IsStatic
      <4>3. Fv(k) \in saved
        BY <1>0, <1>1, <4>2 DEF EdgeInv, Phi, TypeInv
      <4> QED
        BY <2>3, <4>3 DEF AssignVariable
    <3> QED
      BY <2>3, <3>1 DEF Read, EdgeInv
  <2>4. CASE Lv(itr) \in Values /\ Lv(itr) \notin saved'
    <3>1. Lv(itr) \notin Variables
      BY <2>4, PhiAssumption
    <3>2. ASSUME text[Lv(itr)] = "forwarded", NEW v \in join.reads[Lv(itr)], env[v] # v PROVE FALSE
      <4>1. v \in Variables
        BY <2>4, JoinFacts DEF TypeInv
      <4>2. PICK k \in DOMAIN join.phis : Done(k) /\ Fv(k) = v
        BY <3>2, <4>1 DEF EdgeInv
      <4> QED
        BY <2>1, <2>4, <3>2, <4>2 DEF EdgeInv
    <3> QED
      BY <2>4, <3>1, <3>2 DEF Read
  <2> QED
    BY <1>1, <2>2, <2>3, <2>4 DEF Ids
<1> QED
  BY <1>2, <1>3

\* Every step keeps what is known of the edge being written.
LEMMA EdgeStep ==
  ASSUME TypeInv, Tracked, from # Nothing => EdgeInv, [PhiNext]_phi_vars
  PROVE from' # Nothing => EdgeInv'
<1> SUFFICES ASSUME from' # Nothing PROVE EdgeInv'
  OBVIOUS
<1>1. ASSUME NEW e \in Values, EmitValue(e) PROVE FALSE
  BY <1>1 DEF EmitValue, edge
<1>2. ASSUME NEW p \in Parents, BeginFlush(p) PROVE EdgeInv'
  <2>1. \A k \in DOMAIN join.phis : ~Done(k)'
    BY <1>2, JoinFacts DEF BeginFlush, Done, TypeInv
  <2>2. join' = join /\ \A v \in Variables : env'[v] = v /\ static'[v] = Nothing
    BY <1>2 DEF BeginFlush, Old, NoValues
  <2> QED
    BY <1>2, <2>1, <2>2 DEF BeginFlush, EdgeInv
<1>3. CASE SkipEntry
  <2>1. \A k \in DOMAIN join.phis : Done(k)' <=> Done(k)
    BY <1>3, JoinFacts DEF SkipEntry, AtEntry, Phi, Done, TypeInv
  <2>2. EdgeInv /\ itr' = itr + 1 /\ itr \in Nat
    BY <1>3 DEF SkipEntry, AtEntry, TypeInv
  <2>3. \A l \in DOMAIN join.phis : l >= itr' => l >= itr
    BY <2>2, JoinFacts DEF TypeInv
  <2> QED
    BY <1>3, <2>1, <2>2, <2>3
    DEF SkipEntry, EdgeInv, tables, compiler, IsStatic, Fv, Lv
<1>4. CASE SetStatic
  <2>0. AtEntry /\ Phi.parent = from /\ EdgeInv /\ IsStatic(Fv(itr)) /\ itr' = itr + 1
        /\ UNCHANGED <<join, from, text, env, copy, saved, force>>
        /\ static' = [static EXCEPT ![Fv(itr)] = Lv(itr)]
    BY <1>4 DEF SetStatic, AtEntry, Phi, Fv, Lv, compiler
  <2>1. /\ itr \in DOMAIN join.phis /\ Fv(itr) \in Variables /\ Lv(itr) \in Ids
        /\ \A k \in DOMAIN join.phis : Done(k) => Fv(k) # Fv(itr)
        /\ \A k \in DOMAIN join.phis : Done(k)' <=> k = itr \/ Done(k)
    BY <2>0, FreshEntry
  <2>2. /\ invalid \subseteq invalid'
        /\ \A e \in Values : Fv(itr) \in join.reads[e] /\ text[e] = "forwarded" => e \in invalid'
    BY <1>4, <2>0, <2>1, RegisterWriteTracks DEF SetStatic, Phi, Fv
  <2>3. ASSUME NEW v \in Variables, \A k \in DOMAIN join.phis : Done(k)' => Fv(k) # v
        PROVE env'[v] = v /\ static'[v] = Nothing
    BY <2>0, <2>1, <2>3 DEF EdgeInv, TypeInv
  <2>4. ASSUME NEW k \in DOMAIN join.phis, Done(k)'
        PROVE /\ \A e \in Values : Fv(k) \in join.reads[e] /\ text[e] = "forwarded" => e \in invalid'
              /\ IsStatic(Fv(k)) => static'[Fv(k)] = Lv(k)
              /\ ~IsStatic(Fv(k)) => /\ static'[Fv(k)] = Nothing
                                     /\ ~force => env[Fv(k)] = Lv(k)
                                     /\ \A l \in DOMAIN join.phis :
                                          l >= itr' /\ join.phis[l].parent = from /\ Lv(l) = Fv(k)
                                          => Fv(k) \in saved
    <3>1. CASE k = itr
      BY <2>0, <2>1, <2>2, <3>1 DEF TypeInv
    <3>2. CASE Done(k)
      <4>1. Fv(k) # Fv(itr) /\ Fv(k) \in Variables
        BY <2>1, <3>2, JoinFacts DEF TypeInv
      <4>2. static'[Fv(k)] = static[Fv(k)]
        BY <2>0, <4>1 DEF TypeInv
      <4>3. \A l \in DOMAIN join.phis : l >= itr' => l >= itr
        BY <2>0, JoinFacts DEF TypeInv
      <4> QED
        BY <2>0, <2>2, <3>2, <4>2, <4>3 DEF EdgeInv
    <3> QED
      BY <2>1, <2>4, <3>1, <3>2
  <2>5. \A v \in saved' : copy'[v] = v
    BY <2>0 DEF EdgeInv
  <2> QED
    BY <2>0, <2>3, <2>4, <2>5 DEF EdgeInv, IsStatic, Fv, Lv
<1>5. CASE AssignVariable
  <2>0. AtEntry /\ Phi.parent = from /\ EdgeInv /\ ~IsStatic(Fv(itr)) /\ itr' = itr + 1
        /\ UNCHANGED <<join, from, text, static>>
        /\ env' = [env EXCEPT ![Fv(itr)] = Read(Lv(itr))]
        /\ saved' = saved \cup (IF NeedsCopy(Fv(itr)) THEN {Fv(itr)} ELSE {})
        /\ (~force' => ~force)
    BY <1>5 DEF AssignVariable, AtEntry, Phi, Fv, Lv, AllocateCopy, NoteRead
  <2>1. /\ itr \in DOMAIN join.phis /\ Fv(itr) \in Variables /\ Lv(itr) \in Ids
        /\ static[Fv(itr)] = Nothing
        /\ \A k \in DOMAIN join.phis : Done(k) => Fv(k) # Fv(itr)
        /\ \A k \in DOMAIN join.phis : Done(k)' <=> k = itr \/ Done(k)
    BY <2>0, FreshEntry
  <2>2. /\ invalid \subseteq invalid'
        /\ \A e \in Values : Fv(itr) \in join.reads[e] /\ text[e] = "forwarded" => e \in invalid'
    BY <1>5, <2>0, <2>1, RegisterWriteTracks DEF AssignVariable, Phi, Fv
  <2>3. ASSUME NEW v \in Variables, \A k \in DOMAIN join.phis : Done(k)' => Fv(k) # v
        PROVE env'[v] = v /\ static'[v] = Nothing
    BY <2>0, <2>1, <2>3 DEF EdgeInv, TypeInv
  <2>4. ASSUME NEW k \in DOMAIN join.phis, Done(k)'
        PROVE /\ \A e \in Values : Fv(k) \in join.reads[e] /\ text[e] = "forwarded" => e \in invalid'
              /\ IsStatic(Fv(k)) => static'[Fv(k)] = Lv(k)
              /\ ~IsStatic(Fv(k)) => /\ static'[Fv(k)] = Nothing
                                     /\ ~force' => env'[Fv(k)] = Lv(k)
                                     /\ \A l \in DOMAIN join.phis :
                                          l >= itr' /\ join.phis[l].parent = from /\ Lv(l) = Fv(k)
                                          => Fv(k) \in saved'
    <3>1. CASE k = itr
      <4>1. ~force' => env'[Fv(k)] = Lv(k)
        BY <1>5, <2>0, <2>1, <3>1, ReadsTheOldValue DEF TypeInv
      <4>2. ASSUME NEW l \in DOMAIN join.phis, l >= itr', join.phis[l].parent = from, Lv(l) = Fv(k)
            PROVE Fv(k) \in saved'
        <5>1. l > itr
          BY <2>0, <2>1, <4>2, JoinFacts DEF TypeInv
        <5> QED
          BY <2>0, <3>1, <4>2, <5>1 DEF NeedsCopy, Lv
      <4> QED
        BY <2>0, <2>1, <2>2, <3>1, <4>1, <4>2
    <3>2. CASE Done(k)
      <4>1. Fv(k) # Fv(itr) /\ Fv(k) \in Variables
        BY <2>1, <3>2, JoinFacts DEF TypeInv
      <4>2. env'[Fv(k)] = env[Fv(k)]
        BY <2>0, <4>1 DEF TypeInv
      <4>3. \A l \in DOMAIN join.phis : l >= itr' => l >= itr
        BY <2>0, JoinFacts DEF TypeInv
      <4> QED
        BY <2>0, <2>2, <3>2, <4>2, <4>3 DEF EdgeInv
    <3> QED
      BY <2>1, <2>4, <3>1, <3>2
  <2>5. \A v \in saved' : copy'[v] = v
    BY <1>5, <2>0, ReadsTheOldValue
  <2> QED
    BY <2>0, <2>3, <2>4, <2>5 DEF EdgeInv, IsStatic, Fv, Lv
<1>6. CASE EndFlush
  BY <1>6 DEF EndFlush
<1>7. CASE Recompile
  BY <1>7 DEF Recompile, AllWritten, edge
<1>8. CASE Finish
  BY <1>8 DEF Finish, AllWritten, edge
<1>9. CASE UNCHANGED phi_vars
  BY <1>9 DEF phi_vars, compiler, tables, edge, EdgeInv, Done, IsStatic, Fv, Lv
<1> QED
  BY <1>1, <1>2, <1>3, <1>4, <1>5, <1>6, <1>7, <1>8, <1>9 DEF PhiNext

-------------------------------------------------------------------------------
\* Every step keeps the copies of this pass declared, or asks for another pass.
LEMMA CopyStep == TypeInv /\ CopyInv /\ [PhiNext]_phi_vars => CopyInv'
<1> SUFFICES ASSUME TypeInv, CopyInv, [PhiNext]_phi_vars PROVE CopyInv'
  OBVIOUS
<1>1. ASSUME NEW e \in Values, EmitValue(e) PROVE CopyInv'
  BY <1>1 DEF EmitValue, CopyInv, compiler, edge
<1>2. ASSUME NEW p \in Parents, BeginFlush(p) PROVE CopyInv'
  BY <1>2 DEF BeginFlush, CopyInv, compiler, tables
<1>3. CASE SkipEntry
  BY <1>3 DEF SkipEntry, CopyInv, compiler, tables
<1>4. CASE SetStatic
  BY <1>4 DEF SetStatic, CopyInv, compiler
<1>5. CASE AssignVariable
  <2> DEFINE v == Phi.function_variable
  <2>1. saved' \subseteq allocated'
    BY <1>5 DEF AssignVariable, AllocateCopy, CopyInv
  <2>2. ~force' => ~force /\ (NeedsCopy(v) => v \in allocated)
    BY <1>5 DEF AssignVariable, AllocateCopy, NoteRead
  <2> QED
    BY <1>5, <2>1, <2>2 DEF AssignVariable, AllocateCopy, CopyInv
<1>6. CASE EndFlush
  BY <1>6 DEF EndFlush, CopyInv, compiler, tables
<1>7. CASE Recompile
  BY <1>7 DEF Recompile, Reset, CopyInv, tables, edge
<1>8. CASE Finish
  BY <1>8 DEF Finish, CopyInv, compiler, tables, edge
<1>9. CASE UNCHANGED phi_vars
  BY <1>9 DEF phi_vars, CopyInv, compiler, tables, edge
<1> QED
  BY <1>1, <1>2, <1>3, <1>4, <1>5, <1>6, <1>7, <1>8, <1>9 DEF PhiNext

\* The value a variable has after an edge is the one its entry names.
LEMMA AssignedFacts ==
  ASSUME join \in Joins, NEW p \in Parents
  PROVE /\ Meaning!Assigned(join, p) \in [Variables -> Ids]
        /\ \A k \in DOMAIN join.phis :
             join.phis[k].parent = p => Meaning!Assigned(join, p)[Fv(k)] = Lv(k)
        /\ \A v \in Variables :
             (\A k \in DOMAIN join.phis : join.phis[k].parent = p => Fv(k) # v)
             => Meaning!Assigned(join, p)[v] = v
<1> DEFINE Of(v) == {k \in DOMAIN join.phis : join.phis[k].parent = p /\ Fv(k) = v}
<1>1. ASSUME NEW v \in Variables
      PROVE Meaning!Assigned(join, p)[v] =
              IF Of(v) # {} THEN Lv(CHOOSE k \in Meaning!Entries(join, p) : Fv(k) = v) ELSE v
  BY DEF Meaning!Assigned, Meaning!Entries, Fv, Lv
<1>2. ASSUME NEW v \in Variables, NEW k \in Of(v)
      PROVE Meaning!Assigned(join, p)[v] = Lv(k)
  <2>1. \A l \in Meaning!Entries(join, p) : Fv(l) = v => l = k
    BY JoinFacts, <1>2 DEF Meaning!Entries
  <2>2. k \in Meaning!Entries(join, p) /\ Fv(k) = v
    BY <1>2 DEF Meaning!Entries
  <2>3. (CHOOSE l \in Meaning!Entries(join, p) : Fv(l) = v) = k
    BY <2>1, <2>2
  <2> QED
    BY <1>1, <1>2, <2>3
<1>3. \A k \in DOMAIN join.phis :
        join.phis[k].parent = p => Meaning!Assigned(join, p)[Fv(k)] = Lv(k)
  BY <1>2, JoinFacts
<1>4. \A v \in Variables :
        (\A k \in DOMAIN join.phis : join.phis[k].parent = p => Fv(k) # v)
        => Meaning!Assigned(join, p)[v] = v
  BY <1>1
<1>5. \A v \in Variables : Meaning!Assigned(join, p)[v] \in Ids
  <2> SUFFICES ASSUME NEW v \in Variables PROVE Meaning!Assigned(join, p)[v] \in Ids
    OBVIOUS
  <2>1. CASE \E k \in Of(v) : TRUE
    BY <1>2, <2>1, JoinFacts
  <2>2. CASE Of(v) = {}
    BY <1>1, <2>2 DEF Ids
  <2> QED
    BY <2>1, <2>2
<1>6. DOMAIN Meaning!Assigned(join, p) = Variables
      /\ Meaning!Assigned(join, p) = [v \in Variables |-> Meaning!Assigned(join, p)[v]]
  BY DEF Meaning!Assigned
<1> QED
  BY <1>3, <1>4, <1>5, <1>6

\* The code of a complete edge assigns the OpPhi results at once.
LEMMA EdgeHasItsMeaning ==
  ASSUME TypeInv, EdgeInv, EndFlush, ~force
  PROVE from \in Parents
        /\ [v \in Variables |-> IF static[v] = Nothing THEN env[v] ELSE static[v]]
             = Meaning!Assigned(join, from)
<1>1. from \in Parents /\ join \in Joins
  BY DEF TypeInv, EndFlush
<1>2. \A k \in DOMAIN join.phis : Done(k) <=> join.phis[k].parent = from
  BY <1>1, JoinFacts DEF EndFlush, Done
<1>3. ASSUME NEW v \in Variables
      PROVE (IF static[v] = Nothing THEN env[v] ELSE static[v]) = Meaning!Assigned(join, from)[v]
  <2>1. CASE \A k \in DOMAIN join.phis : join.phis[k].parent = from => Fv(k) # v
    <3>1. env[v] = v /\ static[v] = Nothing
      BY <1>2, <2>1 DEF EdgeInv
    <3> QED
      BY <1>1, <2>1, <3>1, AssignedFacts
  <2>2. ASSUME NEW k \in DOMAIN join.phis, join.phis[k].parent = from, Fv(k) = v
        PROVE (IF static[v] = Nothing THEN env[v] ELSE static[v]) = Meaning!Assigned(join, from)[v]
    <3>1. Meaning!Assigned(join, from)[v] = Lv(k)
      BY <1>1, <2>2, AssignedFacts
    <3>2. Lv(k) # Nothing
      BY <1>1, JoinFacts, PhiAssumption DEF Ids
    <3> QED
      BY <1>2, <2>2, <3>1, <3>2 DEF EdgeInv
  <2> QED
    BY <2>1, <2>2
<1>4. Meaning!Assigned(join, from) = [v \in Variables |-> Meaning!Assigned(join, from)[v]]
  BY DEF Meaning!Assigned
<1> QED
  BY <1>1, <1>3, <1>4

\* Every step keeps the written edges right, or the output is thrown away.
LEMMA WrittenStep ==
  ASSUME TypeInv, from # Nothing => EdgeInv, WrittenInv, [PhiNext]_phi_vars
  PROVE WrittenInv'
<1>1. ASSUME NEW e \in Values, EmitValue(e) PROVE WrittenInv'
  BY <1>1 DEF EmitValue, WrittenInv, compiler
<1>2. ASSUME NEW p \in Parents, BeginFlush(p) PROVE WrittenInv'
  BY <1>2 DEF BeginFlush, WrittenInv, compiler
<1>3. CASE SkipEntry
  BY <1>3 DEF SkipEntry, WrittenInv, compiler
<1>4. CASE SetStatic
  BY <1>4 DEF SetStatic, WrittenInv, compiler
<1>5. CASE AssignVariable
  <2>1. ~force' => ~force
    BY <1>5 DEF AssignVariable, AllocateCopy, NoteRead
  <2> QED
    BY <1>5, <2>1 DEF AssignVariable, WrittenInv
<1>6. CASE EndFlush
  <2> SUFFICES ASSUME ~force, NEW p \in Parents, written'[p] # {}
               PROVE written'[p] = {Meaning!Assigned(join, p)}
    BY <1>6 DEF EndFlush, WrittenInv, compiler
  <2>1. from # Nothing
    BY <1>6 DEF EndFlush
  <2>2. CASE p = from
    BY <1>6, <2>1, <2>2, EdgeHasItsMeaning DEF EndFlush, TypeInv
  <2>3. CASE p # from
    BY <1>6, <2>3 DEF EndFlush, TypeInv, WrittenInv
  <2> QED
    BY <2>2, <2>3
<1>7. CASE Recompile
  BY <1>7 DEF Recompile, WrittenInv
<1>8. CASE Finish
  BY <1>8 DEF Finish, WrittenInv, compiler
<1>9. CASE UNCHANGED phi_vars
  BY <1>9 DEF phi_vars, WrittenInv, compiler
<1> QED
  BY <1>1, <1>2, <1>3, <1>4, <1>5, <1>6, <1>7, <1>8, <1>9 DEF PhiNext

-------------------------------------------------------------------------------
\* What the code demands of an entry is the copy an edge makes there.
LEMMA DemandsACopy ==
  ASSUME TypeInv, AtEntry, Phi.parent = from
  PROVE Demands(itr) <=> ~IsStatic(Fv(itr)) /\ NeedsCopy(Fv(itr))
BY DEF Demands, IsStatic, NeedsCopy, Phi, Lv

\* Every step keeps this: after the first pass all copies are known, and then whoever
\* asks for another pass claims progress.
LEMMA ProgressStep ==
  ASSUME TypeInv, from # Nothing => EdgeInv, ProgressInv, [PhiNext]_phi_vars
  PROVE ProgressInv'
<1>0. /\ Nothing \notin Parents /\ MaxIterations \in Nat \ {0, 1} /\ pass \in 0 .. MaxIterations
      /\ \A k \in DOMAIN join.phis : join.phis[k].parent \in Parents /\ k \in Nat \ {0}
  BY PhiAssumption, JoinFacts DEF TypeInv
<1>1. ASSUME NEW e \in Values, EmitValue(e) PROVE ProgressInv'
  BY <1>1 DEF EmitValue, compiler, edge, ProgressInv, Demands, Done, Fv, Lv
<1>2. ASSUME NEW p \in Parents, BeginFlush(p) PROVE ProgressInv'
  <2>1. \A k \in DOMAIN join.phis : ~Done(k)'
    BY <1>0, <1>2 DEF BeginFlush, Done
  <2> QED
    BY <1>2, <2>1 DEF BeginFlush, compiler, ProgressInv, Demands, Fv, Lv
<1>3. CASE SkipEntry
  <2>1. \A k \in DOMAIN join.phis : Done(k)' <=> Done(k)
    BY <1>0, <1>3 DEF SkipEntry, AtEntry, Phi, Done, TypeInv
  <2> QED
    BY <1>3, <2>1 DEF SkipEntry, compiler, ProgressInv, Demands, Fv, Lv
<1>4. CASE SetStatic
  <2>0. AtEntry /\ Phi.parent = from /\ EdgeInv /\ IsStatic(Fv(itr)) /\ itr' = itr + 1
        /\ UNCHANGED <<join, from, phase, pass, allocated, force, progress, written>>
    BY <1>4 DEF SetStatic, AtEntry, Phi, Fv, compiler
  <2>1. /\ \A k \in DOMAIN join.phis : Done(k)' <=> k = itr \/ Done(k)
        /\ ~Demands(itr)
    BY <2>0, FreshEntry, DemandsACopy
  <2>2. ASSUME NEW k \in DOMAIN join.phis, Demands(k),
               pass > 0 \/ written[join.phis[k].parent] # {} \/ Done(k)'
        PROVE Fv(k) \in allocated
    BY <2>1, <2>2 DEF ProgressInv
  <2> QED
    BY <2>0, <2>2 DEF ProgressInv, Demands, Fv, Lv
<1>5. CASE AssignVariable
  <2>0. AtEntry /\ Phi.parent = from /\ EdgeInv /\ ~IsStatic(Fv(itr)) /\ itr' = itr + 1
        /\ UNCHANGED <<join, from, phase, pass, written>>
        /\ AllocateCopy(Fv(itr))
    BY <1>5 DEF AssignVariable, AtEntry, Phi, Fv
  <2>1. /\ \A k \in DOMAIN join.phis : Done(k)' <=> k = itr \/ Done(k)
        /\ itr \in DOMAIN join.phis
        /\ Demands(itr) <=> NeedsCopy(Fv(itr))
    BY <2>0, FreshEntry, DemandsACopy
  <2>2. ASSUME NEW k \in DOMAIN join.phis, Demands(k),
               pass > 0 \/ written[join.phis[k].parent] # {} \/ Done(k)'
        PROVE Fv(k) \in allocated'
    BY <2>0, <2>1, <2>2 DEF ProgressInv, AllocateCopy
  <2>3. ASSUME pass > 0, force' PROVE progress'
    <3>1. Demands(itr) => Fv(itr) \in allocated
      BY <2>1, <2>3 DEF ProgressInv
    <3> QED
      BY <2>0, <2>1, <2>3, <3>1 DEF ProgressInv, AllocateCopy, NoteRead
  <2>4. phase' # "thrown" /\ (pass' > 0 /\ force' => progress')
    BY <2>0, <2>3 DEF ProgressInv
  <2> QED
    BY <2>0, <2>2, <2>4 DEF ProgressInv, Demands, Fv, Lv
<1>6. CASE EndFlush
  <2>0. from \in Parents /\ itr = Len(join.phis) + 1
        /\ UNCHANGED <<join, phase, pass, allocated, force, progress>> /\ from' = Nothing
    BY <1>6 DEF EndFlush, compiler, TypeInv
  <2>1. \A k \in DOMAIN join.phis :
          ~Done(k)' /\ (join.phis[k].parent = from => Done(k))
    BY <1>0, <2>0, JoinFacts DEF Done, TypeInv
  <2>2. ASSUME NEW k \in DOMAIN join.phis, Demands(k),
               pass > 0 \/ written'[join.phis[k].parent] # {} \/ Done(k)'
        PROVE Fv(k) \in allocated
    <3>1. CASE join.phis[k].parent = from
      BY <2>1, <2>2, <3>1 DEF ProgressInv
    <3>2. CASE join.phis[k].parent # from
      <4>1. written'[join.phis[k].parent] = written[join.phis[k].parent]
        BY <1>0, <1>6, <3>2 DEF EndFlush, TypeInv
      <4> QED
        BY <2>1, <2>2, <4>1 DEF ProgressInv
    <3> QED
      BY <3>1, <3>2
  <2> QED
    BY <2>0, <2>2 DEF ProgressInv, Demands, Fv, Lv
<1>7. CASE Recompile
  <2>1. pass > 0 => progress
    BY <1>0, <1>7 DEF Recompile, ProgressInv
  <2>2. ~(pass' >= MaxIterations /\ ~progress) /\ pass' > 0
    BY <1>0, <1>7, <2>1 DEF Recompile
  <2>3. \A k \in DOMAIN join.phis : Demands(k) => Fv(k) \in allocated
    BY <1>0, <1>7 DEF Recompile, AllWritten, ProgressInv
  <2>4. UNCHANGED <<join, allocated, phase>> /\ force' = FALSE /\ phase = "emit"
    BY <1>7, <2>2 DEF Recompile, Reset
  <2> QED
    BY <2>3, <2>4 DEF ProgressInv, Demands, Fv, Lv
<1>8. CASE Finish
  BY <1>8 DEF Finish, compiler, edge, ProgressInv, Demands, Done, Fv, Lv
<1>9. CASE UNCHANGED phi_vars
  BY <1>9 DEF phi_vars, compiler, edge, ProgressInv, Demands, Done, Fv, Lv
<1> QED
  BY <1>1, <1>2, <1>3, <1>4, <1>5, <1>6, <1>7, <1>8, <1>9 DEF PhiNext

-------------------------------------------------------------------------------
\* The invariant is inductive.
LEMMA NextIInv == IInv /\ [PhiNext]_phi_vars => IInv'
BY TypeStep, TrackedStep, EdgeStep, CopyStep, WrittenStep, ProgressStep DEF IInv

THEOREM InductiveInvariant == PhiSpec => []IInv
BY InitIInv, NextIInv, PTL DEF PhiSpec

\* In the code compile() returns every copy is declared (flush_phi, and
\* emit_variable_temporary_copies where the variable is declared).
THEOREM CopiesAlwaysDeclared == PhiSpec => []CopiesAreDeclared
<1>1. IInv => CopiesAreDeclared
  BY DEF IInv, CopyInv, CopiesAreDeclared
<1> QED
  BY <1>1, InductiveInvariant, PTL

\* The safety net of reset() never fires: only the first pass finds copies, and the
\* texts which become invalid claim progress.
THEOREM PhisNeverThrow == PhiSpec => []NeverThrows
<1>1. IInv => NeverThrows
  BY DEF IInv, ProgressInv, NeverThrows
<1> QED
  BY <1>1, InductiveInvariant, PTL

\* Every step writes an edge with its meaning, throws the output away, or changes
\* nothing which the meaning shows.
LEMMA StepsRefine ==
  ASSUME IInv, [PhiNext]_phi_vars
  PROVE [Meaning!Next]_<<join, [p \in Parents |-> IF force THEN {} ELSE written[p]]>>
<1> DEFINE shown == [p \in Parents |-> IF force THEN {} ELSE written[p]]
<1> SUFFICES ASSUME ~(UNCHANGED <<join, shown>>) PROVE Meaning!Next
  OBVIOUS
<1>0. TypeInv /\ (from # Nothing => EdgeInv)
  BY DEF IInv
<1>1. ASSUME NEW e \in Values, EmitValue(e) PROVE FALSE
  BY <1>1 DEF EmitValue, compiler
<1>2. ASSUME NEW p \in Parents, BeginFlush(p) PROVE FALSE
  BY <1>2 DEF BeginFlush, compiler
<1>3. CASE SkipEntry
  BY <1>3 DEF SkipEntry, compiler
<1>4. CASE SetStatic
  BY <1>4 DEF SetStatic, compiler
<1>5. CASE AssignVariable
  <2>1. UNCHANGED <<join, written>> /\ (force => force') /\ force' \in BOOLEAN
    BY <1>5, <1>0, TypeStep DEF AssignVariable, AllocateCopy, NoteRead, TypeInv
  <2>2. CASE force'
    BY <2>1, <2>2 DEF Meaning!Next, Meaning!Discard, Meaning!Unwritten
  <2>3. CASE ~force'
    BY <2>1, <2>3
  <2> QED
    BY <2>2, <2>3
<1>6. CASE EndFlush
  <2>1. UNCHANGED <<join, force>> /\ from \in Parents
    BY <1>0, <1>6 DEF EndFlush, compiler, TypeInv
  <2>2. ~force
    BY <2>1
  <2>3. written' = [written EXCEPT ![from] = {Meaning!Assigned(join, from)}]
    BY <1>0, <1>6, <2>2, EdgeHasItsMeaning DEF EndFlush
  <2>4. shown' = [shown EXCEPT ![from] = {Meaning!Assigned(join, from)}]
    BY <1>0, <2>1, <2>2, <2>3 DEF TypeInv
  <2> QED
    BY <2>1, <2>4 DEF Meaning!Next, Meaning!Assign
<1>7. CASE Recompile
  <2>1. CASE UNCHANGED <<force, written>>
    BY <1>7, <2>1 DEF Recompile
  <2>2. CASE written' = [p \in Parents |-> {}]
    BY <1>7, <2>2 DEF Recompile, Meaning!Next, Meaning!Discard, Meaning!Unwritten
  <2> QED
    BY <1>7, <2>1, <2>2 DEF Recompile
<1>8. CASE Finish
  BY <1>8 DEF Finish, compiler
<1>9. CASE UNCHANGED phi_vars
  BY <1>9 DEF phi_vars, compiler
<1> QED
  BY <1>1, <1>2, <1>3, <1>4, <1>5, <1>6, <1>7, <1>8, <1>9 DEF PhiNext

\* The code flush_phi writes for an edge assigns all OpPhi results at once, as SPIR-V
\* has it, in every output compile() returns.
THEOREM AssignsAtOnce == PhiSpec => ImplementsPhiAssignment
<1>1. PhiInit => Meaning!Init
  BY DEF PhiInit, Meaning!Init, Meaning!Unwritten
<1>2. IInv /\ [PhiNext]_phi_vars =>
        [Meaning!Next]_<<join, [p \in Parents |-> IF force THEN {} ELSE written[p]]>>
  BY StepsRefine
<1> QED
  BY <1>1, <1>2, InductiveInvariant, PTL DEF PhiSpec, ImplementsPhiAssignment, Meaning!Spec
================================================================================
