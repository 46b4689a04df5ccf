---------------------------- MODULE DepGenProofs ----------------------------
(* The reader of conditions in depgen never drops the branch that is       *)
(* compiled: for every set of source files, every command line and every   *)
(* truth of the conditions that it cannot evaluate.  It finds what the     *)
(* compiler reads, uses and makes, and the rules of all files lead make to *)
(* it.                                                                     *)
EXTENDS DepGen, TLAPS

Frames == [path : DOMAIN call.files, next : Nat \ {0}]
Levels == [now : BOOLEAN, done : BOOLEAN, final : BOOLEAN]

StackInv ==
    /\ call \in Calls
    /\ input \in Nat /\ input <= Len(call.input)
    /\ pc \in {"args", "open"} => input < Len(call.input)
    /\ pp_stack \in Seq(Frames) /\ fc_stack \in Seq(Frames)
    /\ pc = "read" => pp_stack # <<>>

BranchType ==
    /\ oracle \in [Macro -> BOOLEAN]
    /\ agreed \in BOOLEAN
    /\ branch \in Seq(Seq(Cond3) \ {<<>>})
    /\ cpp \in Seq(Levels)
    /\ Len(branch) = Len(cpp)

(* One open #if: the states of its tests, and where the compiler is.       *)
Fits3(s, g) ==
    /\ g.now => g.done /\ \A j \in 1 .. Len(s) : s[j] >= 0
    /\ ~g.done => s[Len(s)] <= 0 /\ \A j \in 1 .. Len(s) - 1 : s[j] >= 0

LevelInv ==
    /\ macros = cpp_macros
    /\ \A i \in 1 .. Len(branch) : Fits3(branch[i], cpp[i])
    /\ \A i \in 1 .. Len(branch) : ~cpp[i].done => \A k \in 1 .. i - 1 : cpp[k].now

SkipInv == StackInv /\ BranchType /\ (agreed => LevelInv)

(* Read alike, the macros give a condition a value that is the compiler's, *)
(* or none.                                                                *)
LEMMA LiteralSound ==
    ASSUME NEW l \in Literal, oracle \in [Macro -> BOOLEAN], macros = cpp_macros
    PROVE  /\ EvalLiteral(l) \in Cond3
           /\ EvalLiteral(l) = 1 => Holds(l)
           /\ EvalLiteral(l) = -1 => ~Holds(l)
<1> DEFINE known == IF l.kind = "opaque" THEN 0
                    ELSE IF l.kind = "defined" THEN EvalDefined(l.macro, FALSE)
                    ELSE IF macros[l.macro] = "one" THEN 1
                    ELSE IF macros[l.macro] = "text" THEN 0 ELSE -1
           truth == \/ l.kind = "opaque" /\ oracle[l.macro]
                    \/ l.kind = "defined" /\ cpp_macros[l.macro] # "undefined"
                    \/ l.kind = "value" /\ \/ cpp_macros[l.macro] = "one"
                                           \/ cpp_macros[l.macro] = "text" /\ oracle[l.macro]
<1>1. l.neg \in BOOLEAN /\ l.kind \in {"defined", "value", "opaque"} /\ macros[l.macro] = cpp_macros[l.macro]
  BY DEF Literal
<1>2. known \in {-1, 0, 1}
  BY DEF EvalDefined
<1>k1. l.kind = "opaque" => known = 0
  OBVIOUS
<1>k2. l.kind = "defined" => known = IF macros[l.macro] = "undefined" THEN -1 ELSE 1
  BY DEF EvalDefined
<1>k3. l.kind = "value" => known = IF macros[l.macro] = "one" THEN 1
                                   ELSE IF macros[l.macro] = "text" THEN 0 ELSE -1
  OBVIOUS
<1>5. EvalLiteral(l) = IF l.neg THEN -known ELSE known
  BY DEF EvalLiteral
<1>. HIDE DEF known
<1>3. known = 1 => truth
  <2>1. known = 1 => \/ l.kind = "defined" /\ cpp_macros[l.macro] # "undefined"
                     \/ l.kind = "value" /\ cpp_macros[l.macro] = "one"
    <3>. HIDE DEF truth
    <3>. QED  BY <1>1, <1>k1, <1>k2, <1>k3
  <2>. QED  BY <2>1, Zenon
<1>4. known = -1 => ~truth
  BY <1>1, <1>k1, <1>k2, <1>k3
<1>6. Holds(l) <=> IF l.neg THEN ~truth ELSE truth
  BY DEF Holds
<1>. HIDE DEF truth
<1>7. CASE l.neg
  BY <1>2, <1>3, <1>4, <1>5, <1>6, <1>7 DEF Cond3
<1>8. CASE ~l.neg
  BY <1>2, <1>3, <1>4, <1>5, <1>6, <1>8 DEF Cond3
<1>. QED  BY <1>7, <1>8

LEMMA EvaluatedTyped == Evaluated \in Cond3
<1>1. EvalExpression(Line.cond) \in Cond3
  BY DEF EvalExpression, Cond3
<1>. HIDE DEF Cond3
<1>2. {-1, 0, 1} \subseteq Cond3
  BY DEF Cond3
<1>. QED  BY <1>1, <1>2 DEF Evaluated, EvalDefined

LEMMA EvaluationSound ==
    ASSUME IsLine(Line), Line.kind \in {"ifdef", "if", "elif"},
           oracle \in [Macro -> BOOLEAN], macros = cpp_macros
    PROVE  /\ Evaluated = 1 => True
           /\ Evaluated = -1 => ~True
<1>1. CASE Line.kind = "ifdef"
  BY <1>1 DEF Evaluated, True, EvalDefined, IsLine
<1>2. CASE Line.kind # "ifdef"
  <2> DEFINE c == Line.cond
  <2>1. c.all \in BOOLEAN /\ c.of \in Seq(Literal)
    BY <1>2 DEF IsLine, Condition
  <2>2. \A i \in DOMAIN c.of : c.of[i] \in Literal
    BY <2>1
  <2>3. \A i \in DOMAIN c.of : /\ EvalLiteral(c.of[i]) \in Cond3
                               /\ EvalLiteral(c.of[i]) = 1 => Holds(c.of[i])
                               /\ EvalLiteral(c.of[i]) = -1 => ~Holds(c.of[i])
    BY <2>2, LiteralSound
  <2>4. True = IF c.all THEN \A i \in DOMAIN c.of : Holds(c.of[i]) ELSE \E i \in DOMAIN c.of : Holds(c.of[i])
    BY <1>2 DEF True
  <2>5. DOMAIN c.of = 1 .. Len(c.of)
    BY <2>1
  <2>6. /\ EvalExpression(c) = 1 => True
        /\ EvalExpression(c) = -1 => ~True
    <3>1. CASE c.all = TRUE
      <4>1. EvalExpression(c) = 1 => \A i \in DOMAIN c.of : EvalLiteral(c.of[i]) = 1
        BY <3>1, <2>3, <2>5, <2>1 DEF EvalExpression
      <4>2. EvalExpression(c) = -1 => \E i \in DOMAIN c.of : EvalLiteral(c.of[i]) = -1
        BY <3>1, <2>3, <2>5, <2>1 DEF EvalExpression
      <4>. HIDE DEF c
      <4>. QED  BY <4>1, <4>2, <3>1, <2>3, <2>4
    <3>2. CASE c.all = FALSE
      <4>1. EvalExpression(c) = -1 => \A i \in DOMAIN c.of : EvalLiteral(c.of[i]) = -1
        <5>1. EvalExpression(c) = -1 => \A j \in 1 .. Len(c.of) + 1 - 1 : EvalLiteral(c.of[j]) = -1
          BY <3>2 DEF EvalExpression
        <5>. QED  BY <5>1, <2>1, <2>5
      <4>2. EvalExpression(c) = 1 => \E i \in DOMAIN c.of : EvalLiteral(c.of[i]) = 1
        BY <3>2, <2>3, <2>5, <2>1 DEF EvalExpression
      <4>. HIDE DEF c
      <4>. QED  BY <4>1, <4>2, <3>2, <2>3, <2>4
    <3>. QED  BY <3>1, <3>2, <2>1
  <2>. QED  BY <1>2, <2>6 DEF Evaluated
<1>. QED  BY <1>1, <1>2

(* Where the compiler reads, no state on the stacks says otherwise.        *)
LEMMA ActiveAlive ==
    ASSUME BranchType, LevelInv, Active
    PROVE  ~IsDead
<1>1. \A i \in DOMAIN branch : i \in DOMAIN cpp /\ i \in 1 .. Len(branch)
  BY DEF BranchType
<1>2. ASSUME NEW i \in DOMAIN branch, NEW j \in DOMAIN branch[i]
      PROVE  ~(branch[i][j] < 0)
  <2>1. cpp[i].now
    BY <1>1 DEF Active
  <2>2. branch[i] \in Seq(Cond3)
    BY DEF BranchType
  <2>3. branch[i][j] >= 0
    BY <2>1, <2>2, <1>1 DEF LevelInv, Fits3
  <2>4. branch[i][j] \in Cond3
    BY <2>2
  <2>. QED  BY <2>3, <2>4 DEF Cond3
<1>. QED  BY <1>2 DEF IsDead, DeadIn

(* A line that is read lies in a file of the call.                         *)
LEMMA LineTyped ==
    ASSUME StackInv, Reading
    PROVE  IsLine(Line)
<1>1. Top \in Frames
  <2>1. CASE Raw
    BY <2>1 DEF StackInv, Top, Raw, Last
  <2>2. CASE ~Raw
    BY <2>2 DEF StackInv, Top, Raw, Last, Reading
  <2>. QED  BY <2>1, <2>2
<1>2. IsCall(call)
  BY CallsAssumption DEF StackInv
<1>3. Top.path \in DOMAIN call.files /\ Top.next \in Nat \ {0}
  BY <1>1 DEF Frames
<1>4. Top.next <= Len(call.files[Top.path])
  BY DEF Reading
<1>5. Top.next \in 1 .. Len(call.files[Top.path])
  BY <1>3, <1>4
<1>. QED  BY <1>2, <1>3, <1>5 DEF Line, IsCall

LEMMA FrontTyped ==
    ASSUME NEW S, NEW s \in Seq(S), s # <<>>
    PROVE  Front(s) \in Seq(S) /\ Len(Front(s)) = Len(s) - 1
<1>1. Len(s) \in Nat /\ Len(s) > 0
  OBVIOUS
<1>2. \A i \in 1 .. Len(s) - 1 : s[i] \in S
  BY <1>1
<1>3. Front(s) = [i \in 1 .. Len(s) - 1 |-> s[i]]
  BY <1>1 DEF Front
<1>. QED  BY <1>1, <1>2, <1>3

LEMMA AppendTyped ==
    ASSUME NEW S, NEW s \in Seq(S), NEW e \in S
    PROVE  Append(s, e) \in Seq(S) /\ Append(s, e) # <<>>
<1>1. Append(s, e) \in Seq(S) /\ Len(Append(s, e)) = Len(s) + 1 /\ Len(s) \in Nat
  OBVIOUS
<1>. QED  BY <1>1

LEMMA BumpedTyped ==
    ASSUME NEW st \in Seq(Frames), st # <<>>
    PROVE  Bumped(st) \in Seq(Frames) /\ Bumped(st) # <<>>
<1>1. Last(st) \in Frames
  BY DEF Last
<1>2. PICK path \in DOMAIN call.files, next \in Nat \ {0} : Last(st) = [path |-> path, next |-> next]
  BY <1>1 DEF Frames
<1>3. [Last(st) EXCEPT !.next = @ + 1] = [path |-> path, next |-> next + 1]
  BY <1>2
<1>4. [Last(st) EXCEPT !.next = @ + 1] \in Frames
  BY <1>3 DEF Frames
<1>5. Front(st) \in Seq(Frames)
  BY FrontTyped
<1>. QED  BY <1>4, <1>5, AppendTyped DEF Bumped

(* Moving on in a file keeps the stacks in order.                          *)
LEMMA StackStep ==
    ASSUME StackInv, Reading, Advance, UNCHANGED <<call, pc, input>>
    PROVE  StackInv'
<1>1. Frames' = Frames
  BY DEF Frames
<1>2. ASSUME NEW st \in Seq(Frames), st # <<>>
      PROVE  Bumped(st) \in Seq(Frames) /\ Bumped(st) # <<>>
  BY <1>2, BumpedTyped
<1>3. pp_stack # <<>>
  BY DEF StackInv, Reading
<1>4. CASE Raw
  BY <1>1, <1>2, <1>3, <1>4 DEF StackInv, Advance, Raw
<1>5. CASE ~Raw
  BY <1>1, <1>2, <1>3, <1>5 DEF StackInv, Advance, Raw
<1>. QED  BY <1>4, <1>5

LEMMA FoundInFiles ==
    ASSUME NEW name, NEW order, NEW current, NEW dirs
    PROVE  Find(name, order, current, dirs) # NoPath => Find(name, order, current, dirs) \in DOMAIN call.files
<1> DEFINE places(keyword) == CASE keyword = "cwd" -> <<"">>
                                [] keyword = "src" -> <<Dir(call.input[input])>>
                                [] keyword = "inc" -> <<Dir(current)>>
                                [] keyword = "flg" -> dirs
           hits == {h \in (DOMAIN order) \X (1 .. Len(dirs) + 1) :
                        h[2] \in DOMAIN places(order[h[1]]) /\ <<places(order[h[1]])[h[2]], name>> \in DOMAIN call.files}
           first(h) == \A g \in hits : h[1] < g[1] \/ (h[1] = g[1] /\ h[2] <= g[2])
           place(h) == places(order[h[1]])[h[2]]
<1>1. Find(name, order, current, dirs) =
          IF \E h \in hits : first(h) THEN <<place(CHOOSE h \in hits : first(h)), name>> ELSE NoPath
  BY DEF Find
<1>2. \A h \in hits : <<place(h), name>> \in DOMAIN call.files
  OBVIOUS
<1>. HIDE DEF hits, first, place
<1>3. (\E h \in hits : first(h)) => (CHOOSE h \in hits : first(h)) \in hits
  OBVIOUS
<1>. QED  BY <1>1, <1>2, <1>3

(* A file that is entered is one of the call, read from its first line.    *)
LEMMA Pushed ==
    ASSUME StackInv, NEW st \in Seq(Frames), NEW path \in DOMAIN call.files
    PROVE  Append(st, Frame(path)) \in Seq(Frames) /\ Append(st, Frame(path)) # <<>>
<1>1. Frame(path) \in Frames
  BY DEF Frame, Frames
<1>. QED  BY <1>1, AppendTyped

LEMMA StackNext ==
    ASSUME StackInv, [Next]_vars
    PROVE  StackInv'
<1> USE DEF args
<1>1. CASE Refuse
  <2>1. UNCHANGED <<call, input, pp_stack, fc_stack>> /\ pc' = "error"
    BY <1>1 DEF Refuse, parser
  <2>2. Frames' = Frames
    BY <2>1 DEF Frames
  <2>. QED  BY <2>1, <2>2 DEF StackInv
<1>2. CASE ParseFlag
  <2>1. UNCHANGED <<call, pc, input, pp_stack, fc_stack>>
    BY <1>2 DEF ParseFlag, parser
  <2>2. Frames' = Frames
    BY <2>1 DEF Frames
  <2>. QED  BY <2>1, <2>2 DEF StackInv
<1>3. CASE Open
  <2>1. /\ pc \in {"args", "open"} /\ pc' = "read" /\ call' = call /\ fc_stack' = fc_stack
        /\ input' = input + 1 /\ pp_stack' = <<Frame(call.input[input + 1])>>
    BY <1>3 DEF Open
  <2>2. Frames' = Frames
    BY <2>1 DEF Frames
  <2>3. call.input \in Seq(DOMAIN call.files)
    BY CallsAssumption DEF StackInv, IsCall
  <2>4. input + 1 \in 1 .. Len(call.input)
    BY <2>1, <2>3 DEF StackInv
  <2>5. call.input[input + 1] \in DOMAIN call.files
    BY <2>3, <2>4
  <2>6. Frame(call.input[input + 1]) \in Frames
    BY <2>5 DEF Frame, Frames
  <2>. QED  BY <2>1, <2>2, <2>4, <2>6 DEF StackInv
<1>4. CASE If \/ Elif \/ Else \/ Endif
  BY <1>4, StackStep DEF If, Elif, Else, Endif, At
<1>5. CASE Define \/ LineControl \/ Ignore
  BY <1>5, StackStep DEF Define, LineControl, Ignore, At
<1>6. CASE ModuleStart \/ SubmoduleStart \/ ModuleUse \/ ModuleProcedure \/ ModuleEnd
  BY <1>6, StackStep DEF ModuleStart, SubmoduleStart, ModuleUse, ModuleProcedure, ModuleEnd, Statement, At, Elsewhere
<1>7. CASE Include
  <2> DEFINE order == IF Line.sys THEN call.pp_inc_sys_order ELSE call.pp_inc_order
             path == Find(Line.file, order, Top.path, values[call.pp_inc_flag])
  <2>1. /\ UNCHANGED <<call, pc, input, fc_stack>> /\ pc = "read"
        /\ \/ path # NoPath /\ pp_stack' = Append(Bumped(pp_stack), Frame(path))
           \/ pp_stack' = Bumped(pp_stack)
    BY <1>7 DEF Include, Entered, At, Reading
  <2>2. Frames' = Frames
    BY <2>1 DEF Frames
  <2>3. path # NoPath => path \in DOMAIN call.files
    BY FoundInFiles
  <2>4. Bumped(pp_stack) \in Seq(Frames) /\ Bumped(pp_stack) # <<>>
    BY <2>1, BumpedTyped DEF StackInv
  <2>. HIDE DEF path
  <2>5. pp_stack' \in Seq(Frames) /\ pp_stack' # <<>>
    BY <2>1, <2>3, <2>4, Pushed
  <2>. QED  BY <2>1, <2>2, <2>5 DEF StackInv
<1>8. CASE IncludeStatement
  <2> DEFINE current == IF Raw THEN Top.path ELSE call.input[input]
             path == Find(Line.file, call.fc_inc_order, current, values[call.fc_inc_flag])
             on == IF Raw THEN Bumped(fc_stack) ELSE fc_stack
  <2>1. /\ UNCHANGED <<call, pc, input>> /\ pc = "read"
        /\ pp_stack' = IF Raw THEN pp_stack ELSE Bumped(pp_stack)
        /\ \/ path # NoPath /\ fc_stack' = Append(on, Frame(path))
           \/ fc_stack' = on
    BY <1>8 DEF IncludeStatement, Entered, Statement, At, Reading, Elsewhere
  <2>2. Frames' = Frames
    BY <2>1 DEF Frames
  <2>3. path # NoPath => path \in DOMAIN call.files
    BY FoundInFiles
  <2>4. on \in Seq(Frames)
    BY BumpedTyped DEF StackInv, Raw
  <2>. HIDE DEF path, on
  <2>5. fc_stack' \in Seq(Frames)
    BY <2>1, <2>3, <2>4, Pushed
  <2>6. pp_stack' \in Seq(Frames) /\ pp_stack' # <<>>
    BY <2>1, BumpedTyped DEF StackInv
  <2>. QED  BY <2>1, <2>2, <2>5, <2>6 DEF StackInv
<1>9. CASE EndOfFile
  <2>1. UNCHANGED <<call, input>> /\ pc = "read"
    BY <1>9 DEF EndOfFile
  <2>2. Frames' = Frames
    BY <2>1 DEF Frames
  <2>3. CASE Raw
    <3>1. fc_stack' = Front(fc_stack) /\ UNCHANGED <<pp_stack, pc>>
      BY <1>9, <2>3 DEF EndOfFile
    <3>2. Front(fc_stack) \in Seq(Frames)
      BY <2>3 DEF StackInv, Front, Raw
    <3>. QED  BY <3>1, <3>2, <2>1, <2>2 DEF StackInv
  <2>4. CASE ~Raw
    <3>1. /\ pp_stack' = Front(pp_stack) /\ UNCHANGED fc_stack
          /\ pc' = IF Len(pp_stack) = 1 THEN "write" ELSE pc
      BY <1>9, <2>4 DEF EndOfFile
    <3>2. Front(pp_stack) \in Seq(Frames) /\ Len(Front(pp_stack)) = Len(pp_stack) - 1
      <4>1. pp_stack \in Seq(Frames) /\ pp_stack # <<>>
        BY <2>1 DEF StackInv
      <4>. QED  BY <4>1, FrontTyped
    <3>3. pc' = "read" => pp_stack' # <<>>
      BY <3>1, <3>2, <2>1 DEF StackInv
    <3>4. pc' \notin {"args", "open"}
      BY <3>1, <2>1
    <3>. QED  BY <3>1, <3>2, <3>3, <3>4, <2>1, <2>2 DEF StackInv
  <2>. QED  BY <2>3, <2>4
<1>10. CASE Write
  <2>1. /\ UNCHANGED <<call, input, pp_stack, fc_stack>>
        /\ pc' = IF input = Len(call.input) THEN "done" ELSE "open"
    BY <1>10 DEF Write
  <2>2. Frames' = Frames
    BY <2>1 DEF Frames
  <2>3. Len(call.input) \in Nat
    BY CallsAssumption DEF StackInv, IsCall
  <2>. QED  BY <2>1, <2>2, <2>3 DEF StackInv
<1>11. CASE UNCHANGED vars
  <2>1. UNCHANGED <<call, pc, input, pp_stack, fc_stack>>
    BY <1>11 DEF vars, parser
  <2>2. Frames' = Frames
    BY <2>1 DEF Frames
  <2>. QED  BY <2>1, <2>2 DEF StackInv
<1>. QED  BY <1>1, <1>2, <1>3, <1>4, <1>5, <1>6, <1>7, <1>8, <1>9, <1>10, <1>11 DEF Next

LEMMA BranchSame ==
    ASSUME BranchType, agreed => LevelInv, agreed' \in BOOLEAN, agreed' => agreed,
           UNCHANGED <<oracle, branch, cpp, macros, cpp_macros>>
    PROVE  BranchType' /\ (agreed' => LevelInv')
BY DEF BranchType, LevelInv

LEMMA LevelTyped ==
    ASSUME BranchType, NEW i \in 1 .. Len(branch)
    PROVE  /\ branch[i] \in Seq(Cond3) /\ branch[i] # <<>> /\ Len(branch[i]) \in Nat \ {0}
           /\ cpp[i] \in Levels /\ cpp[i].now \in BOOLEAN /\ cpp[i].done \in BOOLEAN
           /\ i \in DOMAIN branch /\ i \in DOMAIN cpp
<1>1. branch[i] \in Seq(Cond3) \ {<<>>} /\ i \in DOMAIN branch /\ i \in DOMAIN cpp /\ cpp[i] \in Levels
  BY DEF BranchType
<1>2. \A s \in Seq(Cond3) : s # <<>> => Len(s) \in Nat \ {0}
  OBVIOUS
<1>. QED  BY <1>1, <1>2 DEF Levels

(* #else after tests none of which the compiler found true: all that is    *)
(* left on the stacks is kept.                                             *)
LEMMA FlippedTyped ==
    ASSUME NEW s \in Seq(Cond3), s # <<>>
    PROVE  /\ Flipped(s) \in Seq(Cond3) /\ Len(Flipped(s)) = Len(s)
           /\ s[Len(s)] <= 0 /\ (\A j \in 1 .. Len(s) - 1 : s[j] >= 0)
                  => \A j \in 1 .. Len(s) : Flipped(s)[j] >= 0
<1>1. Len(s) \in Nat \ {0} /\ DOMAIN s = 1 .. Len(s) /\ \A j \in 1 .. Len(s) : s[j] \in Cond3
  OBVIOUS
<1>2. \A x \in Cond3 : -x \in Cond3 /\ (x <= 0 => -x >= 0)
  BY DEF Cond3
<1>3. Flipped(s) = [j \in 1 .. Len(s) |-> IF j = Len(s) THEN -s[j] ELSE s[j]]
  BY <1>1 DEF Flipped
<1>. DEFINE f(j) == IF j = Len(s) THEN -s[j] ELSE s[j]
<1>4. \A j \in 1 .. Len(s) : f(j) \in Cond3
  BY <1>1, <1>2
<1>5. (s[Len(s)] <= 0 /\ \A j \in 1 .. Len(s) - 1 : s[j] >= 0) => \A j \in 1 .. Len(s) : f(j) >= 0
  <2>. SUFFICES ASSUME s[Len(s)] <= 0, \A j \in 1 .. Len(s) - 1 : s[j] >= 0, NEW j \in 1 .. Len(s)
                PROVE  f(j) >= 0
    OBVIOUS
  <2>1. CASE j = Len(s)
    BY <1>1, <1>2, <2>1
  <2>2. CASE j # Len(s)
    <3>1. j \in 1 .. Len(s) - 1
      <4>1. Len(s) \in Nat /\ j \in Nat /\ j >= 1 /\ j <= Len(s)
        BY <1>1
      <4>. QED  BY <4>1, <2>2
    <3>. QED  BY <2>2, <3>1
  <2>. QED  BY <2>1, <2>2
<1>. HIDE DEF f, Cond3
<1>6. Flipped(s) = [j \in 1 .. Len(s) |-> f(j)]
  BY <1>3 DEF f
<1>. QED  BY <1>1, <1>4, <1>5, <1>6

LEMMA IfStep ==
    ASSUME SkipInv, If
    PROVE  BranchType' /\ (agreed' => LevelInv')
<1> DEFINE state == IF IsDead THEN 0 ELSE Evaluated
           g == [now |-> Active /\ True, done |-> ~Active \/ True, final |-> FALSE]
           n == Len(branch)
<1>1. /\ branch' = Append(branch, <<state>>) /\ cpp' = Append(cpp, g)
      /\ UNCHANGED <<oracle, macros, cpp_macros, agreed>> /\ Reading /\ Line.kind \in {"ifdef", "if"}
  BY DEF If
<1>2. IsLine(Line)
  BY <1>1, LineTyped DEF SkipInv
<1>3. /\ Evaluated \in Cond3
      /\ agreed /\ Evaluated = 1 => True
      /\ agreed /\ Evaluated = -1 => ~True
  BY <1>1, <1>2, EvaluatedTyped, EvaluationSound DEF SkipInv, BranchType, LevelInv
<1>4. state \in Cond3 /\ g \in Levels
  BY <1>3 DEF Cond3, Levels
<1>5. BranchType'
  <2>1. branch' \in Seq(Seq(Cond3) \ {<<>>})
    <3>1. <<state>> \in Seq(Cond3) \ {<<>>}
      BY <1>4
    <3>. HIDE DEF state
    <3>. QED  BY <1>1, <3>1, AppendTyped DEF SkipInv, BranchType
  <2>2. cpp' \in Seq(Levels)
    BY <1>1, <1>4, AppendTyped DEF SkipInv, BranchType
  <2>3. Len(branch') = Len(cpp')
    BY <1>1 DEF SkipInv, BranchType
  <2>. QED  BY <1>1, <2>1, <2>2, <2>3 DEF SkipInv, BranchType
<1>6. ASSUME agreed
      PROVE  LevelInv'
  <2>1. LevelInv /\ BranchType
    BY <1>6 DEF SkipInv
  <2>2. Active => ~IsDead
    BY <2>1, ActiveAlive
  <2>3. Fits3(<<state>>, g)
    <3>1. Len(<<state>>) = 1 /\ <<state>>[1] = state
      OBVIOUS
    <3>2. (g.now <=> Active /\ True) /\ (g.done <=> ~Active \/ True)
      OBVIOUS
    <3>3. Active => state = Evaluated
      BY <2>2
    <3>4. g.now => g.done /\ state = Evaluated /\ Evaluated # -1
      <4>. HIDE DEF g, state
      <4>. QED  BY <1>3, <1>6, <3>2, <3>3
    <3>5. ~g.done => state = Evaluated /\ Evaluated # 1
      <4>. HIDE DEF g, state
      <4>. QED  BY <1>3, <1>6, <3>2, <3>3
    <3>. HIDE DEF g, state
    <3>6. (g.now => state >= 0) /\ (~g.done => state <= 0)
      BY <1>3, <3>4, <3>5 DEF Cond3
    <3>. QED  BY <3>1, <3>4, <3>6 DEF Fits3
  <2>4. n \in Nat /\ n = Len(cpp) /\ DOMAIN branch = 1 .. n /\ DOMAIN cpp = 1 .. n
    BY <2>1 DEF BranchType
  <2>5. ~g.done => \A k \in 1 .. n : cpp[k].now
    BY <2>4 DEF Active
  <2>. HIDE DEF g, state
  <2>6. /\ Len(branch') = n + 1 /\ branch'[n + 1] = <<state>> /\ cpp'[n + 1] = g
        /\ \A i \in 1 .. n : branch'[i] = branch[i] /\ cpp'[i] = cpp[i]
    BY <1>1, <2>1, <2>4 DEF BranchType
  <2>. HIDE DEF n
  <2>7. \A i \in 1 .. n + 1 : i = n + 1 \/ i \in 1 .. n
    BY <2>4
  <2>8. \A i \in 1 .. n + 1 : Fits3(branch'[i], cpp'[i])
    BY <2>1, <2>3, <2>6, <2>7 DEF LevelInv, n
  <2>9. \A i \in 1 .. n + 1 : ~cpp'[i].done => \A k \in 1 .. i - 1 : cpp'[k].now
    <3>. SUFFICES ASSUME NEW i \in 1 .. n + 1, ~cpp'[i].done, NEW k \in 1 .. i - 1
                  PROVE  cpp'[k].now
      OBVIOUS
    <3>1. k \in 1 .. n
      BY <2>4
    <3>2. CASE i = n + 1
      BY <2>5, <2>6, <3>1, <3>2
    <3>3. CASE i \in 1 .. n
      BY <2>1, <2>6, <3>1, <3>3 DEF LevelInv, n
    <3>. QED  BY <2>7, <3>2, <3>3
  <2>. QED  BY <1>1, <2>1, <2>6, <2>8, <2>9 DEF LevelInv
<1>. QED  BY <1>1, <1>5, <1>6

(* #elif and #else change the innermost open #if.                          *)
LEMMA ReplacedTyped ==
    ASSUME BranchType, branch # <<>>, NEW s \in Seq(Cond3) \ {<<>>}, NEW g \in Levels,
           branch' = [branch EXCEPT ![Len(branch)] = s],
           cpp' = [cpp EXCEPT ![Len(cpp)] = g],
           UNCHANGED <<oracle, agreed>>
    PROVE  BranchType'
BY DEF BranchType

LEMMA ReplacedLevels ==
    ASSUME BranchType, LevelInv, branch # <<>>, NEW s, NEW g, Fits3(s, g),
           ~g.done => ~cpp[Len(cpp)].done,
           branch' = [branch EXCEPT ![Len(branch)] = s],
           cpp' = [cpp EXCEPT ![Len(cpp)] = g],
           UNCHANGED <<macros, cpp_macros>>
    PROVE  LevelInv'
<1> DEFINE n == Len(branch)
<1>1. n \in Nat /\ n = Len(cpp) /\ DOMAIN branch = 1 .. n /\ DOMAIN cpp = 1 .. n /\ n >= 1
  BY DEF BranchType
<1>2. /\ Len(branch') = n /\ branch'[n] = s /\ cpp'[n] = g
      /\ \A i \in 1 .. n : i # n => branch'[i] = branch[i] /\ cpp'[i] = cpp[i]
  <2>1. branch' = [i \in 1 .. n |-> IF i = n THEN s ELSE branch[i]]
    BY <1>1
  <2>2. cpp' = [i \in 1 .. n |-> IF i = n THEN g ELSE cpp[i]]
    BY <1>1
  <2>. HIDE DEF n
  <2>. QED  BY <1>1, <2>1, <2>2
<1>3. \A i \in 1 .. n : Fits3(branch[i], cpp[i]) /\ (~cpp[i].done => \A k \in 1 .. i - 1 : cpp[k].now)
  BY DEF LevelInv
<1>. HIDE DEF n
<1>4. \A i \in 1 .. n : Fits3(branch'[i], cpp'[i])
  BY <1>2, <1>3
<1>5. ~g.done => ~cpp[n].done
  BY <1>1
<1>6. ASSUME NEW i \in 1 .. n, ~cpp'[i].done, NEW k \in 1 .. i - 1
      PROVE  cpp'[k].now
  <2>1. k \in 1 .. n /\ k # n
    BY <1>1
  <2>2. ~cpp[i].done
    BY <1>2, <1>5, <1>6
  <2>. QED  BY <1>2, <1>3, <2>1, <2>2
<1>7. macros' = cpp_macros'
  BY DEF LevelInv
<1>. QED  BY <1>2, <1>4, <1>6, <1>7 DEF LevelInv

(* Before an #else whose branch may be the compiled one nothing on the     *)
(* stacks says otherwise.                                                  *)
LEMMA ElseAlive ==
    ASSUME BranchType, LevelInv, branch # <<>>, ~cpp[Len(cpp)].done
    PROVE  /\ ~DeadIn(SwitchElse(branch))
           /\ \A j \in 1 .. Len(branch[Len(branch)]) : Flipped(branch[Len(branch)])[j] >= 0
<1> DEFINE n == Len(branch)
           s == branch[n]
<1>1. n \in Nat /\ n = Len(cpp) /\ DOMAIN branch = 1 .. n /\ n >= 1 /\ n \in 1 .. n
  BY DEF BranchType
<1>2. s \in Seq(Cond3) /\ s # <<>>
  BY <1>1, LevelTyped
<1>3. s[Len(s)] <= 0 /\ \A j \in 1 .. Len(s) - 1 : s[j] >= 0
  BY <1>1 DEF LevelInv, Fits3
<1>4. Flipped(s) \in Seq(Cond3) /\ Len(Flipped(s)) = Len(s) /\ \A j \in 1 .. Len(s) : Flipped(s)[j] >= 0
  <2>. HIDE DEF s
  <2>. QED  BY <1>2, <1>3, FlippedTyped
<1>5. \A k \in 1 .. n - 1 : cpp[k].now
  BY <1>1 DEF LevelInv
<1>6. SwitchElse(branch) = [i \in 1 .. n |-> IF i = n THEN Flipped(s) ELSE branch[i]]
  BY <1>1 DEF SwitchElse
<1>7. ASSUME NEW i \in 1 .. n, NEW j \in DOMAIN SwitchElse(branch)[i]
      PROVE  ~(SwitchElse(branch)[i][j] < 0)
  <2>1. CASE i = n
    <3>1. SwitchElse(branch)[i] = Flipped(s)
      BY <1>6, <2>1
    <3>. HIDE DEF s
    <3>2. DOMAIN Flipped(s) = 1 .. Len(s) /\ \A x \in 1 .. Len(s) : Flipped(s)[x] \in Cond3
      BY <1>4
    <3>3. Flipped(s)[j] >= 0 /\ Flipped(s)[j] \in Cond3
      BY <1>4, <3>1, <3>2, <1>7
    <3>. QED  BY <3>1, <3>3 DEF Cond3
  <2>2. CASE i # n
    <3>1. i \in 1 .. n - 1
      <4>. HIDE DEF n
      <4>. QED  BY <1>1, <2>2
    <3>2. SwitchElse(branch)[i] = branch[i]
      BY <1>6, <2>2
    <3>3. cpp[i].now
      BY <1>5, <3>1
    <3>4. branch[i] \in Seq(Cond3)
      BY LevelTyped
    <3>5. branch[i][j] \in Cond3 /\ j \in 1 .. Len(branch[i])
      BY <3>2, <3>4, <1>7
    <3>6. branch[i][j] >= 0
      BY <3>3, <3>5 DEF LevelInv, Fits3
    <3>. QED  BY <3>2, <3>5, <3>6 DEF Cond3
  <2>. QED  BY <2>1, <2>2
<1>8. DOMAIN SwitchElse(branch) = 1 .. n
  BY <1>6
<1>. QED  BY <1>4, <1>7, <1>8 DEF DeadIn

LEMMA ElifStep ==
    ASSUME SkipInv, Elif
    PROVE  BranchType' /\ (agreed' => LevelInv')
<1> DEFINE n == Len(branch)
           state == IF DeadIn(SwitchElse(branch)) THEN 0 ELSE Evaluated
           s == Append(Flipped(branch[n]), state)
           old == cpp[Len(cpp)]
           g == [now |-> ~old.done /\ True, done |-> old.done \/ True, final |-> FALSE]
<1>1. /\ branch' = [branch EXCEPT ![n] = s] /\ cpp' = [cpp EXCEPT ![Len(cpp)] = g]
      /\ UNCHANGED <<oracle, macros, cpp_macros, agreed>> /\ Reading /\ Line.kind = "elif" /\ branch # <<>>
  BY DEF Elif, SwitchElif, At
<1>2. IsLine(Line)
  BY <1>1, LineTyped DEF SkipInv
<1>3. /\ Evaluated \in Cond3
      /\ agreed /\ Evaluated = 1 => True
      /\ agreed /\ Evaluated = -1 => ~True
  BY <1>1, <1>2, EvaluatedTyped, EvaluationSound DEF SkipInv, BranchType, LevelInv
<1>4. n \in 1 .. n /\ n = Len(cpp)
  BY <1>1 DEF SkipInv, BranchType
<1>5. branch[n] \in Seq(Cond3) /\ branch[n] # <<>> /\ old.done \in BOOLEAN
  BY <1>4, LevelTyped DEF SkipInv
<1>6. state \in Cond3 /\ g \in Levels
  BY <1>3 DEF Cond3, Levels
<1>7. Flipped(branch[n]) \in Seq(Cond3) /\ Len(Flipped(branch[n])) = Len(branch[n])
  BY <1>5, FlippedTyped
<1>8. s \in Seq(Cond3) \ {<<>>}
  <2>. HIDE DEF state
  <2>. QED  BY <1>6, <1>7, AppendTyped
<1>9. BranchType'
  <2>. HIDE DEF s, g
  <2>. QED  BY <1>1, <1>6, <1>8, ReplacedTyped DEF SkipInv
<1>10. ASSUME agreed
       PROVE  LevelInv'
  <2>1. LevelInv /\ BranchType
    BY <1>10 DEF SkipInv
  <2>2. ~old.done => state = Evaluated /\ \A j \in 1 .. Len(branch[n]) : Flipped(branch[n])[j] >= 0
    BY <1>1, <2>1, ElseAlive
  <2>3. (g.now <=> ~old.done /\ True) /\ (g.done <=> old.done \/ True)
    OBVIOUS
  <2>4. /\ Len(s) \in Nat /\ Len(s) = Len(branch[n]) + 1 /\ s[Len(s)] = state
        /\ \A j \in 1 .. Len(s) : j = Len(s) \/ (j \in 1 .. Len(branch[n]) /\ s[j] = Flipped(branch[n])[j])
    <3>. HIDE DEF state, n
    <3>. QED  BY <1>5, <1>7
  <2>. HIDE DEF g, s, state
  <2>5. g.now => g.done /\ state >= 0
    <3>1. g.now => g.done /\ state = Evaluated /\ Evaluated # -1
      BY <1>3, <1>10, <2>2, <2>3
    <3>. QED  BY <1>3, <3>1 DEF Cond3
  <2>6. ~g.done => ~old.done /\ state <= 0
    <3>1. ~g.done => ~old.done /\ state = Evaluated /\ Evaluated # 1
      BY <1>3, <1>10, <2>2, <2>3
    <3>. QED  BY <1>3, <3>1 DEF Cond3
  <2>7. g.now => ~old.done
    BY <2>3
  <2>8. Fits3(s, g)
    <3>. HIDE DEF n, old
    <3>1. ASSUME g.now
          PROVE  g.done /\ \A j \in 1 .. Len(s) : s[j] >= 0
      BY <2>2, <2>4, <2>5, <2>7, <3>1
    <3>2. ASSUME ~g.done
          PROVE  s[Len(s)] <= 0 /\ \A j \in 1 .. Len(s) - 1 : s[j] >= 0
      <4>1. \A j \in 1 .. Len(s) - 1 : j \in 1 .. Len(s) /\ j # Len(s)
        BY <2>4
      <4>. QED  BY <2>2, <2>4, <2>6, <3>2, <4>1
    <3>. QED  BY <3>1, <3>2 DEF Fits3
  <2>. QED  BY <1>1, <2>1, <2>6, <2>8, ReplacedLevels
<1>. QED  BY <1>1, <1>9, <1>10

LEMMA ElseStep ==
    ASSUME SkipInv, Else
    PROVE  BranchType' /\ (agreed' => LevelInv')
<1> DEFINE n == Len(branch)
           s == Flipped(branch[n])
           old == cpp[Len(cpp)]
           g == [now |-> ~old.done, done |-> TRUE, final |-> TRUE]
<1>1. /\ branch' = [branch EXCEPT ![n] = s] /\ cpp' = [cpp EXCEPT ![Len(cpp)] = g]
      /\ UNCHANGED <<oracle, macros, cpp_macros, agreed>> /\ branch # <<>>
  BY DEF Else, SwitchElse
<1>2. n \in 1 .. n /\ n = Len(cpp)
  BY <1>1 DEF SkipInv, BranchType
<1>3. branch[n] \in Seq(Cond3) /\ branch[n] # <<>> /\ Len(branch[n]) \in Nat \ {0}
  BY <1>2, LevelTyped DEF SkipInv
<1>4. s \in Seq(Cond3) /\ Len(s) = Len(branch[n])
  BY <1>3, FlippedTyped
<1>5. s \in Seq(Cond3) \ {<<>>}
  BY <1>3, <1>4
<1>6. g \in Levels /\ g.done /\ (g.now <=> ~old.done)
  BY DEF Levels
<1>7. BranchType'
  <2>. HIDE DEF s, g
  <2>. QED  BY <1>1, <1>5, <1>6, ReplacedTyped DEF SkipInv
<1>8. ASSUME agreed
      PROVE  LevelInv'
  <2>1. LevelInv /\ BranchType
    BY <1>8 DEF SkipInv
  <2>2. ~old.done => \A j \in 1 .. Len(branch[n]) : s[j] >= 0
    BY <1>1, <2>1, ElseAlive
  <2>. HIDE DEF s, g, old
  <2>3. Fits3(s, g)
    BY <1>4, <1>6, <2>2 DEF Fits3
  <2>. QED  BY <1>1, <1>6, <2>1, <2>3, ReplacedLevels
<1>. QED  BY <1>1, <1>7, <1>8

LEMMA EndifStep ==
    ASSUME SkipInv, Endif
    PROVE  BranchType' /\ (agreed' => LevelInv')
<1> DEFINE n == Len(branch)
<1>1. /\ branch' = Front(branch) /\ cpp' = Front(cpp)
      /\ UNCHANGED <<oracle, macros, cpp_macros, agreed>> /\ branch # <<>>
  BY DEF Endif
<1>2. n \in Nat \ {0} /\ n = Len(cpp) /\ cpp # <<>>
  BY <1>1 DEF SkipInv, BranchType
<1>3. /\ branch' \in Seq(Seq(Cond3) \ {<<>>}) /\ Len(branch') = n - 1
      /\ cpp' \in Seq(Levels) /\ Len(cpp') = n - 1
  BY <1>1, <1>2, FrontTyped DEF SkipInv, BranchType
<1>4. \A i \in 1 .. n - 1 : branch'[i] = branch[i] /\ cpp'[i] = cpp[i]
  BY <1>1, <1>2 DEF SkipInv, BranchType, Front
<1>5. BranchType'
  BY <1>1, <1>3 DEF SkipInv, BranchType
<1>6. ASSUME agreed
      PROVE  LevelInv'
  <2>1. LevelInv
    BY <1>6 DEF SkipInv
  <2>2. \A i \in 1 .. n : Fits3(branch[i], cpp[i]) /\ (~cpp[i].done => \A k \in 1 .. i - 1 : cpp[k].now)
    BY <2>1 DEF LevelInv
  <2>3. \A i \in 1 .. n - 1 : i \in 1 .. n /\ \A k \in 1 .. i - 1 : k \in 1 .. n - 1
    BY <1>2
  <2>. HIDE DEF n
  <2>4. macros' = cpp_macros'
    BY <1>1, <2>1 DEF LevelInv
  <2>5. \A i \in 1 .. n - 1 : Fits3(branch'[i], cpp'[i]) /\ (~cpp'[i].done => \A k \in 1 .. i - 1 : cpp'[k].now)
    BY <1>4, <2>2, <2>3
  <2>. QED  BY <1>3, <2>4, <2>5 DEF LevelInv
<1>. QED  BY <1>1, <1>5, <1>6

(* A definition that the compiler reads is one that the program reads.     *)
LEMMA DefineStep ==
    ASSUME SkipInv, Define
    PROVE  BranchType' /\ (agreed' => LevelInv')
<1>1. /\ UNCHANGED <<oracle, branch, cpp>> /\ agreed' = (agreed /\ Active)
      /\ macros' = [macros EXCEPT ![Line.macro] = Line.body]
      /\ cpp_macros' = IF Active THEN [cpp_macros EXCEPT ![Line.macro] = Line.body] ELSE cpp_macros
  BY DEF Define
<1>. QED  BY <1>1 DEF SkipInv, BranchType, LevelInv

LEMMA OpenStep ==
    ASSUME SkipInv, Open
    PROVE  BranchType' /\ (agreed' => LevelInv')
<1>1. /\ UNCHANGED <<oracle, agreed>> /\ branch' = <<>> /\ cpp' = <<>>
      /\ macros' = Predefined /\ cpp_macros' = Predefined
  BY DEF Open
<1>. HIDE DEF Predefined
<1>. QED  BY <1>1 DEF SkipInv, BranchType, LevelInv

LEMMA OtherStep ==
    ASSUME SkipInv,
           \/ Refuse \/ ParseFlag \/ Include \/ LineControl \/ ModuleStart \/ SubmoduleStart \/ ModuleUse
           \/ IncludeStatement \/ ModuleProcedure \/ ModuleEnd \/ Ignore \/ EndOfFile \/ Write
           \/ UNCHANGED vars
    PROVE  BranchType' /\ (agreed' => LevelInv')
<1>1. agreed \in BOOLEAN /\ Active \in BOOLEAN
  BY DEF SkipInv, BranchType, Active
<1>2. /\ UNCHANGED <<oracle, branch, cpp, macros, cpp_macros>>
      /\ UNCHANGED agreed \/ agreed' = (agreed /\ Active)
  <2>1. CASE Refuse \/ ParseFlag \/ Include \/ LineControl \/ Ignore \/ EndOfFile \/ Write \/ UNCHANGED vars
    BY <2>1 DEF Refuse, ParseFlag, Include, LineControl, Ignore, EndOfFile, Write, vars, parser, ghost
  <2>2. CASE ModuleStart \/ SubmoduleStart \/ ModuleUse \/ IncludeStatement \/ ModuleProcedure \/ ModuleEnd
    BY <2>2 DEF ModuleStart, SubmoduleStart, ModuleUse, IncludeStatement, ModuleProcedure, ModuleEnd, Elsewhere
  <2>. QED  BY <2>1, <2>2
<1>3. agreed' \in BOOLEAN /\ (agreed' => agreed)
  <2>. HIDE DEF Active
  <2>1. CASE agreed' = agreed
    BY <1>1, <2>1
  <2>2. CASE agreed' = (agreed /\ Active)
    <3>1. agreed' \in BOOLEAN
      BY <2>2
    <3>. QED  BY <2>2, <3>1
  <2>. QED  BY <1>2, <2>1, <2>2
<1>. QED  BY <1>2, <1>3, BranchSame DEF SkipInv

LEMMA InitSkip == Init => SkipInv
<1>. SUFFICES ASSUME Init PROVE SkipInv
  OBVIOUS
<1>1. IsCall(call)
  BY CallsAssumption DEF Init
<1>2. StackInv
  <2>1. Len(call.input) \in Nat \ {0}
    BY <1>1 DEF IsCall
  <2>. QED  BY <2>1 DEF Init, StackInv
<1>3. BranchType
  BY DEF Init, BranchType
<1>4. LevelInv
  BY DEF Init, LevelInv
<1>. QED  BY <1>2, <1>3, <1>4 DEF SkipInv

LEMMA SkipNext == SkipInv /\ [Next]_vars => SkipInv'
<1>. SUFFICES ASSUME SkipInv, [Next]_vars PROVE SkipInv'
  OBVIOUS
<1>1. StackInv'
  BY StackNext DEF SkipInv
<1>2. BranchType' /\ (agreed' => LevelInv')
  BY IfStep, ElifStep, ElseStep, EndifStep, DefineStep, OpenStep, OtherStep DEF Next
<1>. QED  BY <1>1, <1>2 DEF SkipInv

(* For every set of files and every command line: whatever the conditions  *)
(* that depgen cannot evaluate come to, it never drops a line that the     *)
(* compiler reads.                                                         *)
THEOREM CompiledBranchesAreRead == Spec => []NothingSkipped
<1>1. SkipInv => NothingSkipped
  BY ActiveAlive DEF SkipInv, NothingSkipped
<1>. QED  BY InitSkip, SkipNext, <1>1, PTL DEF Spec

(* -------------------- where every condition is known ------------------- *)

(* Some part of the first i open #ifs drops what follows.                  *)
Shut(b, i) == \E k \in 1 .. i : \E j \in 1 .. Len(b[k]) : b[k][j] < 0

(* The last state is that of the part that is read; of the parts before it *)
(* the compiled one, if there was one, is negative.                        *)
Exactly(s, g) ==
    /\ g.now => s[Len(s)] > 0
    /\ g.done /\ ~g.now /\ ~g.final => \E j \in 1 .. Len(s) - 1 : s[j] < 0
    /\ ~g.done => s[Len(s)] < 0

Outer(c, i) == \A k \in 1 .. i - 1 : c[k].now

ExactInv ==
    \A i \in 1 .. Len(branch) : /\ ~cpp[i].now => Shut(branch, i)
                                /\ Outer(cpp, i) => Exactly(branch[i], cpp[i])

KnownInv == SkipInv /\ decided \in BOOLEAN /\ (agreed /\ decided => ExactInv)

(* Then the program reads nothing that the compiler does not.              *)
LEMMA AliveActive ==
    ASSUME BranchType, ExactInv, ~IsDead
    PROVE  Active
  <1>1. ASSUME NEW i \in DOMAIN cpp, ~cpp[i].now PROVE FALSE
    <2>1. i \in 1 .. Len(branch) /\ DOMAIN branch = 1 .. Len(branch) /\ Len(branch) \in Nat
      BY DEF BranchType
    <2>2. PICK k \in 1 .. i : \E j \in 1 .. Len(branch[k]) : branch[k][j] < 0
      BY <1>1, <2>1 DEF ExactInv, Shut
    <2>3. k \in 1 .. Len(branch)
      BY <2>1
    <2>4. DOMAIN branch[k] = 1 .. Len(branch[k])
      BY <2>3, LevelTyped
    <2> QED BY <2>1, <2>2, <2>3, <2>4 DEF IsDead, DeadIn
  <1> QED BY <1>1 DEF Active

LEMMA ExactReplaced ==
    ASSUME BranchType, ExactInv, branch # <<>>, NEW s, NEW g,
           Outer(cpp, Len(branch)) => Exactly(s, g) /\ (~g.now => \E j \in 1 .. Len(s) : s[j] < 0),
           branch' = [branch EXCEPT ![Len(branch)] = s],
           cpp' = [cpp EXCEPT ![Len(cpp)] = g]
    PROVE  ExactInv'
  <1> DEFINE n == Len(branch)
  <1>1. n \in Nat /\ n = Len(cpp) /\ DOMAIN branch = 1 .. n /\ DOMAIN cpp = 1 .. n /\ n >= 1
    BY DEF BranchType
  <1>2. /\ Len(branch') = n /\ branch'[n] = s /\ cpp'[n] = g
        /\ \A i \in 1 .. n : i # n => branch'[i] = branch[i] /\ cpp'[i] = cpp[i]
    <2>1. branch' = [i \in 1 .. n |-> IF i = n THEN s ELSE branch[i]]
      BY <1>1
    <2>2. cpp' = [i \in 1 .. n |-> IF i = n THEN g ELSE cpp[i]]
      BY <1>1
    <2> HIDE DEF n
    <2> QED BY <1>1, <2>1, <2>2
  <1>3. \A i \in 1 .. n : (~cpp[i].now => Shut(branch, i)) /\ (Outer(cpp, i) => Exactly(branch[i], cpp[i]))
    BY DEF ExactInv
  <1>4. Outer(cpp, n) => Exactly(s, g) /\ (~g.now => \E j \in 1 .. Len(s) : s[j] < 0)
    OBVIOUS
  <1> HIDE DEF n
  <1>5. ASSUME NEW i \in 1 .. n, i # n
        PROVE  /\ Shut(branch, i) => Shut(branch', i) /\ Shut(branch', n)
               /\ Outer(cpp', i) <=> Outer(cpp, i)
    <2>1. \A k \in 1 .. i : k \in 1 .. n /\ k # n
      BY <1>1, <1>5
    <2>2. \A k \in 1 .. i - 1 : k \in 1 .. i
      BY <1>1
    <2>3. \A k \in 1 .. i : branch'[k] = branch[k] /\ cpp'[k] = cpp[k]
      BY <1>2, <2>1
    <2> QED BY <2>1, <2>2, <2>3 DEF Shut, Outer
  <1>6. Outer(cpp', n) <=> Outer(cpp, n)
    <2>1. \A k \in 1 .. n - 1 : k \in 1 .. n /\ k # n
      BY <1>1
    <2> QED BY <1>2, <2>1 DEF Outer
  <1>7. ~g.now => Shut(branch', n)
    <2>1. CASE Outer(cpp, n)
      <3>1. n \in 1 .. n
        BY <1>1
      <3> QED BY <1>2, <1>4, <2>1, <3>1 DEF Shut
    <2>2. CASE ~Outer(cpp, n)
      <3>1. PICK k \in 1 .. n - 1 : ~cpp[k].now
        BY <2>2 DEF Outer
      <3>2. k \in 1 .. n /\ k # n
        BY <1>1
      <3> QED BY <1>3, <1>5, <3>1, <3>2
    <2> QED BY <2>1, <2>2
  <1>8. ASSUME NEW i \in 1 .. n
        PROVE  (~cpp'[i].now => Shut(branch', i)) /\ (Outer(cpp', i) => Exactly(branch'[i], cpp'[i]))
    <2>1. CASE i = n
      BY <1>2, <1>4, <1>6, <1>7, <2>1
    <2>2. CASE i # n
      BY <1>2, <1>3, <1>5, <2>2
    <2> QED BY <2>1, <2>2
  <1> QED BY <1>2, <1>8 DEF ExactInv

LEMMA ExactIf ==
    ASSUME KnownInv, If
    PROVE  decided' \in BOOLEAN /\ (agreed' /\ decided' => ExactInv')
  <1> DEFINE state == IF IsDead THEN 0 ELSE Evaluated
             g == [now |-> Active /\ True, done |-> ~Active \/ True, final |-> FALSE]
             n == Len(branch)
  <1>1. /\ branch' = Append(branch, <<state>>) /\ cpp' = Append(cpp, g)
        /\ decided' = (decided /\ (IsDead \/ state # 0))
        /\ UNCHANGED agreed /\ Reading /\ Line.kind \in {"ifdef", "if"}
    BY DEF If
  <1>2. IsLine(Line)
    BY <1>1, LineTyped DEF KnownInv, SkipInv
  <1>3. /\ Evaluated \in Cond3
        /\ agreed /\ Evaluated = 1 => True
        /\ agreed /\ Evaluated = -1 => ~True
    BY <1>1, <1>2, EvaluatedTyped, EvaluationSound DEF KnownInv, SkipInv, BranchType, LevelInv
  <1>4. ASSUME agreed, decided'
        PROVE  ExactInv'
    <2>1. LevelInv /\ BranchType /\ ExactInv
      BY <1>1, <1>4 DEF KnownInv, SkipInv
    <2>2. Active => state = Evaluated /\ state # 0
      BY <1>1, <1>4, <2>1, ActiveAlive
    <2>3. /\ g.now <=> Active /\ True
          /\ g.done <=> ~Active \/ True
      OBVIOUS
    <2>4. n \in Nat /\ n = Len(cpp) /\ DOMAIN branch = 1 .. n /\ DOMAIN cpp = 1 .. n
      BY <2>1 DEF BranchType
    <2>5. Active <=> \A k \in 1 .. n : cpp[k].now
      BY <2>4 DEF Active
    <2> HIDE DEF g, state
    <2>6. /\ Len(branch') = n + 1 /\ branch'[n + 1] = <<state>> /\ cpp'[n + 1] = g
          /\ \A i \in 1 .. n : branch'[i] = branch[i] /\ cpp'[i] = cpp[i]
      BY <1>1, <2>1, <2>4 DEF BranchType
    <2>7. Active => Exactly(<<state>>, g) /\ (~g.now => state < 0)
      <3>1. Active => IF True THEN g.now /\ g.done /\ state = 1 ELSE ~g.now /\ ~g.done /\ state = -1
        BY <1>3, <1>4, <2>2, <2>3 DEF Cond3
      <3>2. Len(<<state>>) = 1 /\ <<state>>[1] = state
        OBVIOUS
      <3> QED BY <3>1, <3>2 DEF Exactly
    <2>8. \A i \in 1 .. n : (~cpp[i].now => Shut(branch, i)) /\ (Outer(cpp, i) => Exactly(branch[i], cpp[i]))
      BY <2>1 DEF ExactInv
    <2> HIDE DEF n
    <2>9. ASSUME NEW i \in 1 .. n
          PROVE  /\ Shut(branch, i) => Shut(branch', i) /\ Shut(branch', n + 1)
                 /\ Outer(cpp', i) <=> Outer(cpp, i)
      <3>1. \A k \in 1 .. i : k \in 1 .. n /\ k \in 1 .. n + 1
        BY <2>4
      <3>2. \A k \in 1 .. i - 1 : k \in 1 .. i
        BY <2>4
      <3>3. \A k \in 1 .. i : branch'[k] = branch[k] /\ cpp'[k] = cpp[k]
        BY <2>6, <3>1
      <3> QED BY <3>1, <3>2, <3>3 DEF Shut, Outer
    <2>10. Outer(cpp', n + 1) <=> Active
      <3>1. 1 .. (n + 1) - 1 = 1 .. n
        BY <2>4
      <3>2. Outer(cpp', n + 1) <=> \A k \in 1 .. n : cpp'[k].now
        BY <3>1 DEF Outer
      <3>3. \A k \in 1 .. n : cpp'[k] = cpp[k]
        BY <2>6
      <3> QED BY <2>5, <3>2, <3>3
    <2>11. ~g.now => Shut(branch', n + 1)
      <3>1. CASE Active
        <4>1. n + 1 \in 1 .. n + 1 /\ Len(<<state>>) = 1 /\ 1 \in 1 .. 1 /\ <<state>>[1] = state
          BY <2>4
        <4> QED BY <2>6, <2>7, <3>1, <4>1 DEF Shut
      <3>2. CASE ~Active
        <4>1. PICK k \in 1 .. n : ~cpp[k].now
          BY <2>5, <3>2
        <4> QED BY <2>8, <2>9, <4>1
      <3> QED BY <3>1, <3>2
    <2>12. ASSUME NEW i \in 1 .. n + 1
           PROVE  (~cpp'[i].now => Shut(branch', i)) /\ (Outer(cpp', i) => Exactly(branch'[i], cpp'[i]))
      <3>1. CASE i = n + 1
        BY <2>6, <2>7, <2>10, <2>11, <3>1
      <3>2. CASE i # n + 1
        <4>1. i \in 1 .. n
          BY <2>4, <3>2
        <4> QED BY <2>6, <2>8, <2>9, <4>1
      <3> QED BY <3>1, <3>2
    <2> QED BY <2>6, <2>12 DEF ExactInv
  <1>5. decided' \in BOOLEAN
    <2>1. decided \in BOOLEAN /\ (IsDead \/ state # 0) \in BOOLEAN
      BY DEF KnownInv, IsDead, DeadIn
    <2> HIDE DEF state
    <2> QED BY <1>1, <2>1
  <1> QED BY <1>1, <1>4, <1>5

LEMMA ExactElif ==
    ASSUME KnownInv, Accepts, Elif
    PROVE  decided' \in BOOLEAN /\ (agreed' /\ decided' => ExactInv')
  <1> DEFINE n == Len(branch)
             dead == DeadIn(SwitchElse(branch))
             state == IF dead THEN 0 ELSE Evaluated
             t == Flipped(branch[n])
             s == Append(t, state)
             old == cpp[Len(cpp)]
             g == [now |-> ~old.done /\ True, done |-> old.done \/ True, final |-> FALSE]
  <1>1. /\ branch' = [branch EXCEPT ![n] = s] /\ cpp' = [cpp EXCEPT ![Len(cpp)] = g]
        /\ decided' = (decided /\ (dead \/ state # 0))
        /\ UNCHANGED agreed /\ Reading /\ Line.kind = "elif" /\ branch # <<>> /\ At("elif") /\ ~Raw
    BY DEF Elif, SwitchElif, At
  <1>2. IsLine(Line)
    BY <1>1, LineTyped DEF KnownInv, SkipInv
  <1>3. /\ Evaluated \in Cond3
        /\ agreed /\ Evaluated = 1 => True
        /\ agreed /\ Evaluated = -1 => ~True
    BY <1>1, <1>2, EvaluatedTyped, EvaluationSound DEF KnownInv, SkipInv, BranchType, LevelInv
  <1>4. n \in 1 .. n /\ n = Len(cpp) /\ cpp # <<>>
    BY <1>1 DEF KnownInv, SkipInv, BranchType
  <1>5. /\ branch[n] \in Seq(Cond3) /\ branch[n] # <<>> /\ Len(branch[n]) \in Nat \ {0}
        /\ old.done \in BOOLEAN /\ ~old.final
    BY <1>1, <1>4, LevelTyped DEF KnownInv, SkipInv, Accepts, Last
  <1>6. t \in Seq(Cond3) /\ Len(t) = Len(branch[n])
    BY <1>5, FlippedTyped
  <1>7. t = [branch[n] EXCEPT ![Len(branch[n])] = -@]
    BY DEF Flipped
  <1>8. /\ t[Len(branch[n])] = -branch[n][Len(branch[n])]
        /\ \A j \in 1 .. Len(branch[n]) - 1 : t[j] = branch[n][j]
    <2> HIDE DEF t
    <2>1. t = [j \in 1 .. Len(branch[n]) |-> IF j = Len(branch[n]) THEN -branch[n][j] ELSE branch[n][j]]
      BY <1>5, <1>7
    <2> HIDE DEF n
    <2> QED BY <1>5, <2>1
  <1>9. ASSUME agreed, decided'
        PROVE  ExactInv'
    <2>1. LevelInv /\ BranchType /\ ExactInv
      BY <1>1, <1>9 DEF KnownInv, SkipInv
    <2>2. ~old.done => ~dead
      BY <1>1, <2>1, ElseAlive
    <2>3. ~old.done => state = Evaluated /\ state # 0
      BY <1>1, <1>9, <2>2
    <2>4. Outer(cpp, n) => Exactly(branch[n], cpp[n])
      BY <1>4, <2>1 DEF ExactInv
    <2>5. /\ g.now <=> ~old.done /\ True
          /\ g.done <=> old.done \/ True
      OBVIOUS
    <2> HIDE DEF g, state, t
    <2>6. /\ Len(s) = Len(t) + 1 /\ s[Len(s)] = state
          /\ \A j \in 1 .. Len(t) : s[j] = t[j]
      BY <1>6
    <2> HIDE DEF s
    <2>7. ASSUME Outer(cpp, n)
          PROVE  Exactly(s, g) /\ (~g.now => \E j \in 1 .. Len(s) : s[j] < 0)
      <3>1. CASE old.done
        <4>1. \E j \in 1 .. Len(branch[n]) : t[j] < 0
          <5>1. CASE cpp[n].now
            <6>1. branch[n][Len(branch[n])] > 0
              BY <2>4, <2>7, <5>1 DEF Exactly
            <6>2. Len(branch[n]) \in 1 .. Len(branch[n]) /\ branch[n][Len(branch[n])] \in Int
              BY <1>5 DEF Cond3
            <6>3. t[Len(branch[n])] < 0
              BY <1>8, <6>1, <6>2
            <6> QED BY <6>2, <6>3
          <5>2. CASE ~cpp[n].now
            <6>1. PICK j \in 1 .. Len(branch[n]) - 1 : branch[n][j] < 0
              BY <1>4, <1>5, <2>4, <2>7, <3>1, <5>2 DEF Exactly
            <6>2. j \in 1 .. Len(branch[n])
              BY <1>5
            <6> QED BY <1>8, <6>1, <6>2
          <5> QED BY <5>1, <5>2
        <4>2. \E j \in 1 .. Len(s) - 1 : s[j] < 0
          <5> HIDE DEF n
          <5>1. Len(s) - 1 = Len(t)
            BY <1>5, <1>6, <2>6
          <5> QED BY <1>6, <2>6, <4>1, <5>1
        <4>3. \A j \in 1 .. Len(s) - 1 : j \in 1 .. Len(s)
          <5> HIDE DEF n
          <5> QED BY <1>5, <1>6, <2>6
        <4> QED BY <2>5, <3>1, <4>2, <4>3 DEF Exactly
      <3>2. CASE ~old.done
        <4>1. IF True THEN g.now /\ g.done /\ state = 1 ELSE ~g.now /\ ~g.done /\ state = -1
          BY <1>3, <1>9, <2>3, <2>5, <3>2 DEF Cond3
        <4>2. Len(s) \in 1 .. Len(s)
          <5> HIDE DEF n
          <5> QED BY <1>5, <1>6, <2>6
        <4> QED BY <2>6, <4>1, <4>2 DEF Exactly
      <3> QED BY <3>1, <3>2
    <2> HIDE DEF n
    <2> QED BY <1>1, <2>1, <2>7, ExactReplaced DEF n
  <1>10. decided' \in BOOLEAN
    <2>1. decided \in BOOLEAN /\ (dead \/ state # 0) \in BOOLEAN
      BY DEF KnownInv, DeadIn
    <2> HIDE DEF state, dead
    <2> QED BY <1>1, <2>1
  <1> QED BY <1>1, <1>9, <1>10

LEMMA ExactElse ==
    ASSUME KnownInv, Accepts, Else
    PROVE  decided' \in BOOLEAN /\ (agreed' /\ decided' => ExactInv')
  <1> DEFINE n == Len(branch)
             s == Flipped(branch[n])
             old == cpp[Len(cpp)]
             g == [now |-> ~old.done, done |-> TRUE, final |-> TRUE]
  <1>1. /\ branch' = [branch EXCEPT ![n] = s] /\ cpp' = [cpp EXCEPT ![Len(cpp)] = g]
        /\ UNCHANGED <<agreed, decided>> /\ branch # <<>> /\ At("else") /\ ~Raw
    BY DEF Else, SwitchElse
  <1>2. n \in 1 .. n /\ n = Len(cpp) /\ cpp # <<>>
    BY <1>1 DEF KnownInv, SkipInv, BranchType
  <1>3. /\ branch[n] \in Seq(Cond3) /\ branch[n] # <<>> /\ Len(branch[n]) \in Nat \ {0}
        /\ old.done \in BOOLEAN /\ ~old.final
    BY <1>1, <1>2, LevelTyped DEF KnownInv, SkipInv, Accepts, Last
  <1>4. s \in Seq(Cond3) /\ Len(s) = Len(branch[n])
    BY <1>3, FlippedTyped
  <1>5. /\ s[Len(branch[n])] = -branch[n][Len(branch[n])]
        /\ \A j \in 1 .. Len(branch[n]) - 1 : s[j] = branch[n][j]
    <2>1. s = [j \in 1 .. Len(branch[n]) |-> IF j = Len(branch[n]) THEN -branch[n][j] ELSE branch[n][j]]
      BY <1>3 DEF Flipped
    <2> HIDE DEF n, s
    <2> QED BY <1>3, <2>1
  <1>7. s[Len(s)] = -branch[n][Len(branch[n])] /\ branch[n][Len(branch[n])] \in Int
    BY <1>3, <1>4, <1>5 DEF Cond3
  <1>6. ASSUME agreed, decided
        PROVE  ExactInv'
    <2>1. LevelInv /\ BranchType /\ ExactInv
      BY <1>6 DEF KnownInv, SkipInv
    <2>2. Outer(cpp, n) => Exactly(branch[n], cpp[n])
      BY <1>2, <2>1 DEF ExactInv
    <2>3. g.done /\ g.final /\ (g.now <=> ~old.done)
      OBVIOUS
    <2> HIDE DEF g, s
    <2>4. ASSUME Outer(cpp, n)
          PROVE  Exactly(s, g) /\ (~g.now => \E j \in 1 .. Len(s) : s[j] < 0)
      <3>1. CASE old.done /\ cpp[n].now
        <4>1. branch[n][Len(branch[n])] > 0
          BY <2>2, <2>4, <3>1 DEF Exactly
        <4>2. s[Len(s)] < 0 /\ Len(s) \in 1 .. Len(s)
          BY <1>3, <1>4, <1>7, <4>1
        <4> QED BY <2>3, <3>1, <4>2 DEF Exactly
      <3>2. CASE old.done /\ ~cpp[n].now
        <4>1. PICK j \in 1 .. Len(branch[n]) - 1 : branch[n][j] < 0
          BY <1>2, <1>3, <2>2, <2>4, <3>2 DEF Exactly
        <4>2. j \in 1 .. Len(s) /\ s[j] < 0
          BY <1>3, <1>4, <1>5, <4>1
        <4> QED BY <2>3, <3>2, <4>2 DEF Exactly
      <3>3. CASE ~old.done
        <4>1. branch[n][Len(branch[n])] < 0
          BY <1>2, <2>2, <2>4, <3>3 DEF Exactly
        <4>2. s[Len(s)] > 0
          BY <1>4, <1>7, <4>1
        <4> QED BY <2>3, <3>3, <4>2 DEF Exactly
      <3> QED BY <3>1, <3>2, <3>3
    <2> HIDE DEF n
    <2> QED BY <1>1, <2>1, <2>4, ExactReplaced DEF n
  <1> QED BY <1>1, <1>6 DEF KnownInv

LEMMA ExactEndif ==
    ASSUME KnownInv, Endif
    PROVE  decided' \in BOOLEAN /\ (agreed' /\ decided' => ExactInv')
  <1> DEFINE n == Len(branch)
  <1>1. /\ branch' = Front(branch) /\ cpp' = Front(cpp)
        /\ UNCHANGED <<agreed, decided>> /\ branch # <<>>
    BY DEF Endif
  <1>2. n \in Nat \ {0} /\ n = Len(cpp) /\ cpp # <<>>
    BY <1>1 DEF KnownInv, SkipInv, BranchType
  <1>3. Len(branch') = n - 1
    BY <1>1, <1>2, FrontTyped DEF KnownInv, SkipInv, BranchType
  <1>4. \A i \in 1 .. n - 1 : branch'[i] = branch[i] /\ cpp'[i] = cpp[i]
    BY <1>1, <1>2 DEF KnownInv, SkipInv, BranchType, Front
  <1>5. ASSUME agreed, decided
        PROVE  ExactInv'
    <2>1. \A i \in 1 .. n : (~cpp[i].now => Shut(branch, i)) /\ (Outer(cpp, i) => Exactly(branch[i], cpp[i]))
      BY <1>5 DEF KnownInv, ExactInv
    <2> HIDE DEF n
    <2>2. ASSUME NEW i \in 1 .. n - 1
          PROVE  /\ i \in 1 .. n
                 /\ Shut(branch, i) => Shut(branch', i)
                 /\ Outer(cpp', i) <=> Outer(cpp, i)
      <3>1. i \in 1 .. n /\ \A k \in 1 .. i : k \in 1 .. n - 1
        BY <1>2
      <3>2. \A k \in 1 .. i - 1 : k \in 1 .. i
        BY <1>2
      <3>3. \A k \in 1 .. i : branch'[k] = branch[k] /\ cpp'[k] = cpp[k]
        BY <1>4, <3>1
      <3> QED BY <3>1, <3>2, <3>3 DEF Shut, Outer
    <2>3. \A i \in 1 .. n - 1 : (~cpp'[i].now => Shut(branch', i)) /\ (Outer(cpp', i) => Exactly(branch'[i], cpp'[i]))
      BY <1>4, <2>1, <2>2
    <2> QED BY <1>3, <2>3 DEF ExactInv
  <1> QED BY <1>1, <1>5 DEF KnownInv

LEMMA ExactOther ==
    ASSUME KnownInv,
           \/ Refuse \/ ParseFlag \/ Open \/ Define \/ Include \/ LineControl \/ ModuleStart \/ SubmoduleStart
           \/ ModuleUse \/ IncludeStatement \/ ModuleProcedure \/ ModuleEnd \/ Ignore \/ EndOfFile \/ Write
           \/ UNCHANGED vars
    PROVE  decided' \in BOOLEAN /\ (agreed' /\ decided' => ExactInv')
  <1>1. UNCHANGED decided /\ (UNCHANGED agreed \/ agreed' = (agreed /\ Active))
    <2>1. CASE Refuse \/ ParseFlag \/ Open \/ Include \/ LineControl \/ Ignore \/ EndOfFile \/ Write \/ UNCHANGED vars
      BY <2>1 DEF Refuse, ParseFlag, Open, Include, LineControl, Ignore, EndOfFile, Write, vars, parser, ghost
    <2>2. CASE Define \/ ModuleStart \/ SubmoduleStart \/ ModuleUse \/ IncludeStatement \/ ModuleProcedure \/ ModuleEnd
      BY <2>2 DEF Define, ModuleStart, SubmoduleStart, ModuleUse, IncludeStatement, ModuleProcedure, ModuleEnd, Elsewhere
    <2> QED BY <2>1, <2>2
  <1>2. agreed' => agreed
    BY <1>1
  <1>3. UNCHANGED <<branch, cpp>> \/ branch' = <<>>
    <2>1. CASE Refuse \/ ParseFlag \/ Open \/ Include \/ LineControl \/ Ignore \/ EndOfFile \/ Write \/ UNCHANGED vars
      BY <2>1 DEF Refuse, ParseFlag, Open, Include, LineControl, Ignore, EndOfFile, Write, vars, parser, ghost
    <2>2. CASE Define \/ ModuleStart \/ SubmoduleStart \/ ModuleUse \/ IncludeStatement \/ ModuleProcedure \/ ModuleEnd
      BY <2>2 DEF Define, ModuleStart, SubmoduleStart, ModuleUse, IncludeStatement, ModuleProcedure, ModuleEnd, Elsewhere
    <2> QED BY <2>1, <2>2
  <1>4. ExactInv => ExactInv'
    <2>1. CASE UNCHANGED <<branch, cpp>>
      BY <2>1 DEF ExactInv, Shut, Exactly, Outer
    <2>2. CASE branch' = <<>>
      BY <2>2 DEF ExactInv
    <2> QED BY <1>3, <2>1, <2>2
  <1> QED BY <1>1, <1>2, <1>4 DEF KnownInv

(* ------------------------- what the files name ------------------------- *)

Fields == DOMAIN Nothing

(* The program has found what the compiler has seen, and is in the same    *)
(* module; once it knows that submodules extend the module, it has noted.  *)
Covered ==
    /\ \A f \in Fields : seen[f] \subseteq found[f]
    /\ current_module = cpp_module
    /\ extendable => call.fc_root_smod
    /\ extendable /\ pc \in {"read", "write"} =>
           current_module # None /\ <<current_module, None>> \in found.provided_submodules

FoundInv ==
    /\ DOMAIN found = Fields /\ DOMAIN seen = Fields
    /\ agreed => Covered
    /\ agreed /\ decided => \A f \in Fields : found[f] \subseteq seen[f]

GenInv == KnownInv /\ FoundInv

(* What a line adds to one of the sets it adds to the other.               *)
Grown ==
    /\ DOMAIN found' = Fields /\ DOMAIN seen' = Fields
    /\ \A f \in Fields : found[f] \subseteq found'[f]
    /\ (\A f \in Fields : seen[f] \subseteq found[f]) => \A f \in Fields : seen'[f] \subseteq found'[f]
    /\ Active /\ (\A f \in Fields : found[f] \subseteq seen[f]) => \A f \in Fields : found'[f] \subseteq seen'[f]

LEMMA FieldNames ==
    Fields = {"included_files", "lc_files", "provided_modules", "required_modules",
              "provided_submodules", "required_submodules"}
  BY DEF Fields, Nothing

LEMMA GrownByNothing ==
    ASSUME DOMAIN found = Fields, DOMAIN seen = Fields, UNCHANGED <<found, seen>>
    PROVE  Grown
  BY DEF Grown

LEMMA GrownByOne ==
    ASSUME DOMAIN found = Fields, DOMAIN seen = Fields, NEW field \in Fields, NEW S, Collect(field, S)
    PROVE  Grown
  <1>1. /\ DOMAIN found' = Fields
        /\ \A f \in Fields : found'[f] = IF f = field THEN found[f] \union S ELSE found[f]
    BY DEF Collect
  <1>2. /\ DOMAIN seen' = Fields
        /\ \A f \in Fields : seen'[f] = IF f = field /\ Active THEN seen[f] \union S ELSE seen[f]
    <2>1. CASE Active
      BY <2>1 DEF Collect
    <2>2. CASE ~Active
      BY <2>2 DEF Collect
    <2> QED BY <2>1, <2>2
  <1> HIDE DEF Fields
  <1>3. ASSUME NEW f \in Fields
        PROVE  /\ found[f] \subseteq found'[f]
               /\ seen[f] \subseteq found[f] => seen'[f] \subseteq found'[f]
               /\ Active /\ found[f] \subseteq seen[f] => found'[f] \subseteq seen'[f]
    <2>1. CASE f = field
      BY <1>1, <1>2, <2>1
    <2>2. CASE f # field
      BY <1>1, <1>2, <2>2
    <2> QED BY <2>1, <2>2
  <1> QED BY <1>1, <1>2, <1>3 DEF Grown

LEMMA GrownByTwo ==
    ASSUME DOMAIN found = Fields, DOMAIN seen = Fields, SubmoduleStart
    PROVE  Grown
  <1> DEFINE ofParent == Line.parent # None \/ call.fc_root_smod
             noted == [provided_submodules |-> {<<Line.module, Line.name>>},
                       required_submodules |-> IF ofParent THEN {<<Line.module, Line.parent>>} ELSE {},
                       required_modules |-> IF ofParent THEN {} ELSE {Line.module}]
             with(set) == [f \in DOMAIN set |-> IF f \in DOMAIN noted THEN set[f] \union noted[f] ELSE set[f]]
  <1>1. found' = with(found) /\ seen' = IF Active THEN with(seen) ELSE seen
    BY DEF SubmoduleStart
  <1> HIDE DEF noted
  <1>2. /\ DOMAIN found' = Fields
        /\ \A f \in Fields : found'[f] = IF f \in DOMAIN noted THEN found[f] \union noted[f] ELSE found[f]
    BY <1>1
  <1>3. /\ DOMAIN seen' = Fields
        /\ \A f \in Fields : seen'[f] = IF f \in DOMAIN noted /\ Active THEN seen[f] \union noted[f] ELSE seen[f]
    <2>1. CASE Active
      BY <1>1, <2>1
    <2>2. CASE ~Active
      BY <1>1, <2>2
    <2> QED BY <2>1, <2>2
  <1> HIDE DEF Fields
  <1>4. ASSUME NEW f \in Fields
        PROVE  /\ found[f] \subseteq found'[f]
               /\ seen[f] \subseteq found[f] => seen'[f] \subseteq found'[f]
               /\ Active /\ found[f] \subseteq seen[f] => found'[f] \subseteq seen'[f]
    <2>1. CASE f \in DOMAIN noted
      BY <1>2, <1>3, <2>1
    <2>2. CASE f \notin DOMAIN noted
      BY <1>2, <1>3, <2>2
    <2> QED BY <2>1, <2>2
  <1> QED BY <1>2, <1>3, <1>4 DEF Grown

(* The root submodule is noted at the first procedure of the module only;  *)
(* the compiler writes its file all the same.                              *)
LEMMA GrownByProcedure ==
    ASSUME DOMAIN found = Fields, DOMAIN seen = Fields, ModuleProcedure, Covered, pc = "read"
    PROVE  /\ Grown
           /\ current_module # None => <<current_module, None>> \in found'.provided_submodules
  <1> DEFINE root == IF current_module = None THEN {} ELSE {<<current_module, None>>}
             fresh == IF extendable THEN {} ELSE root
  <1>1. /\ found' = [found EXCEPT !.provided_submodules = @ \union fresh]
        /\ seen' = IF Active THEN [seen EXCEPT !.provided_submodules = @ \union root] ELSE seen
    BY DEF ModuleProcedure, Covered
  <1>2. root \subseteq fresh \union found.provided_submodules /\ fresh \subseteq root
    BY DEF Covered
  <1>3. "provided_submodules" \in Fields
    BY FieldNames
  <1> HIDE DEF Fields, root, fresh
  <1>4. /\ DOMAIN found' = Fields
        /\ found'.provided_submodules = found.provided_submodules \union fresh
        /\ \A f \in Fields : f # "provided_submodules" => found'[f] = found[f]
    BY <1>1, <1>3
  <1>5. /\ DOMAIN seen' = Fields
        /\ seen'.provided_submodules = IF Active THEN seen.provided_submodules \union root ELSE seen.provided_submodules
        /\ \A f \in Fields : f # "provided_submodules" => seen'[f] = seen[f]
    <2>1. CASE Active
      BY <1>1, <1>3, <2>1
    <2>2. CASE ~Active
      BY <1>1, <2>2
    <2> QED BY <2>1, <2>2
  <1>6. ASSUME NEW f \in Fields
        PROVE  /\ found[f] \subseteq found'[f]
               /\ seen[f] \subseteq found[f] => seen'[f] \subseteq found'[f]
               /\ Active /\ found[f] \subseteq seen[f] => found'[f] \subseteq seen'[f]
    <2>1. CASE f = "provided_submodules"
      BY <1>2, <1>4, <1>5, <2>1
    <2>2. CASE f # "provided_submodules"
      BY <1>4, <1>5, <2>2
    <2> QED BY <2>1, <2>2
  <1>7. current_module # None => <<current_module, None>> \in found'.provided_submodules
    BY <1>2, <1>4 DEF root
  <1> QED BY <1>4, <1>5, <1>6, <1>7 DEF Grown

LEMMA FoundKept ==
    ASSUME GenInv, Grown, pc = "read", UNCHANGED <<call, current_module, extendable, cpp_module>>,
           agreed' => agreed, decided' => decided, ~IsDead \/ UNCHANGED <<found, seen>>
    PROVE  FoundInv'
  <1>1. Fields' = Fields
    BY DEF Fields, Nothing
  <1>2. agreed' => Covered'
    <2>1. SUFFICES ASSUME agreed' PROVE Covered'
      OBVIOUS
    <2>2. Covered
      BY <2>1 DEF GenInv, FoundInv
    <2>3. found.provided_submodules \subseteq found'.provided_submodules
      BY FieldNames DEF Grown
    <2>4. \A f \in Fields : seen'[f] \subseteq found'[f]
      BY <2>2 DEF Covered, Grown
    <2> QED BY <1>1, <2>2, <2>3, <2>4 DEF Covered
  <1>3. agreed' /\ decided' => \A f \in Fields : found'[f] \subseteq seen'[f]
    <2>1. SUFFICES ASSUME agreed', decided' PROVE \A f \in Fields : found'[f] \subseteq seen'[f]
      OBVIOUS
    <2>2. BranchType /\ ExactInv /\ \A f \in Fields : found[f] \subseteq seen[f]
      BY <2>1 DEF GenInv, KnownInv, SkipInv, FoundInv
    <2>3. Active \/ UNCHANGED <<found, seen>>
      BY <2>2, AliveActive
    <2> QED BY <2>2, <2>3 DEF Grown
  <1>4. DOMAIN found' = Fields /\ DOMAIN seen' = Fields
    BY DEF Grown
  <1> HIDE DEF Fields
  <1> QED BY <1>1, <1>2, <1>3, <1>4 DEF FoundInv

LEMMA FoundByLine ==
    ASSUME GenInv, If \/ Elif \/ Else \/ Endif \/ Define \/ Ignore \/ EndOfFile
    PROVE  FoundInv'
  <1>1. /\ pc = "read" /\ UNCHANGED <<call, current_module, extendable, cpp_module, found, seen>>
        /\ (UNCHANGED agreed \/ agreed' = (agreed /\ Active))
    BY DEF If, Elif, Else, Endif, Define, Ignore, EndOfFile, At, Reading, args, ghost
  <1>2. decided' => decided
    BY DEF If, Elif, Else, Endif, Define, Ignore, EndOfFile, ghost
  <1>3. agreed' => agreed
    BY <1>1
  <1>4. Grown
    BY <1>1, GrownByNothing DEF GenInv, FoundInv
  <1> QED BY <1>1, <1>2, <1>3, <1>4, FoundKept

LEMMA FoundByName ==
    ASSUME GenInv, Include \/ LineControl \/ SubmoduleStart \/ ModuleUse \/ IncludeStatement
    PROVE  FoundInv'
  <1>1. /\ pc = "read" /\ UNCHANGED <<call, current_module, extendable, cpp_module, agreed, decided>>
        /\ ~IsDead
    BY DEF Include, LineControl, SubmoduleStart, ModuleUse, IncludeStatement, Statement, At, Reading, args, Elsewhere
  <1>2. DOMAIN found = Fields /\ DOMAIN seen = Fields
    BY DEF GenInv, FoundInv
  <1>3. Grown
    <2>1. CASE Include
      <3>1. UNCHANGED <<found, seen>> \/ \E S : Collect("included_files", S)
        BY <2>1 DEF Include
      <3>2. "included_files" \in Fields
        BY FieldNames
      <3> QED BY <1>2, <3>1, <3>2, GrownByNothing, GrownByOne
    <2>2. CASE LineControl
      <3>1. UNCHANGED <<found, seen>> \/ \E S : Collect("lc_files", S)
        BY <2>2 DEF LineControl
      <3>2. "lc_files" \in Fields
        BY FieldNames
      <3> QED BY <1>2, <3>1, <3>2, GrownByNothing, GrownByOne
    <2>3. CASE SubmoduleStart
      BY <1>2, <2>3, GrownByTwo
    <2>4. CASE ModuleUse
      <3>1. UNCHANGED <<found, seen>> \/ \E S : Collect("required_modules", S)
        BY <2>4 DEF ModuleUse
      <3>2. "required_modules" \in Fields
        BY FieldNames
      <3> QED BY <1>2, <3>1, <3>2, GrownByNothing, GrownByOne
    <2>5. CASE IncludeStatement
      <3>1. UNCHANGED <<found, seen>> \/ \E S : Collect("included_files", S)
        BY <2>5 DEF IncludeStatement
      <3>2. "included_files" \in Fields
        BY FieldNames
      <3> QED BY <1>2, <3>1, <3>2, GrownByNothing, GrownByOne
    <2> QED BY <2>1, <2>2, <2>3, <2>4, <2>5
  <1> QED BY <1>1, <1>3, FoundKept

(* The modules of a file: where one starts none is open.                   *)
LEMMA FoundByModule ==
    ASSUME GenInv, Accepts, ModuleStart
    PROVE  FoundInv'
  <1>1. /\ At("module") /\ ~IsDead /\ pc = "read"
        /\ current_module' = Line.module /\ Collect("provided_modules", {Line.module})
        /\ cpp_module' = IF Active THEN Line.module ELSE cpp_module
        /\ agreed' = (agreed /\ Active) /\ UNCHANGED <<call, decided, extendable>>
    BY DEF ModuleStart, Statement, Elsewhere, args, At, Reading
  <1>2. "provided_modules" \in Fields /\ DOMAIN found = Fields /\ DOMAIN seen = Fields
    BY FieldNames DEF GenInv, FoundInv
  <1>3. Grown
    BY <1>1, <1>2, GrownByOne
  <1>4. Fields' = Fields
    BY DEF Fields, Nothing
  <1>5. agreed' => Covered'
    <2>1. SUFFICES ASSUME agreed' PROVE Covered'
      OBVIOUS
    <2>2. Covered /\ Active
      BY <1>1, <2>1 DEF GenInv, FoundInv
    <2>3. ~extendable
      BY <1>1, <2>2 DEF Accepts, Covered
    <2>4. \A f \in Fields : seen'[f] \subseteq found'[f]
      BY <1>3, <2>2 DEF Covered, Grown
    <2> QED BY <1>1, <1>4, <2>2, <2>3, <2>4 DEF Covered
  <1>6. agreed' /\ decided' => \A f \in Fields : found'[f] \subseteq seen'[f]
    BY <1>1, <1>3 DEF GenInv, FoundInv, Grown
  <1> HIDE DEF Fields
  <1> QED BY <1>3, <1>4, <1>5, <1>6 DEF FoundInv, Grown

LEMMA FoundByProcedure ==
    ASSUME GenInv, ModuleProcedure
    PROVE  FoundInv'
  <1>1. /\ ~IsDead /\ pc = "read" /\ call.fc_root_smod
        /\ extendable' = (extendable \/ current_module # None)
        /\ UNCHANGED <<call, pc, current_module, cpp_module, agreed, decided>>
    BY DEF ModuleProcedure, Statement, Elsewhere, args, At, Reading
  <1>2. DOMAIN found = Fields /\ DOMAIN seen = Fields
    BY DEF GenInv, FoundInv
  <1>3. Fields' = Fields
    BY DEF Fields, Nothing
  <1>4. CASE agreed
    <2>1. Covered
      BY <1>4 DEF GenInv, FoundInv
    <2>2. Grown /\ (current_module # None => <<current_module, None>> \in found'.provided_submodules)
      BY <1>1, <1>2, <2>1, GrownByProcedure
    <2>3. Covered'
      <3>1. \A f \in Fields : seen'[f] \subseteq found'[f]
        BY <2>1, <2>2 DEF Covered, Grown
      <3>2. extendable' => current_module # None
        BY <1>1, <2>1 DEF Covered
      <3> QED BY <1>1, <1>3, <2>1, <2>2, <3>1, <3>2 DEF Covered
    <2>4. decided => \A f \in Fields : found'[f] \subseteq seen'[f]
      <3>1. SUFFICES ASSUME decided PROVE \A f \in Fields : found'[f] \subseteq seen'[f]
        OBVIOUS
      <3>2. BranchType /\ ExactInv /\ \A f \in Fields : found[f] \subseteq seen[f]
        BY <1>4, <3>1 DEF GenInv, KnownInv, SkipInv, FoundInv
      <3>3. Active
        BY <1>1, <3>2, AliveActive
      <3> QED BY <2>2, <3>2, <3>3 DEF Grown
    <2> HIDE DEF Fields
    <2> QED BY <1>1, <1>3, <1>4, <2>2, <2>3, <2>4 DEF FoundInv, Grown
  <1>5. CASE ~agreed
    <2>1. DOMAIN found' = Fields
      BY <1>2 DEF ModuleProcedure
    <2>2. DOMAIN seen' = Fields
      <3>1. CASE Active
        BY <1>2, <3>1 DEF ModuleProcedure
      <3>2. CASE ~Active
        BY <1>2, <3>2 DEF ModuleProcedure
      <3> QED BY <3>1, <3>2
    <2> HIDE DEF Fields
    <2> QED BY <1>1, <1>3, <1>5, <2>1, <2>2 DEF FoundInv
  <1> QED BY <1>4, <1>5

LEMMA FoundByRest ==
    ASSUME GenInv, ModuleEnd \/ Open \/ Write \/ Refuse \/ ParseFlag \/ UNCHANGED vars
    PROVE  FoundInv'
  <1>1. Fields' = Fields
    BY DEF Fields, Nothing
  <1>2. CASE ModuleEnd
    <2>1. /\ current_module' = None /\ extendable' = FALSE /\ cpp_module' = IF Active THEN None ELSE cpp_module
          /\ agreed' = (agreed /\ Active) /\ UNCHANGED <<found, seen, decided>>
      BY <1>2 DEF ModuleEnd, Elsewhere
    <2> QED BY <1>1, <2>1 DEF GenInv, FoundInv, Covered
  <1>3. CASE Open
    <2>1. /\ current_module' = None /\ extendable' = FALSE /\ cpp_module' = None
          /\ UNCHANGED <<found, seen, agreed, decided>>
      BY <1>3 DEF Open
    <2> QED BY <1>1, <2>1 DEF GenInv, FoundInv, Covered
  <1>4. CASE Write
    <2>1. /\ found' = Nothing /\ seen' = Nothing /\ pc' \in {"done", "open"}
          /\ UNCHANGED <<call, current_module, extendable, cpp_module, agreed, decided>>
      BY <1>4 DEF Write, args
    <2>2. DOMAIN found' = Fields /\ DOMAIN seen' = Fields
      BY <2>1 DEF Fields
    <2> HIDE DEF Fields
    <2> QED BY <1>1, <2>1, <2>2 DEF GenInv, FoundInv, Covered
  <1>5. CASE Refuse \/ ParseFlag \/ UNCHANGED vars
    <2>1. /\ UNCHANGED <<call, current_module, extendable, cpp_module, found, seen, agreed, decided>>
          /\ pc' = pc \/ pc' = "error"
      BY <1>5 DEF Refuse, ParseFlag, vars, args, parser, ghost
    <2> QED BY <1>1, <2>1 DEF GenInv, FoundInv, Covered
  <1> QED BY <1>2, <1>3, <1>4, <1>5

LEMMA GenInit == Init => GenInv
  <1> SUFFICES ASSUME Init PROVE GenInv
    OBVIOUS
  <1>1. decided \in BOOLEAN /\ ExactInv
    BY DEF Init, ExactInv
  <1>2. FoundInv
    <2>1. found = Nothing /\ seen = Nothing /\ current_module = cpp_module /\ ~extendable
      BY DEF Init
    <2>2. DOMAIN found = Fields /\ DOMAIN seen = Fields
      BY <2>1 DEF Fields
    <2> HIDE DEF Fields
    <2> QED BY <2>1, <2>2 DEF FoundInv, Covered
  <1> QED BY InitSkip, <1>1, <1>2 DEF GenInv, KnownInv

LEMMA GenNext == GenInv /\ Accepts /\ [Next]_vars => GenInv'
  <1> SUFFICES ASSUME GenInv, Accepts, [Next]_vars PROVE GenInv'
    OBVIOUS
  <1>1. SkipInv' /\ KnownInv
    BY SkipNext DEF GenInv, KnownInv
  <1>2. decided' \in BOOLEAN /\ (agreed' /\ decided' => ExactInv')
    BY <1>1, ExactIf, ExactElif, ExactElse, ExactEndif, ExactOther DEF Next
  <1>3. FoundInv'
    BY FoundByLine, FoundByName, FoundByModule, FoundByProcedure, FoundByRest DEF Next
  <1> QED BY <1>1, <1>2, <1>3 DEF GenInv, KnownInv

(* Of the lines that a compiler accepts the program misses no file that is *)
(* read and no module that is used or made, for every set of files, every  *)
(* command line and every truth of the conditions that it cannot evaluate. *)
THEOREM NothingIsMissed == Spec /\ []Accepts => []NothingMissed
  <1>1. GenInv => NothingMissed
    BY DEF GenInv, FoundInv, Covered, NothingMissed
  <1> QED BY GenInit, GenNext, <1>1, PTL DEF Spec

(* And if it can evaluate them all it finds none besides, whatever #if,    *)
(* #elif and #else surround them and however often they are redefined.     *)
THEOREM NothingIsForeign == Spec /\ []Accepts => []NothingForeign
  <1>1. GenInv => NothingForeign
    BY AliveActive DEF GenInv, KnownInv, SkipInv, FoundInv, NothingForeign
  <1> QED BY GenInit, GenNext, <1>1, PTL DEF Spec

(* ------------------------------- the rules ----------------------------- *)

(* The rules of input i, if g is what was found in it.                     *)
ProvidedFiles(g) == ModuleFiles(g.provided_modules) \union SubmoduleFiles(g.provided_submodules)
RequiredFiles(g) == ModuleFiles(g.required_modules \ g.provided_modules)
                    \union SubmoduleFiles(g.required_submodules \ g.provided_submodules)
Extended(g) == ModuleFiles({ms[1] : ms \in g.provided_submodules} \ g.provided_modules)
SomeModule(g) == \/ g.provided_modules \union g.required_modules # {}
                 \/ g.provided_submodules \union g.required_submodules # {}

LineRules(i, g) == IF SrcNames[i] = NoPath THEN {} ELSE Rule({SrcNames[i]}, g.lc_files, {})
IncludeRules(i, g) ==
    Rule(Named({ObjNames[i], DepNames[i], StampNames[i]}), Named({SrcNames[i]}) \union g.included_files, {})
MadeRules(i, g) == Rule(ProvidedFiles(g), Named({StampOf(i)}), {})
UsedRules(i, g) == IF StampOf(i) = NoPath THEN {}
                   ELSE Rule(Named({ObjNames[i], StampOf(i)}), RequiredFiles(g), {})
HintRules(i, g) == IF ObjNames[i] = NoPath THEN {}
                   ELSE Rule(Extended(g) \union ({StampOf(i)} \ {ObjNames[i]}), {}, {ObjNames[i]})
ModuleRules(i, g) == IF ~SomeModule(g) THEN {} ELSE MadeRules(i, g) \union UsedRules(i, g) \union HintRules(i, g)
RulesOf(i, g) == LineRules(i, g) \union IncludeRules(i, g) \union ModuleRules(i, g)

LEMMA RulesWritten == LineControlDeps \union IncludeDeps \union ModuleDeps = RulesOf(input, found)
  <1>1. LineControlDeps = LineRules(input, found)
    BY Zenon DEF LineControlDeps, LineRules, Src
  <1>2. IncludeDeps = IncludeRules(input, found)
    BY Zenon DEF IncludeDeps, IncludeRules, Src, Obj
  <1>3. ModuleDeps = ModuleRules(input, found)
    <2>1. Stamp = StampOf(input)
      BY Zenon DEF Stamp, StampOf, Obj
    <2>2. ModuleDeps = IF ~SomeModule(found) THEN {}
                       ELSE Rule(ProvidedFiles(found), Named({Stamp}), {})
                            \union (IF Stamp = NoPath THEN {} ELSE Rule(Named({Obj, Stamp}), RequiredFiles(found), {}))
                            \union (IF Obj = NoPath THEN {}
                                    ELSE Rule(Extended(found) \union ({Stamp} \ {Obj}), {}, {Obj}))
      BY Zenon DEF ModuleDeps, SomeModule, ProvidedFiles, RequiredFiles, Extended, Required
    <2> QED BY <2>1, <2>2, Zenon DEF ModuleRules, MadeRules, UsedRules, HintRules, Obj
  <1> QED BY <1>1, <1>2, <1>3 DEF RulesOf

(* What was found holds what the compiler saw, and is it if all conditions *)
(* were known.                                                             *)
Foreseen(g, c) ==
    /\ \A f \in Fields : c[f] \subseteq g[f]
    /\ decided => \A f \in Fields : g[f] \subseteq c[f]

RuleInv ==
    /\ \E A : output \in Seq(A)
    /\ \E A : compiled \in Seq(A)
    /\ Len(output) = Len(compiled)
    /\ Len(output) = IF pc \in {"read", "write"} THEN input - 1 ELSE input
    /\ agreed => \A i \in 1 .. Len(output) : \E g : output[i] = RulesOf(i, g) /\ Foreseen(g, compiled[i])

LEMMA Appended ==
    ASSUME NEW A, NEW s \in Seq(A), NEW x
    PROVE  /\ Append(s, x) \in Seq(A \union {x}) /\ Len(Append(s, x)) = Len(s) + 1
           /\ \A i \in 1 .. Len(s) : Append(s, x)[i] = s[i]
           /\ Append(s, x)[Len(s) + 1] = x
  <1>1. s \in Seq(A \union {x})
    OBVIOUS
  <1> QED BY <1>1

LEMMA RuleInit == Init => RuleInv
  <1> SUFFICES ASSUME Init PROVE RuleInv
    OBVIOUS
  <1>1. output = <<>> /\ compiled = <<>> /\ pc = "args" /\ input = 0
    BY DEF Init
  <1>2. output \in Seq({}) /\ compiled \in Seq({})
    BY <1>1
  <1>3. Len(output) = 0 /\ Len(compiled) = 0
    BY <1>1
  <1> QED BY <1>1, <1>2, <1>3 DEF RuleInv

LEMMA RulesStay ==
    ASSUME call' = call, decided' => decided, NEW i, NEW g, NEW c
    PROVE  RulesOf(i, g)' = RulesOf(i, g) /\ (Foreseen(g, c) => Foreseen(g, c)')
  <1>1. /\ SrcNames' = SrcNames /\ ObjNames' = ObjNames /\ DepNames' = DepNames /\ StampNames' = StampNames
    BY DEF SrcNames, ObjNames, DepNames, StampNames
  <1>2. StampOf(i)' = StampOf(i)
    BY <1>1 DEF StampOf
  <1>3. ProvidedFiles(g)' = ProvidedFiles(g) /\ RequiredFiles(g)' = RequiredFiles(g)
    BY DEF ProvidedFiles, RequiredFiles, SubmoduleFiles
  <1>4. RulesOf(i, g)' = RulesOf(i, g)
    BY <1>1, <1>2, <1>3 DEF RulesOf, LineRules, IncludeRules, ModuleRules, MadeRules, UsedRules, HintRules
  <1>5. Foreseen(g, c) => Foreseen(g, c)'
    <2>1. Fields' = Fields
      BY DEF Fields, Nothing
    <2> QED BY <2>1 DEF Foreseen
  <1> QED BY <1>4, <1>5

LEMMA RuleNext ==
    ASSUME GenInv, RuleInv, [Next]_vars
    PROVE  RuleInv'
  <1>0. input \in Nat
    BY DEF GenInv, KnownInv, SkipInv, StackInv
  <1>1. CASE Write
    <2>1. /\ pc = "write" /\ pc' \in {"done", "open"} /\ UNCHANGED <<call, input, agreed, decided>>
          /\ compiled' = Append(compiled, seen)
      BY <1>1 DEF Write, args
    <2>2. output' = Append(output, RulesOf(input, found))
      BY <1>1, RulesWritten DEF Write
    <2>3. PICK A, B : output \in Seq(A) /\ compiled \in Seq(B)
      BY DEF RuleInv
    <2>4. Len(output) = input - 1 /\ Len(compiled) = Len(output)
      BY <2>1 DEF RuleInv
    <2>5. PICK o, c : o = output' /\ c = compiled'
      OBVIOUS
    <2>6. PICK r : r = RulesOf(input, found)
      OBVIOUS
    <2>7. /\ o \in Seq(A \union {r}) /\ Len(o) = Len(output) + 1
          /\ \A i \in 1 .. Len(output) : o[i] = output[i]
          /\ o[Len(output) + 1] = r
      BY <2>2, <2>3, <2>5, <2>6, Appended
    <2>8. /\ c \in Seq(B \union {seen}) /\ Len(c) = Len(compiled) + 1
          /\ \A i \in 1 .. Len(compiled) : c[i] = compiled[i]
          /\ c[Len(compiled) + 1] = seen
      BY <2>1, <2>3, <2>5, Appended
    <2>9. ASSUME agreed, NEW i \in 1 .. Len(o) PROVE \E g : o[i] = RulesOf(i, g)' /\ Foreseen(g, c[i])'
      <3>1. CASE i = input
        <4>1. o[i] = RulesOf(i, found) /\ c[i] = seen
          BY <3>1, <2>4, <2>6, <2>7, <2>8, <1>0
        <4>2. Foreseen(found, seen)
          BY <2>9 DEF GenInv, FoundInv, Covered, Foreseen
        <4>3. PICK g, x : g = found /\ x = seen
          OBVIOUS
        <4>4. o[i] = RulesOf(i, g) /\ Foreseen(g, x) /\ c[i] = x
          BY <4>1, <4>2, <4>3
        <4>5. RulesOf(i, g)' = RulesOf(i, g) /\ (Foreseen(g, x) => Foreseen(g, x)')
          BY <2>1, RulesStay
        <4>6. o[i] = RulesOf(i, g)' /\ Foreseen(g, c[i])'
          BY <4>4, <4>5 DEF Foreseen
        <4> QED BY <4>6
      <3>2. CASE i # input
        <4>1. i \in 1 .. Len(output) /\ i \in 1 .. Len(compiled)
          BY <3>2, <2>4, <2>7, <1>0
        <4>2. PICK g : output[i] = RulesOf(i, g) /\ Foreseen(g, compiled[i])
          BY <4>1, <2>9 DEF RuleInv
        <4>3. PICK x : x = compiled[i]
          OBVIOUS
        <4>4. o[i] = RulesOf(i, g) /\ Foreseen(g, x) /\ c[i] = x
          BY <4>1, <4>2, <4>3, <2>7, <2>8
        <4>5. RulesOf(i, g)' = RulesOf(i, g) /\ (Foreseen(g, x) => Foreseen(g, x)')
          BY <2>1, RulesStay
        <4>6. o[i] = RulesOf(i, g)' /\ Foreseen(g, c[i])'
          BY <4>4, <4>5 DEF Foreseen
        <4> QED BY <4>6
      <3> QED BY <3>1, <3>2
    <2>10. Len(o) = Len(c) /\ Len(o) = input
      BY <2>4, <2>7, <2>8, <1>0
    <2> QED BY <2>1, <2>5, <2>7, <2>8, <2>9, <2>10 DEF RuleInv
  <1>2. CASE ~Write
    <2>1. /\ UNCHANGED <<call, output, compiled>>
          /\ agreed' => agreed
          /\ decided' => decided
          /\ \/ input' = input /\ (pc' \in {"read", "write"} <=> pc \in {"read", "write"})
             \/ input' = input + 1 /\ pc' = "read" /\ pc \in {"open", "args"}
      <3>1. CASE Refuse \/ ParseFlag \/ Open \/ UNCHANGED vars
        BY <3>1 DEF Refuse, ParseFlag, Open, vars, args, ghost
      <3>2. CASE If \/ Elif \/ Else \/ Endif \/ Define \/ Ignore \/ EndOfFile \/ Include \/ LineControl
        <4>1. /\ UNCHANGED <<call, output, compiled, input>> /\ pc = "read" /\ pc' \in {"read", "write"}
              /\ UNCHANGED agreed \/ agreed' = (agreed /\ Active)
          BY <3>2 DEF If, Elif, Else, Endif, Define, Ignore, EndOfFile, Include, LineControl, At, Reading, args, ghost
        <4>2. decided' => decided
          BY <3>2 DEF If, Elif, Else, Endif, Define, Ignore, EndOfFile, Include, LineControl, ghost
        <4>3. agreed' => agreed
          BY <4>1
        <4> QED BY <4>1, <4>2, <4>3
      <3>3. CASE ModuleStart \/ SubmoduleStart \/ ModuleUse \/ IncludeStatement \/ ModuleProcedure \/ ModuleEnd
        <4>1. pc = "read" /\ UNCHANGED Elsewhere
          BY <3>3 DEF ModuleStart, SubmoduleStart, ModuleUse, IncludeStatement, ModuleProcedure, ModuleEnd,
                      Statement, At, Reading, Elsewhere
        <4>2. UNCHANGED agreed \/ agreed' = (agreed /\ Active)
          BY <3>3 DEF ModuleStart, SubmoduleStart, ModuleUse, IncludeStatement, ModuleProcedure, ModuleEnd
        <4>3. agreed' => agreed
          BY <4>2
        <4>4. UNCHANGED <<call, output, compiled, pc, input, decided>>
          BY <4>1 DEF Elsewhere, args
        <4> QED BY <4>3, <4>4
      <3> QED BY <1>2, <3>1, <3>2, <3>3 DEF Next
    <2>2. Len(output) = IF pc' \in {"read", "write"} THEN input' - 1 ELSE input'
      <3>1. Len(output) = IF pc \in {"read", "write"} THEN input - 1 ELSE input
        BY DEF RuleInv
      <3> QED BY <3>1, <2>1, <1>0
    <2>3. ASSUME agreed', NEW i \in 1 .. Len(output)
          PROVE  \E g : output[i] = RulesOf(i, g)' /\ Foreseen(g, compiled[i])'
      <3>1. PICK g : output[i] = RulesOf(i, g) /\ Foreseen(g, compiled[i])
        BY <2>1, <2>3 DEF RuleInv
      <3>2. PICK x : x = compiled[i]
        OBVIOUS
      <3>3. RulesOf(i, g)' = RulesOf(i, g) /\ (Foreseen(g, x) => Foreseen(g, x)')
        BY <2>1, RulesStay
      <3>4. compiled'[i] = x
        BY <2>1, <3>2
      <3>5. output[i] = RulesOf(i, g)' /\ Foreseen(g, compiled[i])'
        <4>1. output[i] = RulesOf(i, g)'
          BY <3>1, <3>3
        <4>2. Foreseen(g, x)'
          BY <3>1, <3>2, <3>3
        <4> QED BY <3>4, <4>1, <4>2 DEF Foreseen
      <3> QED BY <3>5
    <2>4. Len(output) = Len(compiled) /\ (\E A : output \in Seq(A)) /\ (\E A : compiled \in Seq(A))
      BY DEF RuleInv
    <2>5. output' = output /\ compiled' = compiled
      BY <2>1
    <2> QED BY <2>2, <2>3, <2>4, <2>5 DEF RuleInv
  <1> QED BY <1>1, <1>2

(* A rule that is written leads from its targets to its prerequisites.     *)
LEMMA RuleCounts ==
    ASSUME NEW i \in DOMAIN output, NEW r \in output[i], NEW f \in r.targets
    PROVE  r.normal \subseteq Prerequisites(f) /\ r.hint \subseteq Hints(f)
  <1>1. r \in AllRules
    BY DEF AllRules
  <1>2. r \in {q \in AllRules : f \in q.targets}
    BY <1>1
  <1> QED BY <1>2 DEF Prerequisites, Hints

LEMMA RuleWritten ==
    ASSUME NEW i \in DOMAIN output, NEW T, NEW N, NEW H, Rule(T, N, H) \subseteq output[i], NEW f \in T
    PROVE  N \subseteq Prerequisites(f) /\ H \subseteq Hints(f)
  <1>1. CASE N \union H = {}
    <2>1. N = {} /\ H = {}
      BY <1>1
    <2> QED BY <2>1
  <1>2. CASE N \union H # {}
    <2>1. PICK r : r = [targets |-> T, normal |-> N, hint |-> H]
      OBVIOUS
    <2>2. r.targets = T /\ r.normal = N /\ r.hint = H
      BY <2>1
    <2>3. Rule(T, N, H) = {r}
      BY <1>2, <2>1, Zenon DEF Rule
    <2>4. r \in output[i] /\ f \in r.targets
      BY <2>2, <2>3
    <2> QED BY <2>2, <2>4, RuleCounts
  <1> QED BY <1>1, <1>2

LEMMA ObjectIncludes ==
    ASSUME NEW i \in DOMAIN output, NEW g, output[i] = RulesOf(i, g), NEW f \in Files(i)
    PROVE  Named({SrcNames[i]}) \union g.included_files \subseteq Prerequisites(f)
  <1>1. f \in Named({ObjNames[i], DepNames[i], StampNames[i]})
    BY DEF Files, Named, StampOf
  <1>2. IncludeRules(i, g) \subseteq output[i]
    BY DEF RulesOf
  <1>3. PICK T, N : T = Named({ObjNames[i], DepNames[i], StampNames[i]})
                    /\ N = Named({SrcNames[i]}) \union g.included_files
    OBVIOUS
  <1>4. Rule(T, N, {}) \subseteq output[i]
    BY <1>2, <1>3 DEF IncludeRules
  <1>5. f \in T
    BY <1>1, <1>3
  <1>6. N \subseteq Prerequisites(f)
    BY <1>4, <1>5, RuleWritten
  <1> QED BY <1>3, <1>6

LEMMA MadeFromStamp ==
    ASSUME NEW i \in DOMAIN output, NEW g, output[i] = RulesOf(i, g), NEW m \in ProvidedFiles(g), StampOf(i) # NoPath
    PROVE  m \in Makes(i) /\ StampOf(i) \in Prerequisites(m)
  <1>1. SomeModule(g)
    BY DEF ProvidedFiles, ModuleFiles, SubmoduleFiles, SomeModule
  <1>2. MadeRules(i, g) \subseteq output[i]
    BY <1>1 DEF RulesOf, ModuleRules
  <1>3. Named({StampOf(i)}) = {StampOf(i)}
    BY DEF Named
  <1>4. PICK T, s : T = ProvidedFiles(g) /\ s = StampOf(i)
    OBVIOUS
  <1>5. Rule(T, {s}, {}) \subseteq output[i] /\ m \in T
    BY <1>2, <1>3, <1>4 DEF MadeRules
  <1>6. s \in Prerequisites(m)
    BY <1>5, RuleWritten
  <1>7. m \in Makes(i)
    <2>1. PICK r : r = [targets |-> T, normal |-> {s}, hint |-> {}]
      OBVIOUS
    <2>2. r.targets = T /\ r.normal = {s}
      BY <2>1
    <2>3. Rule(T, {s}, {}) = {r}
      <3>1. {s} \union {} # {} /\ T # {}
        BY <1>5
      <3> QED BY <3>1, <2>1, Zenon DEF Rule
    <2>4. r \in {q \in output[i] : q.normal = {StampOf(i)}}
      BY <1>4, <1>5, <2>2, <2>3
    <2> QED BY <2>2, <2>4, <1>5 DEF Makes
  <1> QED BY <1>4, <1>6, <1>7

LEMMA UsedByObject ==
    ASSUME NEW i \in DOMAIN output, NEW g, output[i] = RulesOf(i, g), NEW m \in RequiredFiles(g), NEW f \in Files(i)
    PROVE  m \in Prerequisites(f)
  <1>1. SomeModule(g)
    BY DEF RequiredFiles, ModuleFiles, SubmoduleFiles, SomeModule
  <1>2. StampOf(i) # NoPath /\ f \in Named({ObjNames[i], StampOf(i)})
    BY DEF Files, Named, StampOf
  <1>3. UsedRules(i, g) \subseteq output[i]
    BY <1>1 DEF RulesOf, ModuleRules
  <1>4. PICK T, N : T = Named({ObjNames[i], StampOf(i)}) /\ N = RequiredFiles(g)
    OBVIOUS
  <1>5. Rule(T, N, {}) \subseteq output[i]
    BY <1>2, <1>3, <1>4 DEF UsedRules
  <1>6. f \in T
    BY <1>2, <1>4
  <1>7. N \subseteq Prerequisites(f)
    BY <1>5, <1>6, RuleWritten
  <1> QED BY <1>4, <1>7

LEMMA HintsAtObject ==
    ASSUME NEW i \in DOMAIN output, NEW g, output[i] = RulesOf(i, g), ObjNames[i] # NoPath, SomeModule(g),
           NEW m \in Extended(g) \union ({StampOf(i)} \ {ObjNames[i]})
    PROVE  ObjNames[i] \in Hints(m)
  <1>1. HintRules(i, g) \subseteq output[i]
    BY DEF RulesOf, ModuleRules
  <1>2. PICK T, o : T = Extended(g) \union ({StampOf(i)} \ {ObjNames[i]}) /\ o = ObjNames[i]
    OBVIOUS
  <1>3. Rule(T, {}, {o}) \subseteq output[i]
    BY <1>1, <1>2 DEF HintRules
  <1> QED BY <1>2, <1>3, RuleWritten

LEMMA ReachedBy ==
    ASSUME NEW a, NEW b \in Prerequisites(a) \union Hints(a), NEW c \in {b} \union Prerequisites(b) \union Hints(b),
           NEW d \in {c} \union Prerequisites(c) \union Hints(c)
    PROVE  d \in Reached(a)
  <1> DEFINE step(S) == S \union UNION {Prerequisites(f) \union Hints(f) : f \in S}
  <1>1. Reached(a) = step(step(step({a})))
    BY Zenon DEF Reached
  <1>2. \A S, x, y : x \in S /\ y \in {x} \union Prerequisites(x) \union Hints(x) => y \in step(S)
    OBVIOUS
  <1> HIDE DEF step
  <1>3. b \in step({a})
    BY <1>2
  <1>4. c \in step(step({a}))
    BY <1>2, <1>3
  <1>5. d \in step(step(step({a})))
    BY <1>2, <1>4
  <1> QED BY <1>1, <1>5

LEMMA FilesGrow ==
    ASSUME NEW A, NEW B \in SUBSET A
    PROVE  ModuleFiles(B) \subseteq ModuleFiles(A) /\ SubmoduleFiles(B) \subseteq SubmoduleFiles(A)
  BY DEF ModuleFiles, SubmoduleFiles

(* What the compiler uses and provides is found in the file.               *)
LEMMA ForeseenFiles ==
    ASSUME NEW i \in DOMAIN compiled, NEW g, Foreseen(g, compiled[i])
    PROVE  /\ Requires(i) \subseteq ModuleFiles(g.required_modules) \union SubmoduleFiles(g.required_submodules)
           /\ Provides(i) \subseteq ProvidedFiles(g)
           /\ compiled[i].included_files \subseteq g.included_files
           /\ compiled[i].required_modules \subseteq g.required_modules
           /\ Implements(i) \subseteq g.provided_modules \union {ms[1] : ms \in g.provided_submodules}
  <1>1. PICK c : c = compiled[i]
    OBVIOUS
  <1>2. /\ c.included_files \subseteq g.included_files
        /\ c.provided_modules \subseteq g.provided_modules /\ c.required_modules \subseteq g.required_modules
        /\ c.provided_submodules \subseteq g.provided_submodules
        /\ c.required_submodules \subseteq g.required_submodules
    BY <1>1, FieldNames DEF Foreseen
  <1>3. /\ ModuleFiles(c.provided_modules) \subseteq ModuleFiles(g.provided_modules)
        /\ ModuleFiles(c.required_modules) \subseteq ModuleFiles(g.required_modules)
        /\ SubmoduleFiles(c.provided_submodules) \subseteq SubmoduleFiles(g.provided_submodules)
        /\ SubmoduleFiles(c.required_submodules) \subseteq SubmoduleFiles(g.required_submodules)
    BY <1>2, FilesGrow
  <1> QED BY <1>1, <1>2, <1>3 DEF Requires, Provides, ProvidedFiles, Implements

(* What a file uses is made by it or required from others.                 *)
LEMMA MadeOrRequired ==
    ASSUME NEW g, NEW m \in ModuleFiles(g.required_modules) \union SubmoduleFiles(g.required_submodules),
           m \notin ProvidedFiles(g)
    PROVE  m \in RequiredFiles(g)
  <1>1. CASE m \in ModuleFiles(g.required_modules)
    <2>1. PICK M \in g.required_modules : m \in ModuleFiles({M}) /\ \A S : M \in S => m \in ModuleFiles(S)
      BY <1>1 DEF ModuleFiles
    <2>2. M \notin g.provided_modules
      BY <2>1 DEF ProvidedFiles
    <2> QED BY <2>1, <2>2 DEF RequiredFiles
  <1>2. CASE m \in SubmoduleFiles(g.required_submodules)
    <2>1. PICK ms \in g.required_submodules : \A S : ms \in S => m \in SubmoduleFiles(S)
      BY <1>2 DEF SubmoduleFiles
    <2>2. ms \notin g.provided_submodules
      BY <2>1 DEF ProvidedFiles
    <2> QED BY <2>1, <2>2 DEF RequiredFiles
  <1> QED BY <1>1, <1>2

(* The rules of input i are those of what was found in it, and that is     *)
(* what the compiler saw, or more.                                         *)
Explains(g, i) == output[i] = RulesOf(i, g) /\ Foreseen(g, compiled[i])

LEMMA OthersMake ==
    ASSUME NamesApart, DOMAIN output = DOMAIN compiled,
           NEW i \in DOMAIN compiled, NEW j \in DOMAIN compiled \ {i}, NEW g, NEW h, Explains(g, i), Explains(h, j),
           NEW f \in Files(i), NEW m \in Requires(i) \intersect Provides(j)
    PROVE  m \in Prerequisites(f) /\ StampOf(j) \in Prerequisites(m)
  <1>1. StampOf(i) # NoPath /\ StampOf(j) # NoPath
    BY DEF NamesApart, StampOf
  <1>2. m \in Makes(j) /\ StampOf(j) \in Prerequisites(m)
    <2>1. m \in ProvidedFiles(h)
      BY ForeseenFiles DEF Explains
    <2> QED BY <1>1, <2>1, MadeFromStamp DEF Explains
  <1>3. m \notin ProvidedFiles(g)
    <2>1. m \notin Makes(i)
      BY <1>2 DEF NamesApart
    <2> QED BY <1>1, <2>1, MadeFromStamp DEF Explains
  <1>4. m \in RequiredFiles(g)
    BY <1>3, ForeseenFiles, MadeOrRequired DEF Explains
  <1> QED BY <1>2, <1>4, UsedByObject DEF Explains

LEMMA OthersReached ==
    ASSUME NamesApart, DOMAIN output = DOMAIN compiled,
           NEW i \in DOMAIN compiled, NEW j \in DOMAIN compiled \ {i}, NEW g, NEW h, Explains(g, i), Explains(h, j),
           NEW M \in compiled[i].required_modules \intersect Implements(j)
    PROVE  ObjNames[j] \in Reached(ObjNames[i])
  <1>1. /\ ObjNames[i] # NoPath /\ ObjNames[j] # NoPath /\ StampOf(i) # NoPath /\ StampOf(j) # NoPath
        /\ ObjNames[i] \in Files(i)
    BY DEF NamesApart, StampOf, Files, Named
  <1>2. PICK m : m = <<"mod", M>>
    OBVIOUS
  <1>3. \A S : M \in S => m \in ModuleFiles(S)
    BY <1>2 DEF ModuleFiles
  <1>4. m \in Prerequisites(ObjNames[i])
    <2>1. m \notin Makes(i)
      <3>1. ModuleFiles(compiled[i].required_modules \intersect Implements(j)) \intersect Makes(i) = {}
        BY DEF NamesApart
      <3> QED BY <1>3, <3>1
    <2>2. m \notin ProvidedFiles(g)
      BY <1>1, <2>1, MadeFromStamp DEF Explains
    <2>3. m \in ModuleFiles(g.required_modules)
      BY <1>3, ForeseenFiles DEF Explains
    <2> QED BY <1>1, <2>2, <2>3, MadeOrRequired, UsedByObject DEF Explains
  <1>5. CASE M \in h.provided_modules
    <2>1. m \in ProvidedFiles(h) /\ SomeModule(h)
      BY <1>3, <1>5 DEF ProvidedFiles, SomeModule
    <2>2. StampOf(j) \in Prerequisites(m)
      BY <1>1, <2>1, MadeFromStamp DEF Explains
    <2>3. ObjNames[j] \in {StampOf(j)} \union Hints(StampOf(j))
      <3>1. CASE StampOf(j) # ObjNames[j]
        BY <1>1, <2>1, <3>1, HintsAtObject DEF Explains
      <3> QED BY <3>1
    <2> QED BY <1>4, <2>2, <2>3, ReachedBy
  <1>6. CASE M \notin h.provided_modules
    <2>1. M \in {ms[1] : ms \in h.provided_submodules} /\ SomeModule(h)
      <3>1. M \in {ms[1] : ms \in h.provided_submodules}
        BY <1>6, ForeseenFiles DEF Explains
      <3> QED BY <3>1 DEF SomeModule
    <2>2. m \in Extended(h)
      BY <1>3, <1>6, <2>1 DEF Extended
    <2>3. ObjNames[j] \in Hints(m)
      BY <1>1, <2>1, <2>2, HintsAtObject DEF Explains
    <2> QED BY <1>4, <2>3, ReachedBy
  <1> QED BY <1>5, <1>6

LEMMA RuleIs ==
    ASSUME NEW T, NEW N, NEW H, NEW r \in Rule(T, N, H)
    PROVE  r.targets = T /\ r.normal = N /\ r.hint = H
  <1>1. r = [targets |-> T, normal |-> N, hint |-> H]
    BY Zenon DEF Rule
  <1> QED BY <1>1

SubmoduleFile(ms) ==
    <<"smod", IF call.fc_smod_infix /\ ms[2] # None THEN ms[1] ELSE "", IF ms[2] = None THEN ms[1] ELSE ms[2]>>

LEMMA SubmoduleFileOf ==
    /\ \A S : SubmoduleFiles(S) = {SubmoduleFile(ms) : ms \in S}
    /\ \A ms : SubmoduleFile(ms)[1] = "smod"
    /\ \A S : \A m \in ModuleFiles(S) : m[1] = "mod"
  <1>1. \A S : SubmoduleFiles(S) = {SubmoduleFile(ms) : ms \in S}
    BY Zenon DEF SubmoduleFiles, SubmoduleFile
  <1>2. \A ms : SubmoduleFile(ms)[1] = "smod"
    BY DEF SubmoduleFile
  <1>3. \A S : \A m \in ModuleFiles(S) : m[1] = "mod"
    BY DEF ModuleFiles
  <1> QED BY <1>1, <1>2, <1>3

(* What a file makes it does not require, if the conditions were known.    *)
LEMMA NotBoth ==
    ASSUME NamesApart, decided, NEW i \in DOMAIN compiled, NEW g, Foreseen(g, compiled[i]), NEW m \in Provides(i)
    PROVE  m \notin RequiredFiles(g)
  <1>1. PICK c : c = compiled[i]
    OBVIOUS
  <1>2. /\ c.provided_modules = g.provided_modules /\ c.provided_submodules = g.provided_submodules
        /\ c.required_submodules = g.required_submodules
    BY <1>1, FieldNames DEF Foreseen
  <1>3. \A M \in g.required_modules \ g.provided_modules : m # <<"mod", M>>
    <2>1. SUFFICES ASSUME NEW M \in g.required_modules \ g.provided_modules, m = <<"mod", M>> PROVE FALSE
      OBVIOUS
    <2>2. m \notin ModuleFiles(c.provided_modules)
      BY <1>2, <2>1 DEF ModuleFiles
    <2>3. m \notin SubmoduleFiles(c.provided_submodules)
      BY <2>1 DEF SubmoduleFiles
    <2> QED BY <1>1, <2>2, <2>3 DEF Provides
  <1>4. \A ns \in g.required_submodules \ g.provided_submodules : m \notin SubmoduleFiles({ns})
    <2>1. SUFFICES ASSUME NEW ns \in g.required_submodules \ g.provided_submodules, m \in SubmoduleFiles({ns})
                   PROVE  FALSE
      OBVIOUS
    <2>2. m = SubmoduleFile(ns)
      BY <2>1, SubmoduleFileOf
    <2>3. m[1] # "mod"
      BY <2>2, SubmoduleFileOf
    <2>4. m \in SubmoduleFiles(c.provided_submodules)
      BY <1>1, <2>3, SubmoduleFileOf DEF Provides
    <2>5. PICK ms \in c.provided_submodules : m = SubmoduleFile(ms)
      BY <2>4, SubmoduleFileOf
    <2>6. SubmoduleFiles({ms}) = SubmoduleFiles({ns})
      BY <2>2, <2>5, SubmoduleFileOf
    <2>7. ms = ns
      BY <1>1, <1>2, <2>1, <2>6 DEF NamesApart
    <2> QED BY <1>2, <2>1, <2>5, <2>7
  <1>5. m \notin ModuleFiles(g.required_modules \ g.provided_modules)
    BY <1>3 DEF ModuleFiles
  <1>6. m \notin SubmoduleFiles(g.required_submodules \ g.provided_submodules)
    BY <1>4, SubmoduleFileOf
  <1> QED BY <1>5, <1>6 DEF RequiredFiles

(* So no rule of any file makes it wait for what it makes itself.          *)
LEMMA NotItself ==
    ASSUME NamesApart, decided, DOMAIN output = DOMAIN compiled, \A k \in DOMAIN compiled : \E g : Explains(g, k),
           NEW i \in DOMAIN compiled, NEW f \in Files(i), NEW m \in Provides(i)
    PROVE  m \notin Prerequisites(f)
  <1> SUFFICES ASSUME m \in Prerequisites(f) PROVE FALSE
    OBVIOUS
  <1>1. PICK k \in DOMAIN output, r \in AllRules : r \in output[k] /\ f \in r.targets /\ m \in r.normal
    BY DEF Prerequisites, AllRules
  <1>2. PICK g : Explains(g, k)
    BY <1>1
  <1>3. f \notin Makes(k) /\ f # SrcNames[k] /\ m # SrcNames[k] /\ m \notin compiled[k].included_files
    BY <1>1 DEF NamesApart
  <1>4. r \notin LineRules(k, g)
    BY <1>1, <1>3, RuleIs DEF LineRules
  <1>5. r \notin IncludeRules(k, g)
    <2>1. SUFFICES ASSUME r \in IncludeRules(k, g) PROVE FALSE
      OBVIOUS
    <2>2. r.normal = Named({SrcNames[k]}) \union g.included_files
      BY <2>1, RuleIs DEF IncludeRules
    <2>3. g.included_files \subseteq compiled[k].included_files
      BY <1>1, <1>2, FieldNames DEF Explains, Foreseen
    <2> QED BY <1>1, <1>3, <2>2, <2>3 DEF Named
  <1>6. r \notin MadeRules(k, g)
    <2>1. SUFFICES ASSUME r \in MadeRules(k, g) PROVE FALSE
      OBVIOUS
    <2>2. r.normal = Named({StampOf(k)})
      BY <2>1, RuleIs DEF MadeRules
    <2>3. r.normal = {StampOf(k)}
      BY <1>1, <2>2 DEF Named
    <2> QED BY <1>1, <1>3, <2>3 DEF Makes
  <1>7. r \notin UsedRules(k, g)
    <2>1. SUFFICES ASSUME r \in UsedRules(k, g) PROVE FALSE
      OBVIOUS
    <2>2. r.targets = Named({ObjNames[k], StampOf(k)}) /\ r.normal = RequiredFiles(g)
      BY <2>1, RuleIs DEF UsedRules
    <2>3. k = i
      BY <1>1, <2>2 DEF NamesApart, Files
    <2> QED BY <1>1, <1>2, <2>2, <2>3, NotBoth DEF Explains
  <1>8. r \notin HintRules(k, g)
    BY <1>1, RuleIs DEF HintRules
  <1> QED BY <1>1, <1>2, <1>4, <1>5, <1>6, <1>7, <1>8 DEF Explains, RulesOf, ModuleRules

LEMMA RulesBuild == RuleInv /\ NamesApart => Buildable
  <1> SUFFICES ASSUME RuleInv, NamesApart, agreed PROVE Buildable
    BY DEF Buildable
  <1>1. DOMAIN output = DOMAIN compiled /\ DOMAIN output = 1 .. Len(output)
    <2>1. PICK A, B : output \in Seq(A) /\ compiled \in Seq(B)
      BY DEF RuleInv
    <2>2. DOMAIN output = 1 .. Len(output) /\ DOMAIN compiled = 1 .. Len(compiled)
      BY <2>1
    <2> QED BY <2>2 DEF RuleInv
  <1>2. \A i \in DOMAIN compiled : \E g : Explains(g, i)
    BY <1>1 DEF RuleInv, Explains
  <1>3. ASSUME NEW i \in DOMAIN compiled, NEW f \in Files(i)
        PROVE  Named({SrcNames[i]}) \union compiled[i].included_files \subseteq Prerequisites(f)
    <2>1. PICK g : Explains(g, i)
      BY <1>2
    <2>2. Named({SrcNames[i]}) \union g.included_files \subseteq Prerequisites(f)
      BY <1>1, <2>1, ObjectIncludes DEF Explains
    <2> QED BY <2>1, <2>2, ForeseenFiles DEF Explains
  <1>4. ASSUME NEW i \in DOMAIN compiled, NEW j \in DOMAIN compiled \ {i}
        PROVE  /\ \A f \in Files(i), m \in Requires(i) \intersect Provides(j) :
                      m \in Prerequisites(f) /\ StampOf(j) \in Prerequisites(m)
               /\ compiled[i].required_modules \intersect Implements(j) # {} => ObjNames[j] \in Reached(ObjNames[i])
    <2>1. PICK g, h : Explains(g, i) /\ Explains(h, j)
      BY <1>2
    <2>2. \A f \in Files(i), m \in Requires(i) \intersect Provides(j) :
              m \in Prerequisites(f) /\ StampOf(j) \in Prerequisites(m)
      BY <1>1, <2>1, OthersMake
    <2>3. \A M \in compiled[i].required_modules \intersect Implements(j) : ObjNames[j] \in Reached(ObjNames[i])
      BY <1>1, <2>1, OthersReached
    <2> QED BY <2>2, <2>3
  <1>5. decided => \A i \in DOMAIN compiled : \A f \in Files(i), m \in Provides(i) : m \notin Prerequisites(f)
    BY <1>1, <1>2, NotItself
  <1> QED BY <1>3, <1>4, <1>5 DEF Buildable

(* Where names stand for one thing each, the rules of any number of files  *)
(* are enough for make: a file is compiled again when one that it reads    *)
(* changes, never before the modules that it uses are there, its program   *)
(* is linked with their submodules, and no file waits for itself.          *)
THEOREM RulesAreEnough == Spec /\ []Accepts /\ []NamesApart => []Buildable
  <1>1. GenInv /\ RuleInv /\ [Next]_vars => RuleInv'
    BY RuleNext
  <1>2. RuleInv /\ NamesApart => Buildable
    BY RulesBuild
  <1> QED BY GenInit, GenNext, RuleInit, <1>1, <1>2, PTL DEF Spec
=============================================================================
