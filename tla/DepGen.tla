------------------------------- MODULE DepGen -------------------------------
(* utils/mkhelper/depgen.py and its package depgen: a source file is read  *)
(* line by line through a preprocessor, a reader of line control           *)
(* directives and a reader of Fortran statements, and the rules of a       *)
(* makefile are written from what they find.                               *)
(*                                                                         *)
(* A line is one statement or directive, comments and continuations gone.  *)
(* Next to the program runs, on the same lines, what it has to foresee:    *)
(* the compiler, which knows the value of every condition.  Files outside  *)
(* the source roots, which neither reads here, define no macro of interest.*)
EXTENDS Integers, Sequences, FiniteSets

CONSTANTS
    Calls,      \* the calls of the program: files and arguments
    Macro,
    None

Dir(path) == path[1]
NoPath == <<"", "">>

(* A condition: all or any of some literals.  An opaque one holds what the *)
(* program cannot evaluate, for example a call of a function-like macro.   *)
Literal   == [kind : {"defined", "value", "opaque"}, macro : Macro, neg : BOOLEAN]
Condition == [all : BOOLEAN, of : Seq(Literal)]
Body      == {"undefined", "zero", "one", "text", "function"}
Cond3     == {-1, 0, 1}

(* What a call must look like for its lines to make sense.                 *)
IsLine(l) ==
    /\ l.kind = "ifdef" => l.macro \in Macro /\ l.neg \in BOOLEAN
    /\ l.kind \in {"if", "elif"} => l.cond \in Condition
IsCall(c) ==
    /\ \A p \in DOMAIN c.files : \A i \in 1 .. Len(c.files[p]) : IsLine(c.files[p][i])
    /\ c.input \in Seq(DOMAIN c.files) /\ c.input # <<>>

ASSUME CallsAssumption == \A c \in Calls : IsCall(c)

VARIABLES
    call,       \* the files and the arguments
    pc,
    flags,      \* the compiler flags not yet searched
    awaiting,   \* appended_val_lists: the flag whose value is the next word
    values,     \* compiler_args: the values of each flag
    input,      \* the index of the input file that is read
    pp_stack,   \* include_stack of the preprocessor: file, next line
    fc_stack,   \* what INCLUDE statements have put on top of it
    branch,     \* BranchState: one sequence of states per open #if
    macros,     \* MacroHandler: the body of each macro
    current_module, extendable,
    found,      \* the sets that the callbacks of main fill
    output,     \* the rules written so far
    oracle,     \* the compiler: the truth of what is opaque,
    cpp,        \*   its open #ifs,
    cpp_macros, \*   its macros,
    cpp_module, \*   the module whose statements it reads,
    seen,       \*   what it reads, uses and provides,
    compiled,   \*   the same for each file already compiled
    agreed,     \* no line that only one of them saw changed its state
    decided     \* every condition was evaluated

parser  == <<pp_stack, fc_stack, branch, macros, current_module, extendable, found>>
ghost   == <<oracle, cpp, cpp_macros, cpp_module, seen, compiled, agreed, decided>>
args    == <<call, flags, awaiting, values>>
vars    == <<call, pc, flags, awaiting, values, input, parser, output, ghost>>

Nothing == [included_files |-> {}, lc_files |-> {}, provided_modules |-> {}, required_modules |-> {},
            provided_submodules |-> {}, required_submodules |-> {}]

ToSet(s) == {s[i] : i \in DOMAIN s}
Last(s) == s[Len(s)]
Front(s) == SubSeq(s, 1, Len(s) - 1)

(* ------------------------------ parse_args ----------------------------- *)

(* A list of names that is given must have one for each input.             *)
Fits(names) == names = <<>> \/ Len(names) = Len(call.input)
Given(names, default) == IF names = <<>> THEN default ELSE names

ObjectOf(src) == IF src = NoPath THEN NoPath ELSE <<"obj", src[2]>>
SrcNames   == Given(call.src_name, call.input)
ObjNames   == Given(call.obj_name, [i \in DOMAIN SrcNames |-> ObjectOf(SrcNames[i])])
DepNames   == Given(call.dep_name, Given(call.output, [i \in DOMAIN call.input |-> NoPath]))
StampNames == IF call.fc_enable THEN Given(call.mod_stamp_name, ObjNames)
                                ELSE [i \in DOMAIN call.input |-> NoPath]

(* The flags that carry a value of interest: several destinations that     *)
(* have the same flag share one list.                                      *)
Sought == {call.macro_flag, call.pp_inc_flag} \union
          (IF call.fc_enable THEN {call.fc_inc_flag, call.mod_dir_flag} ELSE {})

Init ==
    /\ call \in Calls
    /\ pc = "args"
    /\ flags = call.flags /\ awaiting = {} /\ values = [f \in Sought |-> <<>>]
    /\ input = 0
    /\ pp_stack = <<>> /\ fc_stack = <<>> /\ branch = <<>>
    /\ macros = [m \in Macro |-> "undefined"]
    /\ current_module = None /\ extendable = FALSE
    /\ found = Nothing /\ output = <<>>
    /\ oracle \in [Macro -> BOOLEAN]
    /\ cpp = <<>> /\ cpp_macros = macros /\ cpp_module = None
    /\ seen = Nothing /\ compiled = <<>> /\ agreed = TRUE /\ decided = TRUE

Accepted ==
    /\ Fits(call.src_name) /\ Fits(call.obj_name) /\ Fits(call.output) /\ Fits(call.dep_name)
    /\ call.fc_enable => Fits(call.mod_stamp_name)

(* parser.error: the number of names differs from the number of inputs.    *)
Refuse ==
    /\ pc = "args" /\ ~Accepted
    /\ pc' = "error"
    /\ UNCHANGED <<args, input, parser, output, ghost>>

(* One word of the compiler command: "-f" alone takes the next word for    *)
(* its value, "-fvalue" has it, and any other "-word" ends the waiting.    *)
ParseFlag ==
    /\ pc = "args" /\ flags # <<>> /\ Accepted
    /\ LET word == Head(flags)
           to == IF word.form = "joined" THEN {word.flag} \intersect Sought
                 ELSE IF word.form = "value" THEN awaiting ELSE {}
       IN /\ values' = [f \in Sought |-> IF f \in to THEN Append(values[f], word.value) ELSE values[f]]
          /\ awaiting' = IF word.form = "alone" THEN {word.flag} \intersect Sought ELSE {}
    /\ flags' = Tail(flags)
    /\ UNCHANGED <<call, pc, input, parser, output, ghost>>

(* The last definition of a macro on the command line is the one that      *)
(* counts; one without a body has the body 1.                              *)
Predefined ==
    LET given == values[call.macro_flag]
        last(m) == {i \in DOMAIN given : given[i].macro = m /\ \A j \in DOMAIN given : given[j].macro = m => j <= i}
    IN [m \in Macro |-> IF last(m) = {} THEN "undefined" ELSE given[CHOOSE i \in last(m) : TRUE].body]

(* ------------------------- the files on the stack ---------------------- *)

Raw == fc_stack # <<>>
Top == IF Raw THEN Last(fc_stack) ELSE Last(pp_stack)
Frame(path) == [path |-> path, next |-> 1]
Reading == pc = "read" /\ Top.next <= Len(call.files[Top.path])
Line == call.files[Top.path][Top.next]
At(kind) == Reading /\ Line.kind = kind
Bumped(stack) == Append(Front(stack), [Last(stack) EXCEPT !.next = @ + 1])

Advance ==
    /\ pp_stack' = IF Raw THEN pp_stack ELSE Bumped(pp_stack)
    /\ fc_stack' = IF Raw THEN Bumped(fc_stack) ELSE fc_stack

(* IncludeFinder.find: the first of the directories of the order, the      *)
(* working directory, that of the input, that of the file with the line    *)
(* and those of the flags, that holds the file.                            *)
Find(name, order, current, dirs) ==
    LET places(keyword) == CASE keyword = "cwd" -> <<"">>
                             [] keyword = "src" -> <<Dir(call.input[input])>>
                             [] keyword = "inc" -> <<Dir(current)>>
                             [] keyword = "flg" -> dirs
        hits == {h \in (DOMAIN order) \X (1 .. Len(dirs) + 1) :
                     h[2] \in DOMAIN places(order[h[1]]) /\ <<places(order[h[1]])[h[2]], name>> \in DOMAIN call.files}
        first(h) == \A g \in hits : h[1] < g[1] \/ (h[1] = g[1] /\ h[2] <= g[2])
        place(h) == places(order[h[1]])[h[2]]
    IN IF \E h \in hits : first(h) THEN <<place(CHOOSE h \in hits : first(h)), name>> ELSE NoPath

InRoots(path) == call.src_roots = {} \/ Dir(path) \in call.src_roots

Open ==
    /\ pc = "open" \/ (pc = "args" /\ Accepted /\ flags = <<>>)
    /\ input' = input + 1
    /\ pp_stack' = <<Frame(call.input[input + 1])>>
    /\ macros' = Predefined /\ cpp_macros' = Predefined
    /\ branch' = <<>> /\ cpp' = <<>>
    /\ current_module' = None /\ cpp_module' = None /\ extendable' = FALSE
    /\ pc' = "read"
    /\ UNCHANGED <<args, fc_stack, found, output, oracle, seen, compiled, agreed, decided>>

(* ------------------------------ conditions ----------------------------- *)

DeadIn(b) == \E i \in DOMAIN b : \E j \in DOMAIN b[i] : b[i][j] < 0
IsDead == DeadIn(branch)
Active == \A i \in DOMAIN cpp : cpp[i].now

EvalDefined(macro, negate) == IF negate <=> macros[macro] = "undefined" THEN 1 ELSE -1

(* MacroHandler.eval_expression of one literal: a macro is expanded once.  *)
EvalLiteral(l) ==
    LET known == IF l.kind = "opaque" THEN 0
                 ELSE IF l.kind = "defined" THEN EvalDefined(l.macro, FALSE)
                 ELSE IF macros[l.macro] = "one" THEN 1
                 ELSE IF macros[l.macro] = "text" THEN 0 ELSE -1
    IN IF l.neg THEN -known ELSE known

(* And of all of them: what cannot be parsed spoils the whole, the rest is *)
(* evaluated up to the literal that decides.                               *)
EvalExpression(c) ==
    LET neutral == IF c.all THEN 1 ELSE -1
        decisive == IF c.all THEN -1 ELSE 1
        upTo(i) == \A j \in 1 .. i - 1 : EvalLiteral(c.of[j]) = neutral
    IN IF \E i \in DOMAIN c.of : c.of[i].kind = "opaque" THEN 0
       ELSE IF \E i \in DOMAIN c.of : upTo(i) /\ EvalLiteral(c.of[i]) = decisive THEN decisive
       ELSE IF upTo(Len(c.of) + 1) THEN neutral ELSE 0

Evaluated == IF Line.kind = "ifdef" THEN EvalDefined(Line.macro, Line.neg)
             ELSE IF call.eval_expr THEN EvalExpression(Line.cond) ELSE 0

(* What the compiler makes of it.                                          *)
Holds(l) ==
    LET truth == \/ l.kind = "opaque" /\ oracle[l.macro]
                 \/ l.kind = "defined" /\ cpp_macros[l.macro] # "undefined"
                 \/ l.kind = "value" /\ \/ cpp_macros[l.macro] = "one"
                                        \/ cpp_macros[l.macro] = "text" /\ oracle[l.macro]
    IN IF l.neg THEN ~truth ELSE truth
True == IF Line.kind = "ifdef" THEN Line.neg <=> cpp_macros[Line.macro] = "undefined"
        ELSE IF Line.cond.all THEN \A i \in DOMAIN Line.cond.of : Holds(Line.cond.of[i])
                              ELSE \E i \in DOMAIN Line.cond.of : Holds(Line.cond.of[i])

(* Mutant: what was not kept for certain is dropped after #else.           *)
Dropped(s) == [s EXCEPT ![Len(s)] = IF @ < 0 THEN 1 ELSE -1]

Flipped(s) == [s EXCEPT ![Len(s)] = -@]
SwitchElse(b) == [b EXCEPT ![Len(b)] = Flipped(@)]
SwitchElif(b, state) == [b EXCEPT ![Len(b)] = Append(Flipped(@), state)]

If ==
    /\ Reading /\ ~Raw /\ Line.kind \in {"ifdef", "if"}
    /\ LET state == IF IsDead THEN 0 ELSE Evaluated
       IN branch' = Append(branch, <<state>>) /\ decided' = (decided /\ (IsDead \/ state # 0))
    /\ cpp' = Append(cpp, [now |-> Active /\ True, done |-> ~Active \/ True, final |-> FALSE])
    /\ Advance
    /\ UNCHANGED <<args, pc, input, macros, current_module, extendable, found, output,
                   oracle, cpp_macros, cpp_module, seen, compiled, agreed>>

(* #elif is an #else that opens another #if of the same #endif.            *)
Elif ==
    /\ At("elif") /\ ~Raw /\ branch # <<>>
    /\ LET dead == DeadIn(SwitchElse(branch))
           state == IF dead THEN 0 ELSE Evaluated
       IN branch' = SwitchElif(branch, state) /\ decided' = (decided /\ (dead \/ state # 0))
    /\ cpp' = [cpp EXCEPT ![Len(cpp)] = [now |-> ~@.done /\ True, done |-> @.done \/ True, final |-> FALSE]]
    /\ Advance
    /\ UNCHANGED <<args, pc, input, macros, current_module, extendable, found, output,
                   oracle, cpp_macros, cpp_module, seen, compiled, agreed>>

Else ==
    /\ At("else") /\ ~Raw /\ branch # <<>>
    /\ branch' = SwitchElse(branch)
    /\ cpp' = [cpp EXCEPT ![Len(cpp)] = [now |-> ~@.done, done |-> TRUE, final |-> TRUE]]
    /\ Advance
    /\ UNCHANGED <<args, pc, input, macros, current_module, extendable, found, output,
                   oracle, cpp_macros, cpp_module, seen, compiled, agreed, decided>>

Endif ==
    /\ At("endif") /\ ~Raw /\ branch # <<>>
    /\ branch' = Front(branch) /\ cpp' = Front(cpp)
    /\ Advance
    /\ UNCHANGED <<args, pc, input, macros, current_module, extendable, found, output,
                   oracle, cpp_macros, cpp_module, seen, compiled, agreed, decided>>

(* ------------------------ lines of a kept branch ----------------------- *)

Define ==
    /\ At("define") /\ ~Raw /\ ~IsDead    \* #undef: the body is "undefined"
    /\ macros' = [macros EXCEPT ![Line.macro] = Line.body]
    /\ cpp_macros' = IF Active THEN [cpp_macros EXCEPT ![Line.macro] = Line.body] ELSE cpp_macros
    /\ agreed' = (agreed /\ Active)
    /\ Advance
    /\ UNCHANGED <<args, pc, input, branch, current_module, extendable, found, output,
                   oracle, cpp, cpp_module, seen, compiled, decided>>

(* What a callback notes, and the compiler too if it sees the line.        *)
Collect(field, S) ==
    /\ found' = [found EXCEPT ![field] = @ \union S]
    /\ seen' = IF Active THEN [seen EXCEPT ![field] = @ \union S] ELSE seen

(* A file is read in the place of the line that includes it, if it is      *)
(* found, and found where the sources are.                                 *)
Entered(path, ignored) == path # NoPath /\ ~ignored /\ InRoots(path)

Include ==
    /\ At("include") /\ ~Raw /\ ~IsDead
    /\ LET order == IF Line.sys THEN call.pp_inc_sys_order ELSE call.pp_inc_order
           path == Find(Line.file, order, Top.path, values[call.pp_inc_flag])
           entered == Entered(path, Line.sys /\ ~call.pp_inc_sys)
       IN IF entered THEN /\ pp_stack' = Append(Bumped(pp_stack), Frame(path))
                          /\ Collect("included_files", {path})
                     ELSE pp_stack' = Bumped(pp_stack) /\ UNCHANGED <<found, seen>>
    /\ UNCHANGED <<args, pc, input, fc_stack, branch, macros, current_module, extendable, output,
                   oracle, cpp, cpp_macros, cpp_module, compiled, agreed, decided>>

(* A line control directive that names a file of the sources.              *)
LineControl ==
    /\ At("line") /\ ~Raw /\ ~IsDead
    /\ IF call.lc_enable /\ Line.path \in DOMAIN call.files /\ InRoots(Line.path)
       THEN Collect("lc_files", {Line.path}) ELSE UNCHANGED <<found, seen>>
    /\ Advance
    /\ UNCHANGED <<args, pc, input, branch, macros, current_module, extendable, output,
                   oracle, cpp, cpp_macros, cpp_module, compiled, agreed, decided>>

Statement(kind) == At(kind) /\ ~IsDead /\ call.fc_enable
Elsewhere == <<args, pc, input, branch, macros, output, oracle, cpp, cpp_macros, compiled, decided>>

ModuleStart ==
    /\ Statement("module")
    /\ current_module' = Line.module
    /\ Collect("provided_modules", {Line.module})
    /\ cpp_module' = IF Active THEN Line.module ELSE cpp_module
    /\ agreed' = (agreed /\ Active)
    /\ Advance
    /\ UNCHANGED <<Elsewhere, extendable>>

(* Without a root submodule file a submodule needs the module itself.      *)
SubmoduleStart ==
    /\ Statement("submodule")
    /\ LET ofParent == Line.parent # None \/ call.fc_root_smod
           noted == [provided_submodules |-> {<<Line.module, Line.name>>},
                     required_submodules |-> IF ofParent THEN {<<Line.module, Line.parent>>} ELSE {},
                     required_modules |-> IF ofParent THEN {} ELSE {Line.module}]
           with(set) == [f \in DOMAIN set |-> IF f \in DOMAIN noted THEN set[f] \union noted[f] ELSE set[f]]
       IN found' = with(found) /\ seen' = IF Active THEN with(seen) ELSE seen
    /\ Advance
    /\ UNCHANGED <<Elsewhere, current_module, extendable, cpp_module, agreed>>

Foreign(l) ==
    \/ l.nature = "intrinsic"
    \/ l.module \in call.fc_intrinsic_mods /\ l.nature # "non_intrinsic"
    \/ l.module \in call.fc_external_mods

ModuleUse ==
    /\ Statement("use")
    /\ IF Foreign(Line) THEN UNCHANGED <<found, seen>> ELSE Collect("required_modules", {Line.module})
    /\ Advance
    /\ UNCHANGED <<Elsewhere, current_module, extendable, cpp_module, agreed>>

(* The file of an INCLUDE statement is not preprocessed.                   *)
IncludeStatement ==
    /\ Statement("fc_include")
    /\ LET current == IF Raw THEN Top.path ELSE call.input[input]
           path == Find(Line.file, call.fc_inc_order, current, values[call.fc_inc_flag])
           entered == Entered(path, FALSE)
           push(stack) == IF entered THEN Append(stack, Frame(path)) ELSE stack
       IN /\ fc_stack' = push(IF Raw THEN Bumped(fc_stack) ELSE fc_stack)
          /\ pp_stack' = IF Raw THEN pp_stack ELSE Bumped(pp_stack)
          /\ IF entered THEN Collect("included_files", {path}) ELSE UNCHANGED <<found, seen>>
    /\ UNCHANGED <<Elsewhere, current_module, extendable, cpp_module, agreed>>

(* Mutant: the next module of the file inherits what the last one was.     *)
ModuleEndOnly ==
    /\ Statement("end module") /\ call.fc_root_smod
    /\ current_module' = None /\ cpp_module' = IF Active THEN None ELSE cpp_module
    /\ agreed' = (agreed /\ Active) /\ Advance
    /\ UNCHANGED <<Elsewhere, extendable, found, seen>>

(* A procedure with the prefix MODULE shows that submodules may extend the *)
(* module, which then has a root submodule file if the compiler writes one.*)
ModuleProcedure ==
    /\ Statement("module procedure") /\ call.fc_root_smod
    /\ LET extends(m) == IF m = None THEN {} ELSE {<<m, None>>}
       IN /\ found' = [found EXCEPT !.provided_submodules =
                             @ \union IF extendable THEN {} ELSE extends(current_module)]
          /\ seen' = IF Active THEN [seen EXCEPT !.provided_submodules = @ \union extends(cpp_module)] ELSE seen
    /\ extendable' = (extendable \/ current_module # None)
    /\ Advance
    /\ UNCHANGED <<Elsewhere, current_module, cpp_module, agreed>>

ModuleEnd ==
    /\ Statement("end module") /\ call.fc_root_smod
    /\ current_module' = None /\ extendable' = FALSE
    /\ cpp_module' = IF Active THEN None ELSE cpp_module
    /\ agreed' = (agreed /\ Active)
    /\ Advance
    /\ UNCHANGED <<Elsewhere, found, seen>>

(* ------------------------------ other lines ---------------------------- *)

Conditional == {"ifdef", "if", "elif", "else", "endif"}
Directives  == Conditional \union {"define", "include", "line"}
Statements  == {"module", "submodule", "use", "fc_include", "module procedure", "end module"}

(* Lines of a dropped branch, directives that nobody expands in a file of  *)
(* an INCLUDE statement, and everything else.                              *)
Ignored ==
    \/ ~Raw /\ IsDead /\ Line.kind \notin Conditional
    \/ ~Raw /\ branch = <<>> /\ Line.kind \in {"else", "endif"}
    \/ Raw /\ Line.kind \in Directives
    \/ Line.kind \in Statements /\ ~call.fc_enable
    \/ Line.kind \in {"module procedure", "end module"} /\ ~call.fc_root_smod
    \/ Line.kind \notin Directives \union Statements

Ignore ==
    /\ Reading /\ Ignored
    /\ Advance
    /\ UNCHANGED <<args, pc, input, branch, macros, current_module, extendable, found, output, ghost>>

(* StreamStack.__next__: at the end of a file the one below it goes on.    *)
EndOfFile ==
    /\ pc = "read" /\ Top.next > Len(call.files[Top.path])
    /\ IF Raw THEN fc_stack' = Front(fc_stack) /\ UNCHANGED <<pp_stack, pc>>
              ELSE /\ pp_stack' = Front(pp_stack) /\ UNCHANGED fc_stack
                   /\ pc' = IF Len(pp_stack) = 1 THEN "write" ELSE pc
    /\ UNCHANGED <<args, input, branch, macros, current_module, extendable, found, output, ghost>>

(* ------------------------------- the rules ----------------------------- *)

Rule(targets, normal, hint) ==
    IF targets = {} \/ normal \union hint = {} THEN {}
    ELSE {[targets |-> targets, normal |-> normal, hint |-> hint]}
Named(files) == files \ {NoPath}

Src  == SrcNames[input]
Obj  == ObjNames[input]
Stamp == IF StampNames[input] = NoPath THEN Obj ELSE StampNames[input]

(* The module files have directory, case and extension in common; the file *)
(* of a submodule has the name of its module in it if there is an infix.   *)
ModuleFiles(modules) == {<<"mod", m>> : m \in modules}
SubmoduleFiles(submodules) ==
    {<<"smod", IF call.fc_smod_infix /\ ms[2] # None THEN ms[1] ELSE "",
               IF ms[2] = None THEN ms[1] ELSE ms[2]>> : ms \in submodules}

LineControlDeps == IF Src = NoPath THEN {} ELSE Rule({Src}, found.lc_files, {})

IncludeDeps ==
    Rule(Named({Obj, DepNames[input], StampNames[input]}), Named({Src}) \union found.included_files, {})

AllRequired == found.required_modules   \* mutant: with what the file provides
Required == found.required_modules \ found.provided_modules

ModuleDeps ==
    LET provided == ModuleFiles(found.provided_modules) \union SubmoduleFiles(found.provided_submodules)
        required == ModuleFiles(Required)
                    \union SubmoduleFiles(found.required_submodules \ found.provided_submodules)
        extended == ModuleFiles({ms[1] : ms \in found.provided_submodules} \ found.provided_modules)
        some == found.provided_modules \union found.required_modules # {}
                \/ found.provided_submodules \union found.required_submodules # {}
    IN IF ~some THEN {}
       ELSE Rule(provided, Named({Stamp}), {})
            \union (IF Stamp = NoPath THEN {} ELSE Rule(Named({Obj, Stamp}), required, {}))
            \union (IF Obj = NoPath THEN {} ELSE Rule(extended \union ({Stamp} \ {Obj}), {}, {Obj}))

(* Mutant: the sets of one file are still there for the next.              *)
WriteOnly ==
    /\ pc = "write"
    /\ output' = Append(output, LineControlDeps \union IncludeDeps \union ModuleDeps)
    /\ seen' = Nothing /\ compiled' = Append(compiled, seen)
    /\ pc' = IF input = Len(call.input) THEN "done" ELSE "open"
    /\ UNCHANGED <<args, input, pp_stack, fc_stack, branch, macros, current_module, extendable, found,
                   oracle, cpp, cpp_macros, cpp_module, agreed, decided>>

(* The end of an input: its rules are written and the sets cleared.        *)
Write ==
    /\ pc = "write"
    /\ output' = Append(output, LineControlDeps \union IncludeDeps \union ModuleDeps)
    /\ found' = Nothing /\ seen' = Nothing /\ compiled' = Append(compiled, seen)
    /\ pc' = IF input = Len(call.input) THEN "done" ELSE "open"
    /\ UNCHANGED <<args, input, pp_stack, fc_stack, branch, macros, current_module, extendable,
                   oracle, cpp, cpp_macros, cpp_module, agreed, decided>>

Next ==
    \/ Refuse \/ ParseFlag \/ Open
    \/ If \/ Elif \/ Else \/ Endif \/ Define \/ Include \/ LineControl
    \/ ModuleStart \/ SubmoduleStart \/ ModuleUse \/ IncludeStatement \/ ModuleProcedure \/ ModuleEnd
    \/ Ignore \/ EndOfFile \/ Write

Spec == Init /\ [][Next]_vars

(* ------------------------------ properties ----------------------------- *)

(* What the compiler demands of the lines that it reads: nothing but       *)
(* #endif after an #else, and no module inside another.                    *)
Accepts ==
    /\ (At("elif") \/ At("else")) /\ ~Raw /\ cpp # <<>> => ~Last(cpp).final
    /\ At("module") /\ Active /\ call.fc_root_smod => cpp_module = None

(* The program reads on wherever the compiler does, whatever the           *)
(* conditions that it could not evaluate come to: of all branches of an    *)
(* #if it never drops the one that is compiled.                            *)
NothingSkipped == agreed /\ pc = "read" /\ Active => ~IsDead

(* So it finds every file that the compiler reads, and every module and    *)
(* submodule that it needs or makes.                                       *)
NothingMissed == agreed => \A f \in DOMAIN seen : seen[f] \subseteq found[f]

(* And where it could evaluate them all it reads and finds nothing else: a *)
(* spurious dependency would close cycles of modules that the program has  *)
(* not.                                                                    *)
NothingForeign ==
    agreed /\ decided => /\ pc = "read" /\ ~IsDead => Active
                         /\ \A f \in DOMAIN seen : found[f] \subseteq seen[f]

AllRules == UNION {output[i] : i \in DOMAIN output}
Prerequisites(file) == UNION {r.normal : r \in {q \in AllRules : file \in q.targets}}
Hints(file) == UNION {r.hint : r \in {q \in AllRules : file \in q.targets}}
Reached(file) ==   \* over a module, what stands for it, and an object
    LET step(S) == S \union UNION {Prerequisites(f) \union Hints(f) : f \in S}
    IN step(step(step({file})))

StampOf(i) == IF StampNames[i] = NoPath THEN ObjNames[i] ELSE StampNames[i]
Files(i) == Named({ObjNames[i], StampOf(i)})
Provides(i) == ModuleFiles(compiled[i].provided_modules) \union SubmoduleFiles(compiled[i].provided_submodules)
Requires(i) == ModuleFiles(compiled[i].required_modules) \union SubmoduleFiles(compiled[i].required_submodules)
Implements(i) == compiled[i].provided_modules \union {ms[1] : ms \in compiled[i].provided_submodules}

(* Where each name stands for one thing: no object or stamp is that of two *)
(* inputs, a source or a file of a module; no file of a module is made     *)
(* from two inputs, a source, or that of two submodules; and what a file   *)
(* has both made and used is not continued elsewhere.                      *)
Makes(i) == UNION {r.targets : r \in {q \in output[i] : q.normal = {StampOf(i)}}}
NamesApart ==
    \A i \in DOMAIN compiled :
        /\ \A ms \in compiled[i].provided_submodules, ns \in compiled[i].required_submodules :
              SubmoduleFiles({ms}) = SubmoduleFiles({ns}) => ms = ns
        /\ \A j \in DOMAIN compiled :
              /\ Files(i) \intersect (Makes(j) \union {SrcNames[j]}) = {}
              /\ Provides(i) \intersect (compiled[j].included_files \union {SrcNames[j]}) = {}
        /\ \A j \in DOMAIN compiled \ {i} :
              /\ ObjNames[i] # NoPath
              /\ Files(i) \intersect Files(j) = {} /\ Makes(i) \intersect Makes(j) = {}
              /\ ModuleFiles(compiled[i].required_modules \intersect Implements(j)) \intersect Makes(i) = {}

(* The rules of all files together let make compile a file again when one  *)
(* it reads is new, and not before the modules it uses are there; and they *)
(* lead from an object to all that implement the modules it uses, their    *)
(* submodules too, but not from a file to itself.                          *)
Buildable ==
    pc = "done" /\ agreed /\ call.fc_enable =>
        \A i \in DOMAIN compiled :
            /\ \A f \in Files(i) : Named({SrcNames[i]}) \union compiled[i].included_files \subseteq Prerequisites(f)
            /\ \A j \in DOMAIN compiled \ {i} :
                  /\ \A f \in Files(i), m \in Requires(i) \intersect Provides(j) :
                        m \in Prerequisites(f) /\ StampOf(j) \in Prerequisites(m)
                  /\ compiled[i].required_modules \intersect Implements(j) # {} => ObjNames[j] \in Reached(ObjNames[i])
            /\ decided => \A f \in Files(i), m \in Provides(i) : m \notin Prerequisites(f)
=============================================================================
