------------------------------ MODULE MCDepGen ------------------------------
(* Calls of depgen.py for TLC: every balanced sequence of directives of a  *)
(* given length in one file, and small projects of several files.          *)
EXTENDS DepGen, TLC

MaxLines == 5

MCMacro  == {"A", "U"}

Lit(kind, m, neg) == [kind |-> kind, macro |-> m, neg |-> neg]
Cond(all, of) == [all |-> all, of |-> of]
IfDef(m, neg) == [kind |-> "ifdef", macro |-> m, neg |-> neg]
IfCond(c)     == [kind |-> "if", cond |-> c]
ElifCond(c)   == [kind |-> "elif", cond |-> c]
Def(m, body)  == [kind |-> "define", macro |-> m, body |-> body]
Use(m)        == [kind |-> "use", module |-> m, nature |-> "none"]
Inc(f)        == [kind |-> "include", file |-> f, sys |-> FALSE]
Sub(m, p, n)  == [kind |-> "submodule", module |-> m, parent |-> p, name |-> n]
Mod(m)        == [kind |-> "module", module |-> m]
Plain(kind)   == [kind |-> kind]

DefinedA == Cond(TRUE, <<Lit("defined", "A", FALSE)>>)
ValueA   == Cond(TRUE, <<Lit("value", "A", TRUE)>>)
Opaque   == Cond(TRUE, <<Lit("opaque", "U", FALSE)>>)
Mixed    == Cond(FALSE, <<Lit("defined", "A", FALSE), Lit("value", "U", FALSE)>>)

Alphabet ==
    {IfDef("A", TRUE), IfCond(Opaque), IfCond(ValueA), IfCond(Mixed), ElifCond(DefinedA), ElifCond(Opaque),
     Plain("else"), Plain("endif"), Def("A", "one"), Def("A", "undefined"), Def("A", "text")}

(* The open #ifs after a line, or an error.                                *)
Nesting(open, l) ==
    CASE open = <<"error">> -> open
      [] l.kind \in {"ifdef", "if"} -> Append(open, "if")
      [] l.kind = "elif" -> IF open # <<>> /\ Last(open) = "if" THEN open ELSE <<"error">>
      [] l.kind = "else" -> IF open # <<>> /\ Last(open) = "if" THEN Append(Front(open), "else") ELSE <<"error">>
      [] l.kind = "endif" -> IF open # <<>> THEN Front(open) ELSE <<"error">>
      [] OTHER -> open
Balanced(lines) ==
    LET open[i \in 0 .. Len(lines)] == IF i = 0 THEN <<>> ELSE Nesting(open[i - 1], lines[i])
    IN open[Len(lines)] = <<>>

Conditionals == {lines \in [1 .. MaxLines -> Alphabet] :
                    /\ lines[1].kind \in {"ifdef", "if", "define"} /\ lines[2].kind # "endif"
                    /\ Balanced(lines)}

Call == [
    src_name |-> <<>>, obj_name |-> <<>>, output |-> <<>>, dep_name |-> <<>>, mod_stamp_name |-> <<>>,
    macro_flag |-> "-D", pp_inc_flag |-> "-I", fc_inc_flag |-> "-I", mod_dir_flag |-> "-J",
    flags |-> <<>>, fc_enable |-> TRUE, lc_enable |-> TRUE, eval_expr |-> TRUE,
    pp_inc_order |-> <<"inc", "flg">>, pp_inc_sys_order |-> <<"flg">>, pp_inc_sys |-> FALSE,
    fc_inc_order |-> <<"src", "flg">>, fc_root_smod |-> TRUE, fc_smod_infix |-> TRUE,
    fc_intrinsic_mods |-> {"iso"}, fc_external_mods |-> {"mpi"}, src_roots |-> {"", "src", "inc"},
    input |-> <<<<"src", "main">>>>]

OneFile(lines) == [p \in {<<"src", "main">>} |-> lines]
Generated == {[Call EXCEPT !.eval_expr = e] @@ [files |-> OneFile(lines)] : e \in BOOLEAN, lines \in Conditionals}

(* A program, a module with a module procedure and another module in one   *)
(* file, a submodule and a submodule of it; and includes of each kind.     *)
Joined(f, v) == [form |-> "joined", flag |-> f, value |-> v]
Alone(f)     == [form |-> "alone", flag |-> f]
Word(v)      == [form |-> "value", value |-> v]

Guarded(lines) == <<IfDef("A", TRUE), Def("A", "one")>> \o lines \o <<Plain("endif")>>

Sources ==
    (<<"src", "main">> :> <<Inc("h"), Inc("h"), Use("a"), Use("mpi"), [kind |-> "use", module |-> "iso", nature |-> "non_intrinsic"],
                            [kind |-> "use", module |-> "b", nature |-> "intrinsic"], [kind |-> "fc_include", file |-> "g"]>>)
    @@ (<<"src", "a">> :> <<IfDef("U", FALSE), Inc("g"), Plain("endif"), Mod("b"), Plain("module procedure"), Plain("end module"),
                            Mod("a"), Use("b"), Plain("module procedure"), Plain("module procedure"), Plain("end module")>>)
    @@ (<<"src", "s">> :> <<Sub("a", None, "s"), Plain("module procedure"), [kind |-> "line", path |-> <<"src", "t">>]>>)
    @@ (<<"src", "t">> :> <<Sub("a", "s", "t"), [kind |-> "include", file |-> "h", sys |-> TRUE]>>)
    @@ (<<"inc", "h">> :> Guarded(<<Use("b"), Inc("g")>>))
    @@ (<<"inc", "g">> :> <<Plain("text")>>)
    @@ (<<"src", "g">> :> <<IfDef("A", TRUE), Use("iso"), Plain("endif"), [kind |-> "fc_include", file |-> "h"]>>)
    @@ (<<"ext", "h">> :> <<Def("A", "one")>>)

Flags == {<<Alone("-I"), Word("inc"), Joined("-D", [macro |-> "U", body |-> "one"])>>,
          <<Alone("-D"), Alone("-c"), Word([macro |-> "U", body |-> "one"]), Joined("-I", "ext"), Joined("-I", "inc"),
            Joined("-D", [macro |-> "U", body |-> "zero"])>>}

Inputs == {<<<<"src", "main">>, <<"src", "a">>, <<"src", "s">>, <<"src", "t">>>>,
           <<<<"src", "t">>, <<"src", "s">>, <<"src", "main">>, <<"src", "a">>>>}
Stamps(i) == [n \in DOMAIN i |-> <<"stamp", i[n][2]>>]

Projects ==
    UNION {{[Call EXCEPT !.input = i, !.flags = f, !.fc_root_smod = r, !.fc_smod_infix = x, !.mod_stamp_name = s,
                         !.src_roots = IF c THEN {"src", "inc"} ELSE {}, !.output = [n \in DOMAIN i |-> <<"dep", i[n][2]>>], !.pp_inc_sys = c, !.fc_enable = e]
            @@ [files |-> Sources] : s \in {<<>>, Stamps(i)}} :
        i \in Inputs, f \in Flags, r \in BOOLEAN, x \in BOOLEAN, c \in BOOLEAN, e \in BOOLEAN}

(* The standard input has no name, and three names do not fit two inputs.  *)
Odd == {[Call EXCEPT !.input = <<NoPath>>] @@ [files |-> (NoPath :> <<Use("a"), Mod("b"), Plain("else")>>)],
        [Call EXCEPT !.input = <<NoPath>>, !.obj_name = <<<<"obj", "x">>>>] @@ [files |-> (NoPath :> <<Use("a"), Mod("b")>>)],
        [Call EXCEPT !.obj_name = <<<<"obj", "x">>, <<"obj", "y">>>>] @@ [files |-> OneFile(<<>>)]}

MCCalls == Generated \union Projects \union Odd
=============================================================================
