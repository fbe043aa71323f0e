----------------------------- MODULE MCDemangle -----------------------------
(***************************************************************************)
(* A small program's worth of declarations: classes, a namespace, class    *)
(* templates and the types made of them to a bounded depth, as parameters  *)
(* of functions, members, operators, constructors and function templates.  *)
(***************************************************************************)
EXTENDS Demangle

MCNames == {"Aa", "Aab", "Box", "Ns", "fn", "xv"}
MCNamePrefix == {<<"Aa", "Aab">>}

Id(n) == <<"id", n>>
Std == <<"std">>
Abbr(c) == <<"abbr", c>>
Op(a, b) == <<"op", a, b>>
Tm(args) == <<"tm", args>>
Named(path) == <<"n", path>>
Class(n) == Named(<<Id(n)>>)
Box(args) == Named(<<Id("Box"), Tm(args)>>)
Q(k, T) == <<"q", k, T>>
Int32 == <<"b", "i">>
Void == <<"b", "v">>
A == Class("Aa")

\* Types without a type constructor around them.
Plain == {Int32, A, Class("Aab"), Named(<<Id("Ns"), Id("Aa")>>), Named(<<Std, Id("Box")>>),
          Named(<<Abbr("s")>>), <<"bD", "n">>}
\* Class templates, with types and values for arguments.
Instances == {Box(<<T>>) : T \in {Int32, A, Q("P", A), <<"lit", "i", "3">>}}
    \cup {Box(<<A, A>>), Named(<<Id("Ns"), Id("Box"), Tm(<<A>>)>>),
          Named(<<Std, Id("Box"), Tm(<<Int32>>)>>), Named(<<Abbr("a"), Tm(<<A>>)>>)}
FunctionTypes == {<<"fn", Void, <<>> >>, <<"fn", Int32, <<Q("P", A)>> >>,
                  <<"fn", Void, <<Q("P", Q("K", A))>> >>, <<"fn", Q("P", Q("K", A)), <<Int32>> >>,
                  <<"fn", Void, <<Q("P", Q("K", Q("P", A))), Int32>> >>}

Types == Plain \cup Instances
    \cup {Q(k, T) : k \in {"P", "R"}, T \in Plain \cup Instances \cup {Q("K", U) : U \in Plain}}
    \cup {Q("P", Q("P", A)), Q("O", A), Q("P", Q("V", Q("K", A))), <<"arr", "3", A>>, <<"mp", A, Int32>>}
    \cup {Q("P", F) : F \in FunctionTypes} \cup {<<"mp", A, F>> : F \in FunctionTypes}

Fun(path, args) == <<"fun", <<>>, path, <<>>, args>>
Member(quals, path, args) == <<"fun", quals, path, <<>>, args>>
Template(path, ret, args) == <<"fun", <<>>, path, ret, args>>

Small == {Int32, A, Class("Aab"), Q("P", A), Q("R", Q("K", A)), Box(<<A>>), Named(<<Id("Ns"), Id("Aa")>>)}

FunctionNames == {<<Id("Ns"), Id("fn")>>, <<Id("Aa"), <<"ctor">> >>, <<Id("Aa"), <<"dtor">> >>,
                  <<Id("Ns"), Id("Aa"), <<"ctor">> >>, <<Id("Box"), Tm(<<A>>), <<"ctor">> >>,
                  <<Id("Box"), Tm(<<A>>), Id("fn")>>, <<Id("Aa"), <<"conv", Q("P", A)>> >>,
                  <<Id("Aa"), Op("p", "l")>>, <<Op("p", "l")>>, <<Op("n", "w")>>, <<Std, Id("fn")>>,
                  <<Std, Id("Box"), Tm(<<A>>), Id("fn")>>}

Operator == {Op(c[1], c[2]) : c \in {<<"a", "a">>, <<"c", "l">>, <<"d", "a">>, <<"i", "x">>, <<"l", "S">>,
                <<"m", "m">>, <<"n", "w">>, <<"p", "t">>, <<"r", "z">>}}
Values == {<<"lit", "b", "1">>, <<"x", <<"p", "l">>, "3", "5">>, <<"x", <<"r", "z">>, "3", "">>}

Params == {<<"param", 1>>, <<"param", 2>>}
Templates == {Template(<<Id("fn"), Tm(ts)>>, ret, args) :
                 ts \in {<<Int32, A>>, <<A, Int32>>, <<Int32, Int32>>, <<Q("P", A), A>>},
                 ret \in {Void, Int32, Q("P", A), <<"param", 1>>},
                 args \in {<<>>} \cup {<<T, U>> : T \in Params, U \in Params \cup {Q("P", <<"param", 2>>), A}}}

Entities == {Fun(<<Id("fn")>>, <<>>), Fun(<<Id("fn")>>, <<A>>), Fun(<<Id("fn")>>, <<Q("P", A), Q("P", A)>>),
             Fun(<<Id("Ns"), Id("fn")>>, <<A>>), Member(<<"K">>, <<Id("Aa"), Id("fn")>>, <<A>>)}

Specials == {<<"T", c, T>> : c \in {"I", "V", "S"}, T \in Small \ {Int32}}
    \cup {<<"V", path>> : path \in {<<Id("xv")>>, <<Id("Ns"), Id("xv")>>}}
    \cup {<<"data", path>> : path \in {<<Id("Ns"), Id("xv")>>, <<Id("Box"), Tm(<<A>>), Id("xv")>>}}
    \cup {<<"thunk", k, f>> : k \in {<<"h", "n", "8", "_">>, <<"h", "8", "_">>,
                                     <<"v", "8", "_", "n", "24", "_">>}, f \in Entities}
    \cup {<<"local", f, <<Id("xv")>> >> : f \in Entities}

MCDeclarations ==
    {Fun(<<Id("fn")>>, <<T, U>>) : T, U \in Types}
        \cup {Fun(n, <<T, U>>) : n \in FunctionNames, T, U \in Small}
        \cup {Member(<<q>>, <<Id("Aa"), Id("fn")>>, <<T>>) : q \in {"K", "V"}, T \in Small}
        \cup {Member(<<>>, <<Id("Aa"), op>>, <<T>>) : op \in Operator, T \in Small}
        \cup {Fun(<<Id("fn")>>, <<Box(<<v>>), Box(<<A, v>>), A>>) : v \in Values}
        \cup {Fun(<<Id("fn")>>, <<Box(<<A, v>>), A>>) : v \in Values}
        \cup {Fun(<<Id("fn")>>, << <<"b", c>>, Q("P", <<"b", c>>), A>>) : c \in DOMAIN Builtin}
        \cup {<<"type", T>> : T \in Types}
        \cup Templates \cup Specials

\* A short name and a long one for the buffer of an earlier call.
MCMoreDeclarations == {Fun(<<Id("fn")>>, <<>>), Fun(<<Id("fn")>>, <<Int32, Q("P", A)>>)}
=============================================================================
