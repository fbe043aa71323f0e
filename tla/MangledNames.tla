---------------------------- MODULE MangledNames ----------------------------
(***************************************************************************)
(* Declarations, the names the Itanium C++ ABI gives them and the text a   *)
(* demangler owes for them: the reference the demangler is compared with.  *)
(*                                                                         *)
(* Types are tuples that begin with their kind:                            *)
(*   <<"b", c>>, <<"bD", c>>    builtin types                              *)
(*   <<"q", k, T>>              T with qualifier k                         *)
(*   <<"n", path>>              a class, see below                         *)
(*   <<"fn", T, args>>          a function                                 *)
(*   <<"arr", n, T>>            an array of n T                            *)
(*   <<"mp", C, T>>             a pointer to a member T of C               *)
(*   <<"param", i>>             the i-th template parameter of the function*)
(*   <<"lit", c, n>>, <<"x", op, e1, e2>>  values, as template arguments   *)
(* A path is a sequence of components: <<"id", name>>, <<"tm", args>> (the *)
(* arguments of the template named so far), <<"std">>, <<"abbr", c>>,      *)
(* <<"ctor">>, <<"dtor">>, <<"op", a, b>>, <<"conv", T>>.                  *)
(* Declarations: <<"type", T>>, <<"data", path>>,                          *)
(*   <<"fun", q, path, ret, args>> with ret = <<>> unless a template,      *)
(*   <<"T", code, T>>, <<"V", path>>, <<"thunk", code, decl>>,             *)
(*   <<"local", decl, path>>                                               *)
(* A unary expression has e2 = "". The code of a thunk begins with "h" and *)
(* its offset, or with "v" and two.                                        *)
(***************************************************************************)
EXTENDS Demangler

IsType(decl) == decl[1] = "type"

(***************************************************************************)
(* Mangling.  m.c are the substitution candidates, in order, m.uses the    *)
(* positions of the ones referred to and m.params the template parameters. *)
(***************************************************************************)
Emit(m, toks) == [m EXCEPT !.t = @ \o toks]
Candidate(m, x) == [m EXCEPT !.c = Append(@, x)]
Known(m, x) == {i \in DOMAIN m.c : m.c[i] = x}
Refer(m, i) == Emit([m EXCEPT !.uses = @ \cup {i}],
                    IF i = 1 THEN <<"S", "_">> ELSE <<"S", SeqDigits[i - 1], "_">>)

RECURSIVE MType(_, _)
RECURSIVE MTypes(_, _)
RECURSIVE MComponents(_, _, _, _)

MTypes(m, ts) == IF ts = <<>> THEN m ELSE MTypes(MType(m, Head(ts)), Tail(ts))
MParams(m, ts) == IF ts = <<>> THEN Emit(m, <<"v">>) ELSE MTypes(m, ts)

MComponent(m, comp) ==
    CASE comp[1] = "id" -> Emit(m, <<comp[2]>>)
      [] comp[1] = "tm" -> Emit(MTypes(Emit(m, <<"I">>), comp[2]), <<"E">>)
      [] comp[1] = "std" -> Emit(m, <<"S", "t">>)
      [] comp[1] = "abbr" -> Emit(m, <<"S", comp[2]>>)
      [] comp[1] = "ctor" -> Emit(m, <<"C", "1">>)
      [] comp[1] = "dtor" -> Emit(m, <<"D", "1">>)
      [] comp[1] = "op" -> Emit(m, <<comp[2], comp[3]>>)
      [] comp[1] = "conv" -> MType(Emit(m, <<"c", "v">>), comp[2])

\* The components of path from k on; each prefix becomes a candidate, the
\* whole path only if it names a type.
MComponents(m, path, k, isType) ==
    IF k > Len(path) THEN m
    ELSE LET a == MComponent(m, path[k])
             prefix == SubSeq(path, 1, k)
             no == (k = Len(path) /\ ~isType) \/ (k = 1 /\ path[1][1] \in {"std", "abbr"})
         IN  MComponents(IF no THEN a ELSE Candidate(a, <<"n", prefix>>), path, k + 1, isType)

\* std:: and one name is not a nested name.
Scopes(path) == Cardinality({i \in DOMAIN path : path[i][1] # "tm"})
                    - (IF path[1][1] = "std" THEN 1 ELSE 0)

MPath(m, path, quals, isType) ==
    LET known == {k \in DOMAIN path : Known(m, <<"n", SubSeq(path, 1, k)>>) # {}}
        k == IF known = {} THEN 0 ELSE Max(known)
        Start(x) == IF k = 0 THEN x ELSE Refer(x, Min(Known(m, <<"n", SubSeq(path, 1, k)>>)))
    IN  IF k = Len(path) /\ isType THEN Start(m)
        ELSE IF Scopes(path) > 1
        THEN Emit(MComponents(Start(Emit(m, <<"N">> \o quals)), path, k + 1, isType), <<"E">>)
        ELSE MComponents(Start(m), path, k + 1, isType)

MCV(m, type) ==
    LET RECURSIVE CV(_, _)
        CV(x, t) == IF t[1] = "q" /\ t[2] \in CVQualifiers THEN CV(Emit(x, <<t[2]>>), t[3])
                    ELSE MType(x, t)
    IN  CV(m, type)

MType(m, type) ==
    LET kind == type[1]
        known == Known(m, type)
    IN  IF kind # "n" /\ known # {} THEN Refer(m, Min(known))
        ELSE CASE kind = "b" -> Emit(m, <<type[2]>>)
               [] kind = "bD" -> Emit(m, <<"D", type[2]>>)
               [] kind = "n" -> MPath(m, type[2], <<>>, TRUE)
               [] kind = "q" /\ type[2] \in CVQualifiers -> Candidate(MCV(m, type), type)
               [] kind = "q" /\ type[2] \notin CVQualifiers ->
                    Candidate(MType(Emit(m, <<type[2]>>), type[3]), type)
               [] kind = "fn" ->
                    Candidate(Emit(MParams(MType(Emit(m, <<"F">>), type[2]), type[3]), <<"E">>), type)
               [] kind = "arr" -> Candidate(MType(Emit(m, <<"A", type[2], "_">>), type[3]), type)
               [] kind = "mp" -> Candidate(MType(MType(Emit(m, <<"M">>), type[2]), type[3]), type)
               [] kind = "param" ->
                    Candidate(Emit([m EXCEPT !.params = @ \cup {type[2]}],
                                   IF type[2] = 1 THEN <<"T", "_">>
                                   ELSE <<"T", SeqDigits[type[2] - 1], "_">>), type)
               [] kind = "lit" -> Emit(m, <<"L", type[2], type[3], "E">>)
               [] kind = "x" -> Emit(m, <<"X">> \o type[2] \o <<"L", "i", type[3], "E">>
                                           \o (IF type[4] = "" THEN <<>> ELSE <<"L", "i", type[4], "E">>)
                                           \o <<"E">>)

RECURSIVE MDecl(_, _)
MDecl(m, decl) ==
    LET kind == decl[1] IN
    CASE kind = "type" -> MType(m, decl[2])
      [] kind = "data" -> MPath(m, decl[2], <<>>, FALSE)
      [] kind = "fun" ->
           LET name == MPath(m, decl[3], decl[2], FALSE)
               ret == IF decl[4] = <<>> THEN name ELSE MType(name, decl[4])
           IN  MParams(ret, decl[5])
      [] kind = "T" -> MType(Emit(m, <<"T", decl[2]>>), decl[3])
      [] kind = "V" -> MPath(Emit(m, <<"G", "V">>), decl[2], <<>>, FALSE)
      [] kind = "thunk" -> MDecl(Emit(m, <<"T">> \o decl[2]), decl[3])
      [] kind = "local" ->
           MPath(Emit(MDecl(Emit(m, <<"Z">>), decl[2]), <<"E">>), decl[3], <<>>, FALSE)

(***************************************************************************)
(* Printing.  env are the texts of the function's template arguments.      *)
(***************************************************************************)
RECURSIVE PType(_, _, _)
RECURSIVE PPath(_, _)
RECURSIVE PList(_, _)

PList(ts, env) ==
    IF ts = <<>> THEN <<>>
    ELSE IF Len(ts) = 1 THEN PType(ts[1], <<>>, env)
    ELSE PType(ts[1], <<>>, env) \o <<", ">> \o PList(Tail(ts), env)

LastId(path) == path[Max({i \in DOMAIN path : path[i][1] = "id"})][2]

PPath(path, env) ==
    LET before == Front(path)
        comp == Last(path)
        scope == IF before = <<>> \/ comp[1] = "tm" THEN <<>> ELSE <<"::">>
        text == CASE comp[1] = "id" -> <<comp[2]>>
                  [] comp[1] = "tm" -> <<"<">> \o PList(comp[2], env) \o <<">">>
                  [] comp[1] = "abbr" -> StdAbbreviation["S" \o comp[2]]
                  [] comp[1] = "ctor" -> <<LastId(path)>>
                  [] comp[1] = "dtor" -> <<"~", LastId(path)>>
                  [] comp[1] = "op" -> OperatorName(comp[2] \o comp[3])
                  [] comp[1] = "conv" -> <<"operator", " ">> \o PType(comp[2], <<>>, env)
    IN  IF path = <<>> THEN <<>>
        ELSE IF path = << <<"std">> >> THEN <<"std::">>
        ELSE IF before = << <<"std">> >> THEN <<"std::">> \o text
        ELSE PPath(before, env) \o scope \o text

\* What is declared as `declarator' with this type.
PType(type, declarator, env) ==
    LET kind == type[1] IN
    CASE kind = "b" -> <<Builtin[type[2]]>> \o declarator
      [] kind = "bD" -> <<BuiltinD[type[2]]>> \o declarator
      [] kind = "n" -> PPath(type[2], env) \o declarator
      [] kind = "q" -> PType(type[3], QualifierText(type[2], <<>>) \o declarator, env)
      [] kind = "fn" -> PType(type[2], <<>>, env) \o <<" ">>
                          \o (IF declarator = <<>> THEN <<>> ELSE <<"(">> \o declarator \o <<")">>)
                          \o <<"(">> \o PList(type[3], env) \o <<")">>
      [] kind = "arr" -> PType(type[3], <<>>, env) \o <<" [">> \o <<type[2]>> \o <<"]">> \o declarator
      [] kind = "mp" /\ type[3][1] = "fn" ->
           PType(type[3], PType(type[2], <<>>, env) \o <<"::*">> \o declarator, env)
      [] kind = "mp" /\ type[3][1] # "fn" ->
           PType(type[3], <<" ">> \o PType(type[2], <<>>, env) \o <<"::*">> \o declarator, env)
      [] kind = "param" -> env[type[2]] \o declarator
      [] kind = "lit" -> IF type[2] = "b" THEN (IF type[3] = "1" THEN <<"true">> ELSE <<"false">>)
                         ELSE <<type[3]>>
      [] kind = "x" -> IF type[4] = "" THEN <<Operators[type[2][1] \o type[2][2]], "(", type[3], ")">>
                       ELSE <<type[3], Operators[type[2][1] \o type[2][2]], type[4]>>

Env(path) ==
    IF Last(path)[1] # "tm" THEN <<>>
    ELSE [i \in DOMAIN Last(path)[2] |-> PType(Last(path)[2][i], <<>>, <<>>)]

RECURSIVE OffsetText(_, _)
OffsetText(offsets, word) ==
    LET n == IF offsets[1] = "n" THEN 3 ELSE 2
        more == SubSeq(offsets, n + 1, Len(offsets))
    IN  <<word>> \o (IF n = 3 THEN <<"-", offsets[2], " ">> ELSE <<offsets[1], " ">>)
               \o (IF more = <<>> THEN <<>> ELSE OffsetText(more, "virtual offset : "))

RECURSIVE PDecl(_)
PDecl(decl) ==
    LET kind == decl[1] IN
    CASE kind = "type" -> PType(decl[2], <<>>, <<>>)
      [] kind = "data" -> PPath(decl[2], <<>>)
      [] kind = "fun" ->
           LET env == Env(decl[3])
           IN  (IF decl[4] = <<>> THEN <<>> ELSE PType(decl[4], <<>>, env) \o <<" ">>)
               \o PPath(decl[3], env) \o <<"(">> \o PList(decl[5], env) \o <<")">>
               \o (IF decl[2] = <<>> THEN <<>> ELSE QualifierText(decl[2][1], <<>>))
      [] kind = "T" -> <<SpecialName["T" \o decl[2]]>> \o PType(decl[3], <<>>, <<>>)
      [] kind = "V" -> <<SpecialName["GV"]>> \o PPath(decl[2], <<>>)
      [] kind = "thunk" -> <<SpecialName["T" \o decl[2][1]]>> \o OffsetText(Tail(decl[2]), "offset : ") \o PDecl(decl[3])
      [] kind = "local" -> PDecl(decl[2]) \o <<"::">> \o PPath(decl[3], <<>>)

(***************************************************************************)
(* What a declaration is made of.                                          *)
(***************************************************************************)
RECURSIVE TypesIn(_)
PathTypes(path) ==
    UNION {CASE path[i][1] = "tm" -> UNION {TypesIn(T) : T \in Range(path[i][2])}
             [] path[i][1] = "conv" -> TypesIn(path[i][2])
             [] OTHER -> {} : i \in DOMAIN path}

TypesIn(type) ==
    {type} \cup
        CASE type[1] = "n" -> PathTypes(type[2])
          [] type[1] \in {"q", "arr"} -> TypesIn(type[3])
          [] type[1] = "mp" -> TypesIn(type[2]) \cup TypesIn(type[3])
          [] type[1] = "fn" -> TypesIn(type[2]) \cup UNION {TypesIn(T) : T \in Range(type[3])}
          [] OTHER -> {}

RECURSIVE DeclTypes(_)
DeclTypes(decl) ==
    CASE decl[1] = "type" -> TypesIn(decl[2])
      [] decl[1] \in {"data", "V"} -> PathTypes(decl[2])
      [] decl[1] = "fun" -> PathTypes(decl[3]) \cup UNION {TypesIn(T) : T \in Range(decl[5])}
                                \cup (IF decl[4] = <<>> THEN {} ELSE TypesIn(decl[4]))
      [] decl[1] = "T" -> TypesIn(decl[3])
      [] decl[1] = "thunk" -> DeclTypes(decl[3])
      [] decl[1] = "local" -> DeclTypes(decl[2]) \cup PathTypes(decl[3])

CandidateTexts(m, env) == [i \in DOMAIN m.c |-> PType(m.c[i], <<>>, env)]

DeclEnv(decl) ==
    CASE decl[1] = "fun" -> Env(decl[3]) [] OTHER -> <<>>

Mangle(decl) ==
    LET m == MDecl([t |-> <<>>, c |-> <<>>, uses |-> {}, params |-> {}], decl)
    IN  [tokens |-> m.t, candidates |-> CandidateTexts(m, DeclEnv(decl)), uses |-> m.uses,
         params |-> [i \in m.params |-> DeclEnv(decl)[i]], text |-> PDecl(decl)]
=============================================================================
