----------------------------- MODULE Demangler -----------------------------
(***************************************************************************)
(* The recursive descent of libelftc_dem_gnu3.c: every cpp_demangle_*      *)
(* function is an operator from the struct cpp_demangle_data before the    *)
(* call to the one after it.                                               *)
(*                                                                         *)
(* A mangled name is a sequence of tokens: one per character, except that  *)
(* a <source-name> (its length and identifier) is one token of Names and a *)
(* run of digits is one token.  A text, and so a vector_str, is a sequence *)
(* of words: the vectors are only ever flattened, cut back to an earlier   *)
(* size or popped by one delimiter, which words keep apart.  An empty text *)
(* stands for the NULL of vector_str_substr.                               *)
(*                                                                         *)
(* ok becomes FALSE where the function returns 0; every operator leaves a  *)
(* failed d alone, as the callers give up at once.  Allocation succeeds.   *)
(* The loops that CPP_DEMANGLE_TRY_LIMIT stops after 128 rounds fail here  *)
(* in the first round that reads nothing: no name here has 128 parts in a  *)
(* row, and a round that reads nothing is followed by others like it.      *)
(***************************************************************************)
EXTENDS Integers, Sequences, SequencesExt

CONSTANTS Names,      \* identifiers
          NamePrefix  \* the pairs <<a, b>> of Names with a a proper prefix of b

ASSUME NamesAssumption == NamePrefix \subseteq Names \X Names

DataInit(cur) ==
    [in |-> cur, cur |-> 1, output |-> <<>>, other |-> <<>>, cur_output |-> "output",
     subst |-> <<>>, tmpl |-> <<>>, class_type |-> <<>>, cmd |-> <<>>, mem |-> {},
     is_tmpl |-> FALSE, is_functype |-> FALSE, ref_qualifier |-> "none",
     push_qualifier |-> "ALL", func_type |-> 0, last_sname |-> <<>>,
     td |-> [paren |-> FALSE, firstp |-> TRUE], ok |-> TRUE]

NewDelimit == [paren |-> FALSE, firstp |-> TRUE]

\* *(cur + k); "" is the NUL at the end.
At(d, k) == IF d.cur + k <= Len(d.in) THEN d.in[d.cur + k] ELSE ""
Pair(d) == At(d, 0) \o At(d, 1)
Digits == {"0", "1", "2", "3", "4", "5", "6", "7", "8", "9", "10", "12", "24", "36"}
IsDigit(tok) == tok \in Names \cup Digits
Fail(d) == [d EXCEPT !.ok = FALSE]
Require(d, cond) == IF cond THEN d ELSE Fail(d)
Skip(d, n) == [d EXCEPT !.cur = @ + n]
Output(d) == d[d.cur_output]

\* The words after the first p of a vector, as one string.
Substr(v, p) == SubSeq(v, p + 1, Len(v))

\* What was read since `from', in the vector that was current then.
Words(from, d) == Substr(d[from.cur_output], Len(Output(from)))

WordPrefix == NamePrefix \cup {<<"long", "long long">>, <<"unsigned long", "unsigned long long">>,
    <<"char", "char16_t">>, <<"char", "char32_t">>, <<"&", "&&">>}

\* strncmp(s, o, strlen(o)) = 0: o is a prefix of s.
StrPrefix(o, s) ==
    /\ Len(o) <= Len(s)
    /\ \A i \in 1 .. Len(o) : o[i] = s[i] \/ (i = Len(o) /\ <<o[i], s[i]>> \in WordPrefix)

\* vector_str_find: NULL is answered with -1, which its callers take for found.
VectorStrFind(v, o) == o = <<>> \/ \E i \in DOMAIN v : StrPrefix(o, v[i])

PushStr(d, s) ==
    IF ~d.ok THEN d
    ELSE IF s = <<>> THEN Fail(d)
    ELSE [d EXCEPT ![d.cur_output] = @ \o s, !.is_tmpl = FALSE]

PushIf(d, cond, s) == IF cond THEN PushStr(d, s) ELSE d

\* Removes the words that were read since the vector had p of them.
CutBack(d, vec, p) == [d EXCEPT ![vec] = SubSeq(@, 1, p)]

PushSubst(d, s) ==
    IF ~d.ok THEN d
    ELSE IF s = <<>> THEN Fail(d)
    ELSE IF VectorStrFind(d.subst, s) THEN d ELSE [d EXCEPT !.subst = Append(@, s)]

GetSubst(d, idx) ==
    IF Len(d.subst) <= idx THEN Fail(d) ELSE Skip(PushStr(d, d.subst[idx + 1]), 1)

GetTmplParam(d, idx) ==
    IF Len(d.tmpl) <= idx THEN Fail(d) ELSE Skip(PushStr(d, d.tmpl[idx + 1]), 1)

(***************************************************************************)
(* Type qualifiers.  v.q are the qualifiers in the order read, v.ext the   *)
(* names of the vendor extended ones and the sizes of the vectors.         *)
(***************************************************************************)
NoQualifier == [q |-> <<>>, ext |-> <<>>]
CVQualifiers == {"r", "V", "K"}

QualifierText(q, name) ==
    CASE q = "P" -> <<"*">>         [] q = "R" -> <<"&">>          [] q = "O" -> <<"&&">>
      [] q = "C" -> <<" complex">>  [] q = "G" -> <<" imaginary">> [] q = "r" -> <<" restrict">>
      [] q = "V" -> <<" volatile">> [] q = "K" -> <<" const">>     [] q = "U" -> <<" ">> \o name
      [] q = "Dv" -> <<" __vector(">> \o name \o <<")">>

\* One round of the loop: a holds d, the flag cv, subst_v and e_idx.
PushQualifier(v, has_type, a, idx) ==
    LET q == v.q[idx]
        isCV == q \in CVQualifiers
        mode == a.d.push_qualifier
        skip == IF isCV THEN (mode = "NON_CV" /\ a.cv) \/ (mode = "CV" /\ ~a.cv)
                        ELSE mode = "CV"
        named == q \in {"U", "Dv"}
        text == QualifierText(q, IF named THEN v.ext[a.e] ELSE <<>>)
        inner == isCV /\ idx > 1 /\ v.q[idx - 1] \in CVQualifiers
        pushed == PushStr(a.d, text)
    IN  IF skip \/ ~a.d.ok THEN [a EXCEPT !.cv = @ /\ isCV]
        ELSE IF named /\ a.e > Len(v.ext) THEN [a EXCEPT !.d = Fail(@)]
        ELSE [d |-> IF has_type /\ ~inner THEN PushSubst(pushed, a.sub \o text) ELSE pushed,
              cv |-> a.cv /\ isCV,
              sub |-> a.sub \o text,
              e |-> IF named THEN a.e + 1 ELSE a.e]

\* Mutant: in the order in which they were read.
MutantPushTypeQualifier(d, v, type_str) ==
    FoldLeft(LAMBDA a, idx : PushQualifier(v, type_str # <<>>, a, idx),
             [d |-> d, cv |-> TRUE, sub |-> type_str, e |-> 1], [i \in 1 .. Len(v.q) |-> i]).d

\* From the qualifier next to the type outwards.
PushTypeQualifier(d, v, type_str) ==
    FoldLeft(LAMBDA a, idx : PushQualifier(v, type_str # <<>>, a, idx),
             [d |-> d, cv |-> TRUE, sub |-> type_str, e |-> 1],
             [i \in 1 .. Len(v.q) |-> Len(v.q) + 1 - i]).d

\* vector_read_cmd_find
ReadCmdFind(d, cmd) == {i \in DOMAIN d.cmd : d.cmd[i].cmd = cmd}
PushCmd(d, cmd, v) == [d EXCEPT !.cmd = Append(@, [cmd |-> cmd, data |-> v])]
PopCmd(d) == [d EXCEPT !.cmd = SubSeq(@, 1, Len(@) - 1)]

(***************************************************************************)
(* Numbers and source names                                                *)
(***************************************************************************)
\* strtol in base 36 for the one-digit ids that occur, then ++nth.
SeqDigits == <<"0", "1", "2", "3", "4", "5", "6", "7", "8", "9">>
SeqId(tok) == CHOOSE n \in 1 .. Len(SeqDigits) : SeqDigits[n] = tok

ReadSname(d) ==
    IF ~d.ok THEN d
    ELSE IF At(d, 0) \notin Names THEN Fail(d)
    ELSE LET text == IF At(d, 0) = "_GLOBAL__N_1" THEN <<"(anonymous namespace)">> ELSE <<At(d, 0)>>
             p == PushStr(d, text)
         IN  Skip([p EXCEPT !.last_sname = IF ReadCmdFind(d, "TMPL") = {} THEN text ELSE @], 1)

\* [n] <decimal>, as the digits that are printed; the number read is in .num
ReadNumber(d) ==
    LET neg == At(d, 0) = "n"
        k == IF neg THEN 1 ELSE 0
    IN  IF ~d.ok \/ At(d, k) \notin Digits THEN [d |-> Fail(d), num |-> <<>>]
        ELSE [d |-> Skip(d, k + 1),
              num |-> IF neg /\ At(d, 1) # "0" THEN <<"-", At(d, 1)>> ELSE <<At(d, k)>>]

ReadOffsetNumber(d) ==
    LET neg == At(d, 0) = "n"
        k == IF neg THEN 1 ELSE 0
    IN  IF ~d.ok \/ At(d, 0) = "" THEN Fail(d)
        ELSE Skip(PushStr(d, (IF neg THEN <<"-">> ELSE <<>>) \o <<At(d, k), " ">>), k + 2)

ReadNvOffset(d) == ReadOffsetNumber(PushStr(d, <<"offset : ">>))

\* The last line returns the negation of what read_offset_number returns.
ReadVOffset(d) ==
    LET d1 == PushStr(ReadOffsetNumber(PushStr(d, <<"offset : ">>)), <<"virtual offset : ">>)
        d2 == ReadOffsetNumber(d1)
    IN  IF ~d1.ok THEN d1 ELSE [d2 EXCEPT !.ok = ~@]

ReadOffset(d) ==
    IF ~d.ok THEN d
    ELSE IF At(d, 0) = "h" THEN ReadNvOffset(Skip(d, 1))
    ELSE IF At(d, 0) = "v" THEN ReadVOffset(Skip(d, 1))
    ELSE Fail(d)

\* discriminator: _ <digits>
SkipDiscriminator(d) ==
    IF ~d.ok \/ At(d, 0) # "_" THEN d
    ELSE IF At(d, 1) \in Digits THEN Skip(d, 2) ELSE Skip(d, 1)

LocalSourceName(d) == SkipDiscriminator(ReadSname(Skip(d, 1)))

(***************************************************************************)
(* Operators: the words of the expression grammar and of operator names.   *)
(***************************************************************************)
OperatorsAToL ==
    [aa |-> "&&", ad |-> "&", an |-> "&", aN |-> "&=", aS |-> "=", cl |-> "()", cm |-> ",",
     co |-> "~", cv |-> "(cast)", da |-> "delete []", de |-> "*", dl |-> "delete", dv |-> "/",
     dV |-> "/=", eo |-> "^", eO |-> "^=", eq |-> "==", ge |-> ">=", gt |-> ">", ix |-> "[]",
     le |-> "<=", ls |-> "<<", lS |-> "<<=", lt |-> "<"]

OperatorsMToZ ==
    [mi |-> "-", mI |-> "-=", ml |-> "*", mL |-> "*=", mm |-> "--", na |-> "new []", ne |-> "!=",
     ng |-> "-", nt |-> "!", nw |-> "new", oo |-> "||", or |-> "|", oR |-> "|=", pl |-> "+",
     pL |-> "+=", pm |-> "->*", pp |-> "++", ps |-> "+", pt |-> "->", qu |-> "?", rm |-> "%",
     rM |-> "%=", rs |-> ">>", rS |-> ">>=", rz |-> "sizeof", sv |-> "sizeof"]

Operators == OperatorsAToL @@ OperatorsMToZ
Unary == {"ad", "da", "de", "dl", "na", "ng", "nw", "ps", "rz", "sv"}
Trinary == {"qu"}

OperatorName(code) ==
    LET word == Operators[code]
    IN  CASE word \in {"delete", "delete []", "new", "new []"} -> <<"operator", " ", word>>
          [] word = "sizeof" -> <<"operator", " ", word, " ">>
          [] OTHER -> <<"operator", word>>

(***************************************************************************)
(* Builtin types, by their first character or by the one behind D.         *)
(***************************************************************************)
Builtin ==
    [a |-> "signed char", b |-> "bool", c |-> "char", d |-> "double", e |-> "long double",
     f |-> "float", g |-> "__float128", h |-> "unsigned char", i |-> "int", j |-> "unsigned int",
     l |-> "long", m |-> "unsigned long", n |-> "__int128", o |-> "unsigned __int128",
     s |-> "short", t |-> "unsigned short", v |-> "void", w |-> "wchar_t", x |-> "long long",
     y |-> "unsigned long long", z |-> "..."]

BuiltinD ==
    [a |-> "auto", c |-> "decltype(auto)", d |-> "decimal64", e |-> "decimal128",
     f |-> "decimal32", h |-> "half", i |-> "char32_t", n |-> "decltype(nullptr)",
     s |-> "char16_t"]

\* std:: abbreviations; the ones that name a class template's instance also
\* set last_sname.
StdChar(name) == <<"std::", name, "<", "char", ", ", "std::", "char_traits", "<", "char", ">", ">">>
StdAbbreviation ==
    [Sa |-> <<"std::", "allocator">>, Sb |-> <<"std::", "basic_string">>,
     Sd |-> StdChar("basic_iostream"), Si |-> StdChar("basic_istream"),
     So |-> StdChar("basic_ostream"), Ss |-> <<"std::", "string">>]
StdSname ==
    [Sd |-> <<"basic_iostream">>, Si |-> <<"basic_istream">>, So |-> <<"basic_ostream">>,
     Ss |-> <<"string">>]

SpecialName ==
    [GA |-> "hidden alias for ", GR |-> "reference temporary #", GV |-> "guard variable for ",
     Tc |-> "virtual function covariant override ", TC |-> "construction vtable for ",
     TF |-> "typeinfo fn for ", Th |-> "virtual function non-virtual override ",
     TH |-> "TLS init function for ", TI |-> "typeinfo for ", TJ |-> "java Class for ",
     TS |-> "typeinfo name for ", TT |-> "VTT for ", Tv |-> "virtual function virtual override ",
     TV |-> "vtable for ", TW |-> "TLS wrapper function for "]

(***************************************************************************)
(* Read(symbol, d) reads a symbol of the grammar that may contain others:  *)
(* it calls the function of that name, see the end of the module.          *)
(***************************************************************************)
RECURSIVE Read(_, _)

ReadExpressionUnary(d, word) == PushStr(Read("expression", d), <<word>>)
ReadExpressionBinary(d, word) == Read("expression", ReadExpressionUnary(d, word))
ReadExpressionTrinary(d, word1, word2) ==
    ReadExpressionBinary(ReadExpressionUnary(d, word1), word2)

ReadTmplParam(d) ==
    IF ~d.ok \/ At(d, 0) # "T" THEN Fail(d)
    ELSE IF At(d, 1) = "_" THEN GetTmplParam(Skip(d, 1), 0)
    ELSE GetTmplParam(Skip(d, 2), SeqId(At(d, 1)))

\* Floating-point literals (push_fp) are left out.
ReadExprPrimary(d) ==
    LET d1 == Skip(d, 1)
        neg == At(d1, 1) = "n"
        num == Skip(PushIf(d1, neg, <<"-">>), IF neg THEN 2 ELSE 1)
    IN  CASE Pair(d1) = "_Z" -> Skip(Read("encoding", Skip(d1, 2)), 1)
          [] At(d1, 0) = "b" ->
               Skip(PushStr(Require(d1, At(d1, 2) = "E" /\ At(d1, 1) \in {"0", "1"}),
                            IF At(d1, 1) = "0" THEN <<"false">> ELSE <<"true">>), 3)
          [] At(d1, 0) \in {"i", "j", "l", "m", "n", "s", "t", "x", "y"} ->
               Skip(PushStr(Require(num, At(num, 0) \in Digits /\ At(num, 1) = "E"),
                            <<At(num, 0)>>), 2)
          [] OTHER -> Fail(d)

ReadCtorDtor(d, scope) ==
    Skip(PushStr(PushStr(Require(d, d.last_sname # <<>>), scope), d.last_sname), 2)

ReadUqname(d) ==
    LET code == Pair(d) IN
    CASE code = "cv" -> Read("type", Skip(PushStr(d, OperatorName(code)), 2))
      [] code \in DOMAIN Operators \ {"cv"} -> Skip(PushStr(d, OperatorName(code)), 2)
      [] code = "sr" -> Skip(PushStr(d, <<"scope resolution ", "operator", " ">>), 2)
      [] At(d, 0) = "v" /\ At(d, 1) \in Digits ->
           ReadSname(Skip(PushStr(d, <<"vendor extened ", "operator", " ", At(d, 1)>>), 2))
      [] code \in {"C1", "C2", "C3"} -> ReadCtorDtor(d, <<"::">>)
      [] code \in {"D0", "D1", "D2"} -> ReadCtorDtor(d, <<"::", "~">>)
      [] IsDigit(At(d, 0)) -> ReadSname(d)
      [] At(d, 0) = "L" -> LocalSourceName(d)
      [] OTHER -> d

ReadExpression(d) ==
    LET code == Pair(d)
        d2 == Skip(d, 2)
        scoped == Read("uqname", Read("type", d2))
    IN  CASE code = "st" -> Read("type", d2)
          [] code = "sr" -> IF At(scoped, 0) = "I" THEN Read("tmplArgs", scoped) ELSE scoped
          [] code \in Unary -> ReadExpressionUnary(d2, Operators[code])
          [] code \in Trinary -> ReadExpressionTrinary(d2, "?", ":")
          [] code \in DOMAIN Operators \ (Unary \cup Trinary) ->
               ReadExpressionBinary(d2, Operators[code])
          [] At(d, 0) = "L" -> ReadExprPrimary(d)
          [] At(d, 0) = "T" -> ReadTmplParam(d)
          [] OTHER -> Fail(d)

(***************************************************************************)
(* Template arguments                                                      *)
(***************************************************************************)
ReadTmplArg(d) ==
    LET x == Read("expression", Skip(d, 1)) IN
    CASE At(d, 0) = "" -> Fail(d)
      [] At(d, 0) = "L" -> ReadExprPrimary(d)
      [] At(d, 0) = "X" -> Skip(Require(x, At(x, 0) = "E"), 1)
      [] OTHER -> Read("type", d)

\* The argument a was read behind `from'.
PushTmplArg(from, a) ==
    LET arg == Words(from, a)
        b == IF VectorStrFind(a.tmpl, arg) THEN a ELSE [a EXCEPT !.tmpl = Append(@, arg)]
    IN  Require(b, arg # <<>>)

\* The loop behind "<": one argument, then the end, more arguments, or the
\* template arguments of a substitution.
RECURSIVE ReadTmplArgList(_)
ReadTmplArgList(d) ==
    LET Behind(b) ==
            IF ~b.ok THEN b
            ELSE IF At(b, 0) = "E" THEN [PushStr(Skip(b, 1), <<">">>) EXCEPT !.is_tmpl = TRUE]
            ELSE ReadTmplArgList(PushIf(b, At(b, 0) # "I", <<", ">>))
    IN  Behind(PushTmplArg(d, ReadTmplArg(d)))

ReadTmplArgs(d) ==
    PopCmd(ReadTmplArgList(PushStr(PushCmd(Skip(d, 1), "TMPL", NoQualifier), <<"<">>)))

(***************************************************************************)
(* Substitutions                                                           *)
(***************************************************************************)
\* The template arguments of d, whose template's name is str, make a candidate.
PushInstance(d, str) ==
    LET inst == Read("tmplArgs", d)
    IN  PushSubst(inst, str \o Words(d, inst))

\* d has read a name behind `from', whose scope is v.  It becomes a candidate,
\* and so does its instance if template arguments follow.
PushNameAndArgs(from, d, v) ==
    LET name == v \o Words(from, d)
        named == PushSubst(Require(d, Words(from, d) # <<>>), name)
    IN  IF named.ok /\ At(named, 0) = "I" THEN PushInstance(named, name) ELSE named

ReadSubstStd(d) ==
    LET std == Skip(PushStr(d, <<"std::">>), 2)
    IN  PushNameAndArgs(std, Read("uqname", std), <<"std::">>)

ReadSubstStdTmpl(d, str) == IF At(d, 0) = "I" THEN PushInstance(d, str) ELSE d

ReadSubst(d) ==
    LET code == Pair(d)
        std == Skip(PushStr(d, StdAbbreviation[code]), 2)
        named == IF code \in DOMAIN StdSname THEN [std EXCEPT !.last_sname = StdSname[code]] ELSE std
    IN  CASE code \in DOMAIN StdAbbreviation -> ReadSubstStdTmpl(named, StdAbbreviation[code])
          [] code = "St" -> ReadSubstStd(d)
          [] At(d, 1) = "" -> Fail(d)
          [] At(d, 1) = "_" -> GetSubst(Skip(d, 1), 0)
          [] At(d, 1) \in Range(SeqDigits) -> GetSubst(Skip(d, 2), SeqId(At(d, 1)))
          [] OTHER -> Skip(d, 2)

(***************************************************************************)
(* Names                                                                   *)
(***************************************************************************)
PrefixPart(d) ==
    CASE At(d, 0) = "I" -> Read("tmplArgs", d)
      [] At(d, 0) = "S" -> Read("subst", d)
      [] At(d, 0) = "T" -> ReadTmplParam(d)
      [] OTHER -> Read("uqname", d)

\* v is the text of the prefix read so far.
RECURSIVE ReadPrefix(_, _)
ReadPrefix(d, v) ==
    LET Behind(a) ==
            LET text == Words(d, a)
                b == IF text = <<>> THEN a ELSE PushSubst(a, v \o text)
                more == At(b, 0) \notin {"I", "C", "D"} /\ text # <<>>
            IN  IF ~b.ok THEN b
                ELSE IF At(b, 0) = "E" THEN Skip(b, 1)
                ELSE IF b.cur = d.cur THEN Fail(b)
                ELSE ReadPrefix(PushIf(b, more, <<"::">>),
                                IF more THEN v \o text \o <<"::">> ELSE v \o text)
    IN  Behind(PrefixPart(d))

MemberQualifiers == {"r", "V", "K", "R", "O"}

\* The qualifiers of the member function behind N, from position k on.
RECURSIVE ReadMemberQualifiers(_)
ReadMemberQualifiers(d) ==
    IF At(d, 0) \in MemberQualifiers
    THEN ReadMemberQualifiers(Skip([d EXCEPT !.mem = @ \cup {At(d, 0)}], 1)) ELSE d

ReadNestedName(d) ==
    IF At(d, 1) = "" THEN Fail(d) ELSE ReadPrefix(ReadMemberQualifiers(Skip(d, 1)), <<>>)

\* The types up to the E that ends a bare function type, at least one.
RECURSIVE ReadArgTypes(_)
ReadArgTypes(d) ==
    LET a == Read("argument", d)
    IN  IF ~a.ok \/ At(a, 0) = "E" THEN a
        ELSE IF a.cur = d.cur THEN Fail(a) ELSE ReadArgTypes(a)

CloseParen(d) == PushIf(d, d.td.paren, <<")">>)

\* The function around a local entity.  enc is behind its name, which is in a
\* vector of its own and now pushed behind the return type.
LocalFunctionName(enc, other) ==
    LET back == [enc EXCEPT !.cur_output = "output", !.td = NewDelimit, !.other = other]
        typed == IF enc.is_tmpl THEN Read("type", [back EXCEPT !.is_tmpl = FALSE]) ELSE back
        named == [typed EXCEPT !.output = @ \o enc.other]
    IN  IF At(named, 0) = "" THEN Require(named, ~enc.is_tmpl) ELSE ReadArgTypes(named)

\* args is behind the types of the function's parameters.
LocalEntity(args, td) ==
    LET closed == [CloseParen(Require(Skip(args, 1), At(args, 1) # "")) EXCEPT !.td = td]
    IN  IF At(closed, 0) = "s" THEN Skip(closed, 1) ELSE Read("name", PushStr(closed, <<"::">>))

\* Z <encoding> E <entity name>
ReadLocalName(d) ==
    LET inner == [Skip(d, 1) EXCEPT !.other = <<>>, !.cur_output = "other"]
    IN  IF At(d, 1) = "" THEN Fail(d)
        ELSE SkipDiscriminator(
                LocalEntity(LocalFunctionName(Read("encoding", inner), d.other), d.td))

ReadName(d) ==
    LET uq == Read("uqname", d)
        text == Words(d, uq)
    IN  CASE At(d, 0) = "S" -> Read("subst", d)
          [] At(d, 0) = "N" -> ReadNestedName(d)
          [] At(d, 0) = "Z" -> ReadLocalName(d)
          [] OTHER -> IF text = <<>> THEN Fail(uq)
                      ELSE IF "operator" \in Range(text) THEN uq
                      ELSE PushNameAndArgs(d, uq, <<>>)

\* The words that were read behind the first p of vec are taken out of it again.
Flat(read, vec, p) ==
    [d |-> CutBack(Require(read, Len(read[vec]) > p), vec, p), str |-> Substr(read[vec], p)]
ReadNameFlat(d) == Flat(Read("name", d), d.cur_output, Len(Output(d)))
ReadTypeFlat(d) == Flat(Read("type", d), d.cur_output, Len(Output(d)))

\* read_expression_flat counts in output wherever the words go.
ReadExpressionFlat(d) == Flat(Read("expression", d), "output", Len(d.output))

ReadReferenceTemporary(d) ==
    LET name == ReadNameFlat(d)
        n == ReadNumber(name.d)
    IN  PushStr(n.d, n.num \o <<" for ">> \o name.str)

ReadConstructionVtable(d) ==
    LET type == ReadTypeFlat(d)
        n == ReadNumber(type.d).d
        base == Read("type", Skip(Require(n, At(n, 0) = "_"), 1))
    IN  PushStr(base, <<"-in-">> \o type.str)

ReadEncoding(d) ==
    LET code == Pair(d)
        s == Skip(PushStr(d, <<SpecialName[code]>>), 2)
        clone == IF At(d, 2) = "n" THEN "non-transaction clone for " ELSE "transaction clone for "
    IN  CASE code = "GA" -> Read("encoding", s)
          [] code = "GR" -> ReadReferenceTemporary(s)
          [] code = "GT" -> Read("encoding", Skip(PushStr(d, <<clone>>), 3))
          [] code = "Tc" -> Read("encoding", ReadOffset(ReadOffset(s)))
          [] code = "TC" -> ReadConstructionVtable(s)
          [] code = "Th" -> Read("encoding", ReadNvOffset(s))
          [] code = "Tv" -> Read("encoding", ReadVOffset(s))
          [] code \in {"TF", "TI", "TJ", "TS", "TT", "TV"} -> Read("type", s)
          [] code \in {"GV", "TH", "TW"} -> Read("name", s)
          [] OTHER -> Read("name", d)

(***************************************************************************)
(* Types                                                                   *)
(***************************************************************************)
ReadArray(d) ==
    LET d1 == Skip(d, 1)
        dim == CASE At(d1, 0) = "_" -> [d |-> d1, str |-> <<>>]
                 [] At(d1, 0) \in Digits -> [d |-> Skip(d1, 1), str |-> <<At(d1, 0)>>]
                 [] OTHER -> ReadExpressionFlat(d1)
        type == Read("type", Skip(Require(dim.d, At(dim.d, 0) = "_" /\ At(dim.d, 1) # ""), 1))
    IN  IF At(d1, 0) = "" THEN Fail(d) ELSE PushStr(type, <<" [">> \o dim.str \o <<"]">>)

RefQualifierText(d) ==
    CASE d.ref_qualifier = "R" -> PushStr(d, <<" &">>)
      [] d.ref_qualifier = "O" -> PushStr(d, <<" &&">>)
      [] OTHER -> d

\* The type behind the qualifiers: d after it, the qualifiers still to be
\* pushed and whether it is a builtin type.
Unqualified(d, v, builtin) == [d |-> d, v |-> v, builtin |-> builtin]

PushQualifiers(d, which, v) == PushTypeQualifier([d EXCEPT !.push_qualifier = which], v, <<>>)

\* The member pointer the function type belongs to: its class and qualifiers.
PushMember(d, space) ==
    LET rc == ReadCmdFind(d, "PTRMEM")
        class == IF d.class_type = <<>> THEN <<>> ELSE Last(d.class_type)
        member == PushStr(PushStr(PushIf(d, space, <<" ">>), class), <<"::*">>)
    IN  IF rc = {} THEN d
        ELSE [PushQualifiers(member, "ALL", d.cmd[Max(rc)].data) EXCEPT !.func_type = @ + 1]

\* The pointers and references to the function type, behind its return type.
PushDeclarator(d, v) ==
    LET non_cv == Range(v.q) \ CVQualifiers # {}
        paren == non_cv \/ ReadCmdFind(d, "PTRMEM") # {}
        open == PushStr(d, IF paren THEN <<" ", "(">> ELSE <<" ">>)
    IN  PushIf(PushMember(PushQualifiers(open, "NON_CV", v), non_cv), paren, <<")">>)

\* d is behind the types of the parameters.
EndFunction(d, v, td) ==
    LET closed == [CloseParen([d EXCEPT !.is_functype = FALSE]) EXCEPT !.td = td]
        cv == [PushQualifiers(closed, "CV", v) EXCEPT !.push_qualifier = "ALL"]
    IN  Skip([RefQualifierText(cv) EXCEPT !.ref_qualifier = "none"], 1)

\* F <return type> <argument types> E.  The qualifiers v of the function type
\* are printed here; the ones left are empty unless there were no arguments.
ReadFunction(d, v) ==
    LET Args(x) == ReadArgTypes([x EXCEPT !.is_functype = TRUE, !.td = NewDelimit])
        Behind(ret) ==
            IF At(ret, 0) = "E" THEN Unqualified(Skip(ret, 1), v, FALSE)
            ELSE Unqualified(EndFunction(Args(PushDeclarator(ret, v)), v, d.td), NoQualifier, FALSE)
    IN  Behind(Read("type", Skip(d, IF At(d, 1) = "Y" THEN 2 ELSE 1)))

\* M <class type> <member type>; output is used even where cur_output is not.
ReadPointerToMember(d, v) ==
    LET class == Flat(Read("type", Skip(d, 1)), "output", Len(d.output))
        d1 == [PushCmd(class.d, "PTRMEM", v) EXCEPT !.class_type = Append(@, class.str)]
        member == Read("type", d1)
        done == PushIf(member, member.func_type = d1.func_type, <<" ">> \o class.str \o <<"::*">>)
    IN  IF ~class.d.ok THEN class.d ELSE PopCmd([done EXCEPT !.class_type = Front(@)])

\* The loop over the qualifiers in front of a type; acc holds d and v.
RECURSIVE ReadTypeQualifiers(_, _)
ReadTypeQualifiers(acc, delimited) ==
    LET c == At(acc.d, 0)
        d == IF c \in {"R", "O", "E"} THEN acc.d ELSE [acc.d EXCEPT !.ref_qualifier = "none"]
        next == IF delimited THEN [d EXCEPT !.td.firstp = FALSE] ELSE d
        With(q, ext, after) ==
            ReadTypeQualifiers([d |-> after, v |-> [q |-> Append(acc.v.q, q), ext |-> acc.v.ext \o ext]],
                               delimited)
    IN  CASE ~acc.d.ok -> acc
          [] c \in {"P", "C", "G", "r", "V", "K"} -> With(c, <<>>, Skip(next, 1))
          [] c \in {"R", "O"} ->
               IF d.ref_qualifier # "none" THEN [acc EXCEPT !.d = Fail(d)]
               ELSE With(c, <<>>, Skip([next EXCEPT !.ref_qualifier = c], 1))
          [] c = "U" /\ At(d, 1) \in Names -> With(c, << <<At(d, 1)>> >>, Skip(next, 2))
          [] c = "D" /\ At(d, 1) = "v" ->
               LET n == ReadNumber(Skip(next, 2))
                   size == IF At(d, 2) = "_" THEN ReadExpressionFlat(Skip(next, 3))
                           ELSE [d |-> n.d, str |-> n.num]
               IN  With("Dv", <<size.str>>, Skip(Require(size.d, At(size.d, 0) = "_"), 1))
          [] OTHER -> [acc EXCEPT !.d = d]

\* void is left out when it is the whole parameter list.
OmitVoid(d, delimited) ==
    /\ delimited /\ d.td.firstp
    /\ \E e \in d.cur + 1 .. Len(d.in) + 1 :
          /\ e = Len(d.in) + 1 \/ d.in[e] = "E"
          /\ \A i \in d.cur + 1 .. e - 1 : d.in[i] \in {"R", "O"}

ReadUnqualified(d, v, delimited) ==
    LET c == At(d, 0)
        word == PushIf(d, ~(c = "v" /\ OmitVoid(d, delimited)), <<Builtin[c]>>)
        wordD == PushStr(Require(d, At(d, 1) \in DOMAIN BuiltinD), <<BuiltinD[At(d, 1)]>>)
    IN  CASE ~d.ok -> Unqualified(d, v, TRUE)
          [] c \in DOMAIN Builtin -> Unqualified(Skip(word, 1), v, TRUE)
          [] c = "D" -> Unqualified(Skip(wordD, 2), v, TRUE)
          [] c = "E" -> Unqualified(CutBack(Require(d, d.ref_qualifier # "none" /\ d.is_functype),
                                            d.cur_output, Len(Output(d)) - 1), NoQualifier, TRUE)
          [] c = "A" -> Unqualified(ReadArray(d), v, FALSE)
          [] c = "F" -> ReadFunction(d, v)
          [] c = "M" -> Unqualified(ReadPointerToMember(d, v), NoQualifier, FALSE)
          [] c = "I" -> Unqualified(PushInstance(d, <<>>), v, TRUE)
          [] c = "S" -> Unqualified(Read("subst", d), v, FALSE)
          [] c = "T" -> Unqualified(ReadTmplParam(d), v, FALSE)
          [] c = "u" -> Unqualified(ReadSname(Skip(d, 1)), v, FALSE)
          [] OTHER -> Unqualified(Read("name", d), v, FALSE)

\* The type u was read behind `from': it and then each qualified form of it
\* become candidates.
PushType(from, u) ==
    LET type_str == Words(from, u.d)
        s == IF u.builtin \/ VectorStrFind(u.d.subst, type_str) THEN u.d
             ELSE [u.d EXCEPT !.subst = Append(@, type_str)]
    IN  IF u.d.ok THEN PushTypeQualifier(s, u.v, type_str) ELSE u.d

ReadBareType(d, delimited) ==
    LET Behind(q) == PushType(d, ReadUnqualified(q.d, q.v, delimited))
    IN  Behind(ReadTypeQualifiers([d |-> d, v |-> NoQualifier], delimited))

\* "(" in front of the first parameter, ", " in front of the others.
Delimit(d) ==
    LET o == [PushStr(d, <<"(">>) EXCEPT !.td.paren = TRUE]
        open == IF d.td.paren THEN d ELSE Require(o, Len(o.output) >= 2)
    IN  PushIf(open, ~d.td.firstp /\ At(d, 0) # "I", <<", ">>)

ReadType(d, delimited) ==
    IF delimited THEN [ReadBareType(Delimit(d), TRUE) EXCEPT !.td.firstp = FALSE]
    ELSE ReadBareType(d, FALSE)

\* Only the type functions may be called at the end of the name.
Read(symbol, d) ==
    CASE ~d.ok -> d
      [] symbol = "type" -> ReadType(d, FALSE)
      [] symbol = "argument" -> ReadType(d, TRUE)
      [] symbol \notin {"type", "argument"} /\ At(d, 0) = "" -> Fail(d)
      [] symbol = "name" -> ReadName(d)
      [] symbol = "uqname" -> ReadUqname(d)
      [] symbol = "subst" -> ReadSubst(d)
      [] symbol = "encoding" -> ReadEncoding(d)
      [] symbol = "expression" -> ReadExpression(d)
      [] symbol = "tmplArgs" -> ReadTmplArgs(d)
=============================================================================
