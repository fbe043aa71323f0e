------------------------------ MODULE Demangle ------------------------------
(***************************************************************************)
(* __cxa_demangle of typeinfo.cc and __cxa_demangle_gnu3: the driver that  *)
(* reads an encoding and then one type after another, and hands the text   *)
(* to the caller's buffer.  The names it is given are the ones a compiler  *)
(* makes of the declarations in Declarations (module MangledNames).        *)
(***************************************************************************)
EXTENDS MangledNames

CONSTANTS Declarations,
          MoreDeclarations, \* the ones whose names are demangled after another
          CallerBuffers,    \* capacities of the buffers callers start with
          MaxCalls          \* calls that one buffer is passed to

VARIABLES
    decl,    \* the declaration whose name is demangled
    mangled, \* Mangle(decl): its tokens, candidates and what they refer to
    pc,      \* "begin", "return", "first", "args", "flat", "done"
    ddata,   \* struct cpp_demangle_data
    buf,     \* the caller's buffer: capacity (0: NULL), *n, text written, *status
    calls    \* calls made so far

vars == <<decl, mangled, pc, ddata, buf, calls>>

Init ==
    /\ decl \in Declarations
    /\ mangled = Mangle(decl)
    /\ pc = "begin"
    /\ ddata = DataInit(mangled.tokens)
    /\ buf \in {[cap |-> c, n |-> c, text |-> <<>>, status |-> "none"] : c \in CallerBuffers}
    /\ calls = 1

\* The end of the name, or the version gcc appends with @@.
AtEnd(d) == At(d, 0) = "" \/ Pair(d) = "@@"

\* A failure at any point ends the call without a text.
Goto(d, next) ==
    /\ ddata' = d
    /\ pc' = IF d.ok THEN next ELSE "flat"
    /\ UNCHANGED <<decl, mangled, buf, calls>>

\* A name without _Z is read as a type.
ReadAsType ==
    /\ pc = "begin" /\ IsType(decl)
    /\ Goto(Read("type", ddata), "flat")

\* Mutant: the function's name stays a candidate.
MutantPopFunctionName(d) == d

\* Pop function name from substitution candidate list.
PopFunctionName(d) ==
    IF At(d, 0) # "" /\ d.subst # <<>> THEN [d EXCEPT !.subst = Front(@)] ELSE d

\* Template arguments right before the types announce a return type.
BehindEncoding(d) ==
    LET popped == IF d.ok THEN PopFunctionName(d) ELSE d
    IN  IF d.ok /\ d.is_tmpl
        THEN Goto([popped EXCEPT !.is_tmpl = FALSE, !.cur_output = "other"], "return")
        ELSE Goto(popped, "args")

ReadEncodingStep ==
    /\ pc = "begin" /\ ~IsType(decl)
    /\ BehindEncoding(Read("encoding", ddata))

\* The return type goes in front of the name.
PushReturnType(d) ==
    [d EXCEPT !.output = d.other \o <<" ">> \o @, !.other = <<>>, !.cur_output = "output"]

ReadReturnType ==
    /\ pc = "return" /\ ~AtEnd(ddata)
    /\ Goto(PushReturnType(Read("type", ddata)), "first")

ReadArgType ==
    /\ pc \in {"first", "args"} /\ ~AtEnd(ddata)
    /\ Goto(Read("argument", ddata), "args")

MemText(d, q, text) == IF q \in d.mem THEN text ELSE <<>>

Finish ==
    /\ pc \in {"return", "first", "args"} /\ AtEnd(ddata)
    /\ LET d == Require(ddata, pc # "first" /\ ddata.output # <<>>)
           close == IF d.td.paren THEN <<")">> ELSE <<>>
       IN  Goto([d EXCEPT !.output = @ \o close \o MemText(d, "V", <<" volatile">>)
                    \o MemText(d, "K", <<" const">>) \o MemText(d, "r", <<" restrict">>)
                    \o MemText(d, "R", <<" &">>) \o MemText(d, "O", <<" &&">>)], "flat")

\* Mutant: no room for the NUL.
MutantGrow(b, len) == IF b.cap = 0 \/ b.n < len THEN len + 1 ELSE b.cap

\* realloc(buf, len + 1), where *n says that the buffer is too small or there
\* is none.  Lengths are counted in words.
Grow(b, len) == IF b.cap = 0 \/ b.n < len + 1 THEN len + 1 ELSE b.cap

\* `enough' is whether the reallocation succeeds.
Deliver(enough) ==
    /\ pc = "flat"
    /\ LET len == Len(ddata.output)
           cap == Grow(buf, len)
       IN  buf' = IF ~ddata.ok THEN [buf EXCEPT !.text = <<>>, !.status = "-2"]
                  ELSE IF cap # buf.cap /\ ~enough THEN [buf EXCEPT !.text = <<>>, !.status = "-1"]
                  ELSE [cap |-> cap, n |-> len, text |-> ddata.output, status |-> "0"]
    /\ pc' = "done"
    /\ UNCHANGED <<decl, mangled, ddata, calls>>

\* The caller passes the buffer and *n on to the next call.
CallAgain ==
    /\ pc = "done" /\ calls < MaxCalls
    /\ decl' \in MoreDeclarations
    /\ mangled' = Mangle(decl')
    /\ pc' = "begin"
    /\ ddata' = DataInit(mangled'.tokens)
    /\ calls' = calls + 1
    /\ UNCHANGED buf

Next ==
    \/ ReadAsType \/ ReadEncodingStep \/ ReadReturnType \/ ReadArgType \/ Finish
    \/ \E enough \in BOOLEAN : Deliver(enough)
    \/ CallAgain

Spec == Init /\ [][Next]_vars

(***************************************************************************)
(* Properties                                                              *)
(***************************************************************************)
\* "S_I": the arguments of a template that is named by a substitution.
TemplateBySubstitution ==
    \E i \in 1 .. Len(mangled.tokens) - 1 : mangled.tokens[i] = "_" /\ mangled.tokens[i + 1] = "I"

\* A template argument that is a unary expression: printed "3sizeof".
UnaryValue == \E T \in DeclTypes(decl) : T[1] = "x" /\ T[4] = ""

\* A conversion function: printed "operator(cast)".
Conversion == decl[1] = "fun" /\ \E i \in DOMAIN decl[3] : decl[3][i][1] = "conv"

\* A pointer to a function with an argument like const A *: read_function
\* leaves PUSH_NON_CV set while it reads the arguments, and the const next to
\* a name or a substitution is lost.
QualifiedArgument ==
    \E T \in DeclTypes(decl) :
        /\ T[1] = "q" /\ T[3][1] = "fn"
        /\ \E U \in Range(T[3][3]) : \E V \in TypesIn(U) : V[1] = "q" /\ V[2] \in CVQualifiers

\* The name of a virtual thunk, which read_v_offset refuses.
VirtualThunk == decl[1] = "thunk" /\ decl[2][1] = "v"

\* The const of a member function with a local entity: printed behind the entity.
QualifiedLocal == decl[1] = "local" /\ decl[2][2] # <<>>

Misprinted == UnaryValue \/ Conversion \/ QualifiedArgument \/ VirtualThunk \/ QualifiedLocal

\* Names whose parts the demangler does not number like the ABI: function
\* types, template parameters, abbreviations of std:: and a function's local
\* entities, a part that is a prefix of an earlier one, and one that contains
\* a misprinted value.
Renumbered ==
    \/ Range(mangled.tokens) \cap {"F", "T", "Z", "s", "a"} # {}
    \/ UnaryValue
    \/ TemplateBySubstitution
    \/ \E i, j \in DOMAIN mangled.candidates :
          i < j /\ StrPrefix(mangled.candidates[j], mangled.candidates[i])

\* While a function's name is read the substitution candidates are the parts
\* the ABI numbers so far, in its order, and all of them at the end: neither
\* popping the function's own name nor the qualifiers of a type shift them.
SubstitutionsAgree ==
    decl[1] \in {"fun", "type"} /\ ~Renumbered =>
        /\ IsPrefix(ddata.subst, mangled.candidates)
        /\ pc = "flat" => ddata.subst = mangled.candidates

\* What the name refers to stands in the demangler's tables where the ABI has it.
ReferencesAgree ==
    /\ \A i \in mangled.uses : i \in DOMAIN ddata.subst /\ ddata.subst[i] = mangled.candidates[i]
    /\ \A i \in DOMAIN mangled.params : i \in DOMAIN ddata.tmpl /\ ddata.tmpl[i] = mangled.params[i]

\* The name of a declaration is demangled to the declaration, as long as what
\* it refers to is numbered like in the ABI and it has none of the forms that
\* Misprinted lists or a template named by a substitution, whose qualifiers
\* are printed in the wrong place.
RoundTrip ==
    /\ pc = "done" /\ buf.status # "-1"
    /\ ReferencesAgree /\ ~TemplateBySubstitution /\ ~Misprinted
    => buf.status = "0" /\ buf.text = mangled.text

\* The text and its NUL fit the buffer the caller gets, also when the buffer
\* and the size written to *n are passed to another call.
BufferHoldsText == buf.text # <<>> => Len(buf.text) + 1 <= buf.cap /\ buf.n <= buf.cap
=============================================================================
