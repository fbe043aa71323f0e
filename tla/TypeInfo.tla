------------------------------ MODULE TypeInfo ------------------------------
(***************************************************************************)
(* Casts over class hierarchies (dynamic_cast.cc): which handler type      *)
(* catches which thrown type, and which subobject the handler gets.        *)
(*                                                                         *)
(* A hierarchy H maps each class to the sequence of its base records, as   *)
(* __vmi_class_type_info does; a class with one non-virtual base (at       *)
(* offset 0) is __si_class_type_info, one without bases __class_type_info. *)
(* A pointer into an object is the subobject it points to: the sequence of *)
(* classes from the complete object, or from the last virtual base on the  *)
(* way, of which an object has only one.                                   *)
(***************************************************************************)
EXTENDS Naturals, Sequences, FiniteSets, FiniteSetsExt

None == [virtual |-> FALSE, path |-> << "none" >>]
Here == [virtual |-> FALSE, path |-> << >>]

\* One base record is followed, then the way r from that base.
Through(b, r) ==
    IF r.virtual THEN r ELSE [virtual |-> b.virtual, path |-> << b.base >> \o r.path]

\* Mutant: the offset of a virtual base is taken for one in the object.
Mutantdo_upcast(H, target) ==
    LET up[c \in DOMAIN H] ==
            IF c = target THEN Here
            ELSE LET hits == {i \in DOMAIN H[c] : up[H[c][i].base] # None}
                 IN  IF hits = {} THEN None
                     ELSE LET b == H[c][Min(hits)] IN [up[b.base] EXCEPT !.path = << b.base >> \o @]
    IN  up

\* __do_upcast from each class: a depth-first search for the target, which
\* stops at the first hit. The offset of a virtual base is read from the
\* object's vtable.
do_upcast(H, target) ==
    LET up[c \in DOMAIN H] ==
            IF c = target THEN Here
            ELSE LET hits == {i \in DOMAIN H[c] : up[H[c][i].base] # None}
                 IN  IF hits = {} THEN None
                     ELSE LET b == H[c][Min(hits)] IN Through(b, up[b.base])
    IN  up

\* The pointer obj, to an object whose way to the target is r, adjusted.
Adjust(obj, r) == IF r.virtual THEN r.path ELSE obj \o r.path

NullPtr == << >>

\* cast_to: for every kind of class the same search as __do_upcast.
cast_to(H, class, obj, other) ==
    LET r == do_upcast(H, other)[class] IN IF r = None THEN NullPtr ELSE Adjust(obj, r)

\* __dynamic_cast of a pointer into an object of class `leaf': the search
\* starts at the complete object whatever subobject the pointer is to.
dynamic_cast(H, leaf, dst) == cast_to(H, leaf, << leaf >>, dst)
-----------------------------------------------------------------------------
(***************************************************************************)
(* Types of handlers and thrown objects: `class' with the qualifiers of    *)
(* the pointers to it, the outermost first: [ptrs |-> << {"const"} >>,     *)
(* class |-> "D"] is D const *.                                            *)
(***************************************************************************)
Void == "void"
is_pointer(x) == x.ptrs # << >>

NoMatch == << "no match" >>

\* __do_catch of type_info and of __pbase_type_info: whether the handler type
\* h catches the thrown type x, and the pointer obj adjusted for it. try[i]
\* compares the types below the first i - 1 pointers; a level below a pointer
\* that is not const must be the same type.
do_catch(H, h, x, obj) ==
    LET n == Len(h.ptrs)
        upcast == IF x.class = Void THEN None ELSE do_upcast(H, h.class)[x.class]
        try[i \in 1 .. n + 1] ==
            IF SubSeq(h.ptrs, i, n) = SubSeq(x.ptrs, i, Len(x.ptrs)) /\ h.class = x.class THEN obj
            ELSE IF i = n + 1
            THEN IF Len(x.ptrs) # n \/ upcast = None THEN NoMatch ELSE Adjust(obj, upcast)
            ELSE IF \/ i > Len(x.ptrs)
                    \/ \E j \in 1 .. i - 1 : "const" \notin h.ptrs[j]
                    \/ ~(x.ptrs[i] \subseteq h.ptrs[i])
            THEN NoMatch
            ELSE IF i = n /\ h.class = Void THEN obj
            ELSE try[i + 1]
    IN  try[1]
-----------------------------------------------------------------------------
(***************************************************************************)
(* The same without a search: the set of all subobjects of an object. A    *)
(* base class counts whatever the access to it and however often the       *)
(* object has it. The language wants it public and there once; the code    *)
(* does not look at the flags of __vmi_class_type_info that tell, and the  *)
(* upcast it promises in typeinfo.h is the one described here.             *)
(***************************************************************************)
\* The bases of a class are classes, and no class is a base of itself: there
\* is an order in which every class comes after its bases. The names of
\* classes are not among those this module uses for something else.
IsHierarchy(H) ==
    /\ IsFiniteSet(DOMAIN H)
    /\ H \in [DOMAIN H -> Seq([base : DOMAIN H, virtual : BOOLEAN])]
    /\ \E rank \in [DOMAIN H -> 0 .. Cardinality(DOMAIN H)] :
          \A c \in DOMAIN H : \A i \in DOMAIN H[c] : rank[H[c][i].base] < rank[c]
    /\ "none" \notin DOMAIN H /\ NoMatch[1] \notin DOMAIN H /\ Void \notin DOMAIN H

\* The ways from each class to itself and its bases.
Ways(H) ==
    LET sub[k \in DOMAIN H] ==
            {Here} \cup UNION {{Through(H[k][i], r) : r \in sub[H[k][i].base]} : i \in DOMAIN H[k]}
    IN  sub

\* All subobjects of a complete object of class c.
Subobjects(H, c) == {Adjust(<< c >>, r) : r \in Ways(H)[c]}

SubobjectsOf(H, c, base) == {s \in Subobjects(H, c) : s[Len(s)] = base}

\* A handler of type h is a match for a thrown object of type x, for types
\* with at most one pointer: the same type or a base class, or a pointer that
\* adds qualifiers to a pointer to the same class, to a base class or to void.
\* These are the rules of the language but for bases that are not public or
\* ambiguous, which it refuses and which match here as in the code.
IsMatch(H, h, x) ==
    /\ Len(h.ptrs) = Len(x.ptrs)
    /\ \A i \in DOMAIN h.ptrs : x.ptrs[i] \subseteq h.ptrs[i]
    /\ \/ h.class = x.class
       \/ h.class = Void /\ is_pointer(h)
       \/ h.class # Void /\ SubobjectsOf(H, x.class, h.class) # {}

\* The subobjects the handler may get.
MatchTargets(H, h, x) ==
    IF h.class = Void THEN {<< x.class >>} ELSE SubobjectsOf(H, x.class, h.class)
=============================================================================
