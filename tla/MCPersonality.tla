---------------------------- MODULE MCPersonality ----------------------------
EXTENDS Personality, TLC

\* D has the bases A and B, which may share the base V.
Base(b, v) == [base |-> b, virtual |-> v]
Hierarchy(a, b, d) == ("V" :> << >>) @@ ("A" :> a) @@ ("B" :> b) @@ ("D" :> d)
SmallHierarchies ==
    { Hierarchy(<< Base("V", va) >>, << Base("V", vb) >>, << Base("A", FALSE), Base("B", FALSE) >>) :
          va, vb \in BOOLEAN }
    \cup { Hierarchy(<< Base("V", FALSE) >>, << Base("A", FALSE) >>, << Base("B", FALSE) >>) }

Class(c) == [ptrs |-> << >>, class |-> c]
Pointer(q, c) == [ptrs |-> << q >>, class |-> c]

SmallTypes == {Class("D"), Class("B"), Pointer({}, "D"), Pointer({"const"}, "B")}

\* Filters: a number for each type of a table.
TypeTable == << CatchAll, Class("D"), Class("B"), Class("V"), Pointer({}, "B"),
                Pointer({"const"}, "V"), Pointer({}, Void) >>
SmallHandlerTypes == {TypeTable[n] : n \in DOMAIN TypeTable}
Handler(n) == [filter |-> n, types |-> << TypeTable[n] >>]
Cleanup == [filter |-> 0, types |-> << >>]
Specification(n, types) == [filter |-> -n, types |-> types]

\* A function with two regions, 1 .. 4 and 5 .. 8, the call being in the second.
Frame(pad, chain) ==
    [lsda |-> TRUE, ip |-> 8,
     sites |-> << [start |-> 0, size |-> 4, pad |-> TRUE, chain |-> << Handler(1) >>],
                  [start |-> 4, size |-> 4, pad |-> pad, chain |-> chain],
                  [start |-> 8, size |-> 2, pad |-> TRUE, chain |-> << Handler(1) >>] >>]

PlainShapes ==
    { [lsda |-> FALSE, ip |-> 1, sites |-> << >>],
      [Frame(TRUE, << >>) EXCEPT !.ip = 12],   \* behind the last region
      Frame(FALSE, << >>), Frame(TRUE, << >>) }
HandlerShapes ==
    { Frame(TRUE, << Handler(n) >>) : n \in DOMAIN TypeTable }
    \cup { Frame(TRUE, << Handler(3), Handler(4), Cleanup >>),
           Frame(TRUE, << Cleanup, Handler(5), Handler(6) >>) }
SpecificationShapes ==
    { Frame(TRUE, << Specification(1, << >>) >>),
      Frame(TRUE, << Specification(1, << Class("V"), Pointer({}, Void) >>), Cleanup >>) }
CleanupFirstShapes ==
    { Frame(TRUE, << Cleanup, Specification(1, << Class("B") >>) >>) }

SmallShapes == PlainShapes \cup HandlerShapes \cup SpecificationShapes
AllShapes == SmallShapes \cup CleanupFirstShapes
==============================================================================
