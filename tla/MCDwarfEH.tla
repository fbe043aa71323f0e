------------------------------ MODULE MCDwarfEH ------------------------------
EXTENDS DwarfEH

\* Addresses of type_info objects.
A == 1000
B == 1002
C == 1010

Site(start, size, pad, action) == [start |-> start, size |-> size, pad |-> pad, action |-> action]
Action(filter, next) == [filter |-> filter, next |-> next]
Table(sites, actions, types, specs, lpstart) ==
    [ip |-> 1, sites |-> sites, actions |-> actions, types |-> types, specs |-> specs,
     lpstart |-> lpstart]

\* Handlers, cleanups and specifications that share the ends of their chains.
Shared == << Action(1, 0), Action(2, 1), Action(0, 2), Action(-1, 0), Action(3, 4), Action(-2, 3) >>
SmallTables ==
    { Table(<< Site(0, 4, 9, 3), Site(4, 5, 0, 0), Site(12, 10, 70, 5), Site(22, 3, 8, 6) >>,
            Shared, << A, 0, B >>, << << 3 >>, << 1, 3 >> >>, lp) : lp \in {0, 600} }
    \cup { \* cleanups only: neither actions nor types
           Table(<< Site(3, 3, 1, 0), Site(9, 9, 30, 0) >>, << >>, << >>, << >>, 0),
           Table(<< >>, << >>, << >>, << >>, 0),
           Table(<< Site(1, 2, 3, 4), Site(3, 26, 100, 2) >>,
                 Shared, << C, B, 0 >>, << << >>, << 2, 1 >> >>, 0) }

SmallSiteEncodings == {uleb128, 3, 11}
SmallTypeEncodings == {0, 3, pcrel + 11, indirect + pcrel + 11}
==============================================================================
