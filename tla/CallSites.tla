------------------------------ MODULE CallSites ------------------------------
(***************************************************************************)
(* The call-site table of a function as a sequence of records with start   *)
(* and size, sorted by start, and the region a return address belongs to.  *)
(* DwarfEH reads it from the octets of the LSDA.                           *)
(***************************************************************************)
EXTENDS Naturals, Sequences, FiniteSets, FiniteSetsExt

\* Mutant: the return address is taken for the address of the call.
Mutantdwarf_eh_find_callsite(f) ==
    {i \in DOMAIN f.sites :
        /\ \A j \in 1 .. i : f.sites[j].start <= f.ip
        /\ f.sites[i].start <= f.ip /\ f.ip < f.sites[i].start + f.sites[i].size}

\* The call-site records that cover the return address, which is the address
\* after the call; the search stops at a record that starts behind it.
dwarf_eh_find_callsite(f) ==
    {i \in DOMAIN f.sites :
        /\ \A j \in 1 .. i : f.sites[j].start <= f.ip
        /\ f.sites[i].start < f.ip /\ f.ip <= f.sites[i].start + f.sites[i].size}

IsGap(f) == dwarf_eh_find_callsite(f) = {}
CallSite(f) == f.sites[Min(dwarf_eh_find_callsite(f))]
==============================================================================
