---------------------------- MODULE DwarfEHProofs ----------------------------
(***************************************************************************)
(* The searches of dwarf_eh_find_callsite and check_action_record through  *)
(* the octets, for tables of any length and for any encoding: where the    *)
(* octets of each record read back, which OctetsReadBack says, the loops   *)
(* arrive at the call site and at the chain of the table.                  *)
(***************************************************************************)
EXTENDS DwarfEH, NaturalsInduction, WellFoundedInduction, SequenceTheorems, TLAPS
-----------------------------------------------------------------------------
(***************************************************************************)
(* Chains: a recursive function, well defined because a chain goes on at   *)
(* an earlier record.                                                      *)
(***************************************************************************)
ChainStep(t, i, f) == IF i = 0 THEN << >> ELSE << Link(t, i) >> \o f[t.actions[i].next]
ActionsBelow(t, n) == {i \in 0 .. Len(t.actions) : i < n}
Links(t) == {Link(t, i) : i \in DOMAIN t.actions}

LEMMA TableTypes ==
    ASSUME NEW t, IsTable(t)
    PROVE  /\ Len(t.actions) \in Nat /\ DOMAIN t.actions = 1 .. Len(t.actions)
           /\ Len(t.sites) \in Nat /\ DOMAIN t.sites = 1 .. Len(t.sites)
           /\ \A i \in 1 .. Len(t.actions) : t.actions[i].next \in 0 .. i - 1
           /\ \A i \in 1 .. Len(t.sites) :
                 /\ t.sites[i].start \in Nat /\ t.sites[i].size \in Nat
                 /\ t.sites[i].action \in 0 .. Len(t.actions)
  <1>1. PICK n : n = Len(t.actions)
    OBVIOUS
  <1>2. /\ t.sites \in Seq([start : Nat, size : Nat, pad : Nat, action : 0 .. n])
        /\ t.actions \in Seq([filter : Int, next : 0 .. n])
        /\ \A i \in DOMAIN t.actions : t.actions[i].next < i
    BY <1>1 DEF IsTable
  <1>3. /\ Len(t.actions) \in Nat /\ DOMAIN t.actions = 1 .. Len(t.actions)
        /\ Len(t.sites) \in Nat /\ DOMAIN t.sites = 1 .. Len(t.sites)
    BY <1>2
  <1>4. ASSUME NEW i \in 1 .. Len(t.actions) PROVE t.actions[i].next \in 0 .. i - 1
    <2>1. t.actions[i] \in [filter : Int, next : 0 .. n] /\ t.actions[i].next < i
      BY <1>2, <1>3, <1>4, ElementOfSeq, Zenon
    <2>2. PICK k : k = t.actions[i].next
      OBVIOUS
    <2>3. k \in 0 .. n /\ k < i
      BY <2>1, <2>2
    <2> QED BY <1>1, <1>3, <2>2, <2>3
  <1>5. ASSUME NEW i \in 1 .. Len(t.sites)
        PROVE  /\ t.sites[i].start \in Nat /\ t.sites[i].size \in Nat
               /\ t.sites[i].action \in 0 .. n
    <2>1. t.sites[i] \in [start : Nat, size : Nat, pad : Nat, action : 0 .. n]
      BY <1>2, <1>5, ElementOfSeq, Zenon
    <2> QED BY <2>1
  <1> QED BY <1>1, <1>3, <1>4, <1>5

\* The chains of the actions before n are defined, for every n.
LEMMA ChainsDefinedBelow ==
    ASSUME NEW t, IsTable(t)
    PROVE  \A n \in Nat : \E f : f = [i \in ActionsBelow(t, n) |-> ChainStep(t, i, f)]
  <1> DEFINE Bad == {n \in Nat : ~ \E f : f = [i \in ActionsBelow(t, n) |-> ChainStep(t, i, f)]}
  <1> SUFFICES ASSUME Bad # {} PROVE FALSE
    OBVIOUS
  <1>1. PICK m \in Bad : \A y \in Bad : ~(<<y, m>> \in OpToRel(<, Nat))
    BY NatLessThanWellFounded, WFMin
  <1>2. \A y \in Bad : ~(y < m)
    BY <1>1 DEF OpToRel
  <1>3. m # 0
    <2>1. SUFFICES ASSUME m = 0 PROVE FALSE
      OBVIOUS
    <2>2. ActionsBelow(t, 0) = {}
      BY DEF ActionsBelow
    <2>3. PICK f : f = [i \in {} |-> << >>]
      OBVIOUS
    <2>4. f = [i \in {} |-> ChainStep(t, i, f)]
      BY <2>3, Zenon
    <2> QED BY <2>1, <2>2, <2>4
  <1>4. m - 1 \in Nat /\ m - 1 < m
    BY <1>3
  <1>5. PICK f : f = [i \in ActionsBelow(t, m - 1) |-> ChainStep(t, i, f)]
    BY <1>2, <1>4
  <1>6. PICK g : g = [i \in ActionsBelow(t, m) |-> ChainStep(t, i, f)]
    OBVIOUS
  <1>7. ASSUME NEW i \in ActionsBelow(t, m) PROVE ChainStep(t, i, f) = ChainStep(t, i, g)
    <2>1. CASE i = 0
      BY <2>1 DEF ChainStep
    <2>2. CASE i # 0
      <3>1. i \in 1 .. Len(t.actions) /\ i < m
        BY <1>7, <2>2, TableTypes DEF ActionsBelow
      <3>2. PICK k : k = t.actions[i].next
        OBVIOUS
      <3>3. k \in 0 .. i - 1
        BY <3>1, <3>2, TableTypes
      <3>4. k \in ActionsBelow(t, m - 1) /\ k \in ActionsBelow(t, m)
        BY <3>1, <3>3, TableTypes DEF ActionsBelow
      <3>5. f[k] = ChainStep(t, k, f)
        BY <1>5, <3>4, Zenon
      <3>6. g[k] = ChainStep(t, k, f)
        BY <1>6, <3>4, Zenon
      <3> QED BY <3>2, <3>5, <3>6 DEF ChainStep
    <2> QED BY <2>1, <2>2
  <1>8. g = [i \in ActionsBelow(t, m) |-> ChainStep(t, i, g)]
    BY <1>6, <1>7
  <1> QED BY <1>8

LEMMA ChainsUnfold ==
    ASSUME NEW t, IsTable(t)
    PROVE  \A i \in 0 .. Len(t.actions) : Chains(t)[i] = ChainStep(t, i, Chains(t))
  <1>1. PICK n : n = Len(t.actions) + 1
    OBVIOUS
  <1>2. n \in Nat /\ ActionsBelow(t, n) = 0 .. Len(t.actions)
    BY <1>1, TableTypes DEF ActionsBelow
  <1>3. \E f : f = [i \in 0 .. Len(t.actions) |-> ChainStep(t, i, f)]
    <2>1. \E f : f = [i \in ActionsBelow(t, n) |-> ChainStep(t, i, f)]
      BY <1>2, ChainsDefinedBelow
    <2> QED BY <1>2, <2>1
  <1>4. Chains(t) = CHOOSE c : c = [i \in 0 .. Len(t.actions) |-> ChainStep(t, i, c)]
    BY DEF Chains, ChainStep, SMT
  <1>5. Chains(t) = [i \in 0 .. Len(t.actions) |-> ChainStep(t, i, Chains(t))]
    BY <1>3, <1>4, Zenon
  <1> QED BY <1>5, Zenon

LEMMA ChainsAreSequences ==
    ASSUME NEW t, IsTable(t)
    PROVE  \A i \in 0 .. Len(t.actions) : Chains(t)[i] \in Seq(Links(t))
  <1> DEFINE Bad == {i \in 0 .. Len(t.actions) : Chains(t)[i] \notin Seq(Links(t))}
  <1> SUFFICES ASSUME Bad # {} PROVE FALSE
    OBVIOUS
  <1>0. Bad \subseteq Nat
    BY TableTypes
  <1>1. PICK m \in Bad : \A y \in Bad : ~(<<y, m>> \in OpToRel(<, Nat))
    BY <1>0, NatLessThanWellFounded, WFMin
  <1>2. \A y \in Bad : ~(y < m)
    BY <1>0, <1>1 DEF OpToRel
  <1>3. m \in 0 .. Len(t.actions) /\ Chains(t)[m] = ChainStep(t, m, Chains(t))
    BY ChainsUnfold
  <1>4. CASE m = 0
    <2>1. ChainStep(t, m, Chains(t)) = << >>
      BY <1>4 DEF ChainStep
    <2>2. << >> \in Seq(Links(t))
      OBVIOUS
    <2> QED BY <1>3, <2>1, <2>2
  <1>5. CASE m # 0
    <2>1. m \in 1 .. Len(t.actions) /\ m \in DOMAIN t.actions
      BY <1>3, <1>5, TableTypes
    <2>2. PICK k : k = t.actions[m].next
      OBVIOUS
    <2>3. k \in 0 .. m - 1
      BY <2>1, <2>2, TableTypes
    <2>4. k \in 0 .. Len(t.actions) /\ k < m
      BY <2>1, <2>3, TableTypes
    <2>5. Chains(t)[k] \in Seq(Links(t))
      BY <1>2, <2>4
    <2>6. Link(t, m) \in Links(t)
      BY <2>1 DEF Links
    <2>7. << Link(t, m) >> \o Chains(t)[k] \in Seq(Links(t))
      BY <2>5, <2>6
    <2> QED BY <1>3, <1>5, <2>2, <2>7 DEF ChainStep
  <1> QED BY <1>4, <1>5

-----------------------------------------------------------------------------
(***************************************************************************)
(* The inductive invariant.                                                *)
(***************************************************************************)
CoversIt(t, i) == t.sites[i].start < t.ip /\ t.ip <= t.sites[i].start + t.sites[i].size
Passed(t, i) == t.sites[i].start <= t.ip /\ ~CoversIt(t, i)

\* The search has passed the sites before k, or all of them and the record
\* behind the table.
Searching ==
    /\ found = FALSE /\ landing_pad = 0 /\ chain = << >>
    /\ \/ \E k \in 1 .. Len(table.sites) + 1 :
             data = SiteAddress(table, Parsed(mem, 1), k) /\ \A j \in 1 .. k - 1 : Passed(table, j)
       \/ data \in Nat /\ data > lsda.action_table /\ IsGap(table)

SiteKnown ==
    /\ found = ~IsGap(table)
    /\ landing_pad = IF IsGap(table) \/ CallSite(table).pad = 0 THEN 0
                     ELSE LandingPads(table) + CallSite(table).pad

\* What has been read of the chain and what follows from here.
Following ==
    /\ ~IsGap(table) /\ CallSite(table).action \in 0 .. Len(table.actions)
    /\ chain \in Seq(Links(table))
    /\ \E i \in 1 .. Len(table.actions) :
          /\ action_record = ActionAddress(table, Parsed(mem, 1), i)
          /\ chain \o Chains(table)[i] = Chains(table)[CallSite(table).action]

IInv ==
    /\ IsTable(table) /\ table.ip \in Nat /\ ReadsBack(table, mem)
    /\ pc \in {"header", "sites", "actions", "done"}
    /\ pc = "header" => data = 1 /\ found = FALSE /\ landing_pad = 0 /\ chain = << >>
    /\ pc # "header" => lsda = Parsed(mem, 1)
    /\ pc = "sites" => Searching
    /\ pc = "actions" => SiteKnown /\ Following
    /\ pc = "done" => SiteKnown /\ FindsTheChain

\* The site the sorted table has for the return address.
LEMMA AllPassed ==
    ASSUME NEW t, IsTable(t), t.ip \in Nat, NEW k \in 1 .. Len(t.sites) + 1,
           \A j \in 1 .. k - 1 : Passed(t, j),
           k \in 1 .. Len(t.sites) => t.sites[k].start > t.ip
    PROVE  IsGap(t)
  <1> SUFFICES ASSUME NEW i \in dwarf_eh_find_callsite(t) PROVE FALSE
    BY DEF IsGap
  <1>1. /\ i \in 1 .. Len(t.sites) /\ Len(t.sites) \in Nat
        /\ \A j \in 1 .. i : t.sites[j].start <= t.ip
        /\ CoversIt(t, i)
    BY TableTypes DEF dwarf_eh_find_callsite, CoversIt
  <1>2. CASE i < k
    <2>1. i \in 1 .. k - 1
      BY <1>1, <1>2
    <2> QED BY <1>1, <2>1 DEF Passed
  <1>3. CASE ~(i < k)
    <2>1. k \in 1 .. Len(t.sites) /\ k \in 1 .. i
      BY <1>1, <1>3
    <2>2. t.sites[k].start <= t.ip /\ t.sites[k].start > t.ip /\ t.sites[k].start \in Nat
      BY <1>1, <2>1, TableTypes
    <2> QED BY <2>2
  <1> QED BY <1>2, <1>3

LEMMA FirstCovers ==
    ASSUME NEW t, IsTable(t), t.ip \in Nat, NEW k \in 1 .. Len(t.sites),
           \A j \in 1 .. k - 1 : Passed(t, j), t.sites[k].start <= t.ip, CoversIt(t, k)
    PROVE  ~IsGap(t) /\ CallSite(t) = t.sites[k]
  <1> DEFINE S == dwarf_eh_find_callsite(t)
  <1>0. Len(t.sites) \in Nat
    BY TableTypes
  <1>1. \A j \in 1 .. k : t.sites[j].start <= t.ip
    <2>1. \A j \in 1 .. k : j = k \/ j \in 1 .. k - 1
      BY <1>0
    <2> QED BY <2>1 DEF Passed
  <1>2. k \in S
    BY <1>1, TableTypes DEF dwarf_eh_find_callsite, CoversIt
  <1>3. \A i \in S : i \in Nat /\ k <= i
    <2>1. SUFFICES ASSUME NEW i \in S PROVE i \in Nat /\ k <= i
      OBVIOUS
    <2>2. i \in 1 .. Len(t.sites) /\ CoversIt(t, i)
      BY TableTypes DEF dwarf_eh_find_callsite, CoversIt
    <2>3. i \in 1 .. k - 1 => FALSE
      BY <2>2 DEF Passed
    <2> QED BY <1>0, <2>2, <2>3
  <1> HIDE DEF S
  <1>4. Min(S) = k
    <2>1. \A x \in S : (\A y \in S : x <= y) => x = k
      BY <1>0, <1>2, <1>3
    <2> QED BY <1>2, <1>3, <2>1 DEF Min
  <1> QED BY <1>2, <1>4 DEF S, IsGap, CallSite

\* What the record at a site, and the one behind the table, reads as.
LEMMA RecordIs ==
    ASSUME NEW t, NEW m, IsTable(t), ReadsBack(t, m), NEW k \in 1 .. Len(t.sites),
           NEW r, r = RecordAt(Parsed(m, 1).callsite_encoding, m, SiteAddress(t, Parsed(m, 1), k))
    PROVE  /\ r.start = t.sites[k].start /\ r.size = t.sites[k].size /\ r.pad = t.sites[k].pad
           /\ r.action = IF t.sites[k].action = 0 THEN 0 ELSE 1 + ActionStart(t, t.sites[k].action)
           /\ r.next = SiteAddress(t, Parsed(m, 1), k + 1)
           /\ SiteAddress(t, Parsed(m, 1), k) \in Nat /\ SiteAddress(t, Parsed(m, 1), k) <= Parsed(m, 1).action_table
           /\ Parsed(m, 1).action_table \in Nat
  <1>1. Len(t.sites) \in Nat /\ k \in DOMAIN t.sites
    BY TableTypes
  <1>2. SiteReadsBack(t, Parsed(m, 1), m, k) /\ HeaderReadsBack(t, Parsed(m, 1))
    BY <1>1 DEF ReadsBack, ReadsBackFrom
  <1>3. k \in 1 .. Len(t.sites) + 1 /\ Len(t.sites) + 1 \in 1 .. Len(t.sites) + 1
    BY <1>1
  <1>4. SiteAddress(t, Parsed(m, 1), k) \in Nat /\ Parsed(m, 1).action_table \in Nat
    BY <1>2, <1>3 DEF HeaderReadsBack
  <1> QED BY <1>2, <1>4 DEF SiteReadsBack

LEMMA StartIs ==
    ASSUME NEW x, NEW m, NEW p
    PROVE  RecordAt(x, m, p).start = read_value(x, m, p).v
  BY DEF RecordAt

LEMMA EndIs ==
    ASSUME NEW t, NEW m, IsTable(t), ReadsBack(t, m)
    PROVE  LET l == Parsed(m, 1)
               r == RecordAt(l.callsite_encoding, m, l.action_table)
           IN  /\ SiteAddress(t, Parsed(m, 1), Len(t.sites) + 1) = l.action_table /\ l.action_table \in Nat
               /\ SiteAddress(t, Parsed(m, 1), 1) = l.call_site_table
               /\ l.landing_pads = LandingPads(t)
               /\ r.next \in Nat /\ r.next > l.action_table
               /\ IsGap(t) => ~(r.start < t.ip /\ t.ip <= r.start + r.size)
  <1>1. Len(t.sites) + 1 \in 1 .. Len(t.sites) + 1
    BY TableTypes
  <1> DEFINE l == Parsed(m, 1)
  <1>2. /\ HeaderReadsBack(t, l)
        /\ EndReadsAsGap(t, l, RecordAt(l.callsite_encoding, m, l.action_table))
    BY DEF ReadsBack, ReadsBackFrom
  <1> QED BY <1>1, <1>2 DEF HeaderReadsBack, EndReadsAsGap

\* The compiler's table, with the return address of this frame.
LEMMA InitInv == Init /\ OctetsReadBack => IInv
  <1> SUFFICES ASSUME Init, OctetsReadBack PROVE IInv
    OBVIOUS
  <1>1. PICK t \in Tables, i \in 1 .. MaxIP : table = [t EXCEPT !.ip = i]
    BY DEF Init
  <1>2. /\ IsTable(t) /\ i \in Nat
    BY TablesAssumption
  <1>3. /\ table.sites = t.sites /\ table.actions = t.actions /\ table.types = t.types
        /\ table.specs = t.specs /\ table.lpstart = t.lpstart /\ table.ip = i
        /\ IsTable(table)
    <2>1. PICK n : n = Len(t.actions)
      OBVIOUS
    <2> DEFINE TS == Seq([start : Nat, size : Nat, pad : Nat, action : 0 .. n])
               TA == Seq([filter : Int, next : 0 .. n])
               T == [ip : Nat, lpstart : Nat, sites : TS, actions : TA,
                     types : Seq(Nat), specs : Seq(Seq(Nat))]
    <2>2. t \in T /\ \A j \in DOMAIN t.actions : t.actions[j].next < j
      BY <1>2, <2>1 DEF IsTable
    <2> HIDE DEF TS, TA
    <2>3. table \in T
      BY <1>1, <1>2, <2>2
    <2>4. /\ table.sites = t.sites /\ table.actions = t.actions /\ table.types = t.types
          /\ table.specs = t.specs /\ table.lpstart = t.lpstart /\ table.ip = i
      BY <1>1, <2>2
    <2>5. IsTable(table)
      BY <2>1, <2>2, <2>3, <2>4 DEF IsTable, TS, TA
    <2> QED BY <2>4, <2>5
  <1>4. pc = "header" /\ data = 1 /\ found = FALSE /\ landing_pad = 0 /\ chain = << >>
    BY DEF Init
  <1>5. ReadsBack(table, mem)
    BY <1>4 DEF OctetsReadBack
  <1> QED BY <1>2, <1>3, <1>4, <1>5 DEF IInv

\* parse_lsda.
LEMMA ParseInv == IInv /\ parse_lsda => IInv'
  <1> SUFFICES ASSUME IInv, parse_lsda PROVE IInv'
    OBVIOUS
  <1>1. /\ table' = table /\ mem' = mem /\ found' = FALSE /\ landing_pad' = 0 /\ chain' = << >>
        /\ lsda' = Parsed(mem, 1) /\ pc' = "sites"
        /\ IsTable(table) /\ table.ip \in Nat /\ ReadsBack(table, mem)
        /\ data' = Parsed(mem, 1).call_site_table
    BY DEF IInv, parse_lsda
  <1>2. data' = SiteAddress(table, Parsed(mem, 1), 1) /\ 1 \in 1 .. Len(table.sites) + 1
    BY <1>1, EndIs, TableTypes
  <1>3. \A j \in 1 .. 1 - 1 : Passed(table, j)
    OBVIOUS
  <1>4. Searching'
    BY <1>1, <1>2, <1>3 DEF Searching
  <1> QED BY <1>1, <1>4 DEF IInv

\* Where a search is.
LEMMA SearchAt ==
    ASSUME IInv, pc = "sites"
    PROVE  /\ IsTable(table) /\ table.ip \in Nat /\ ReadsBack(table, mem) /\ lsda = Parsed(mem, 1)
           /\ found = FALSE /\ landing_pad = 0 /\ chain = << >> /\ lsda.action_table \in Nat
           /\ \/ \E k \in 1 .. Len(table.sites) :
                    /\ data = SiteAddress(table, Parsed(mem, 1), k) /\ data \in Nat /\ data <= lsda.action_table
                    /\ \A j \in 1 .. k - 1 : Passed(table, j)
              \/ /\ data = lsda.action_table /\ data \in Nat /\ IsGap(table)
                 /\ Record.next \in Nat /\ Record.next > lsda.action_table /\ ~Covers(Record)
              \/ data \in Nat /\ data > lsda.action_table /\ IsGap(table)
  <1>1. /\ IsTable(table) /\ table.ip \in Nat /\ ReadsBack(table, mem) /\ lsda = Parsed(mem, 1)
        /\ Searching
    BY DEF IInv
  <1>2. Len(table.sites) \in Nat /\ lsda.action_table \in Nat
    BY <1>1, TableTypes, EndIs
  <1>3. ASSUME NEW k \in 1 .. Len(table.sites) + 1, data = SiteAddress(table, Parsed(mem, 1), k),
               \A j \in 1 .. k - 1 : Passed(table, j)
        PROVE  \/ k \in 1 .. Len(table.sites) /\ data \in Nat /\ data <= lsda.action_table
               \/ /\ data = lsda.action_table /\ IsGap(table)
                  /\ Record.next \in Nat /\ Record.next > lsda.action_table /\ ~Covers(Record)
    <2>1. CASE k \in 1 .. Len(table.sites)
      BY <1>1, <1>3, <2>1, RecordIs
    <2>2. CASE k = Len(table.sites) + 1
      <3>1. IsGap(table)
        <4>1. k \notin 1 .. Len(table.sites)
          BY <1>2, <2>2
        <4> QED BY <1>1, <1>3, <4>1, AllPassed
      <3>2. data = lsda.action_table
        BY <1>1, <1>3, <2>2, EndIs
      <3> QED BY <1>1, <3>1, <3>2, EndIs DEF Record, Covers
    <2> QED BY <1>2, <2>1, <2>2
  <1> QED BY <1>1, <1>2, <1>3 DEF Searching

\* The search ends without a call site.
LEMMA NoCallSiteInv == IInv /\ NoCallSite => IInv'
  <1> SUFFICES ASSUME IInv, NoCallSite PROVE IInv'
    OBVIOUS
  <1>1. /\ table' = table /\ mem' = mem /\ data' = data /\ lsda' = lsda /\ found' = found
        /\ landing_pad' = landing_pad /\ chain' = chain /\ pc' = "done" /\ pc = "sites"
        /\ data > lsda.action_table
           \/ read_value(lsda.callsite_encoding, mem, data).v > table.ip
    BY DEF NoCallSite
  <1>2. IsGap(table)
    <2>1. ASSUME NEW k \in 1 .. Len(table.sites), data = SiteAddress(table, Parsed(mem, 1), k),
                 data <= lsda.action_table, data \in Nat, \A j \in 1 .. k - 1 : Passed(table, j)
          PROVE  IsGap(table)
      <3>1. read_value(lsda.callsite_encoding, mem, data).v > table.ip
        BY <1>1, <2>1, SearchAt
      <3>2. table.sites[k].start > table.ip
        BY <1>1, <2>1, <3>1, SearchAt, RecordIs, StartIs
      <3>3. k \in 1 .. Len(table.sites) + 1
        BY <1>1, SearchAt, TableTypes
      <3> QED BY <1>1, <2>1, <3>2, <3>3, SearchAt, AllPassed
    <2> QED BY <1>1, <2>1, SearchAt
  <1>3. SiteKnown' /\ FindsTheChain'
    BY <1>1, <1>2, SearchAt DEF SiteKnown, FindsTheChain
  <1> QED BY <1>1, <1>3, SearchAt DEF IInv

\* A record is passed.
LEMMA SkipRecordInv == IInv /\ SkipRecord => IInv'
  <1> SUFFICES ASSUME IInv, SkipRecord PROVE IInv'
    OBVIOUS
  <1>1. /\ table' = table /\ mem' = mem /\ lsda' = lsda /\ found' = found
        /\ landing_pad' = landing_pad /\ chain' = chain /\ pc' = pc /\ pc = "sites"
        /\ data <= lsda.action_table /\ Record.start <= table.ip /\ ~Covers(Record)
        /\ data' = Record.next
    BY DEF SkipRecord
  <1>2. \/ \E k \in 1 .. Len(table.sites) + 1 :
              data' = SiteAddress(table, Parsed(mem, 1), k) /\ \A j \in 1 .. k - 1 : Passed(table, j)
        \/ data' \in Nat /\ data' > lsda.action_table /\ IsGap(table)
    <2>1. ASSUME NEW k \in 1 .. Len(table.sites), data = SiteAddress(table, Parsed(mem, 1), k),
                 \A j \in 1 .. k - 1 : Passed(table, j)
          PROVE  \E i \in 1 .. Len(table.sites) + 1 :
                    data' = SiteAddress(table, Parsed(mem, 1), i) /\ \A j \in 1 .. i - 1 : Passed(table, j)
      <3>1. PICK r : r = Record
        OBVIOUS
      <3>2. /\ r.start = table.sites[k].start /\ r.size = table.sites[k].size
            /\ r.next = SiteAddress(table, Parsed(mem, 1), k + 1)
        BY <1>1, <2>1, <3>1, SearchAt, RecordIs DEF Record
      <3>3. Passed(table, k)
        BY <1>1, <3>1, <3>2 DEF Passed, CoversIt, Covers
      <3>4. k + 1 \in 1 .. Len(table.sites) + 1 /\ \A j \in 1 .. (k + 1) - 1 : j = k \/ j \in 1 .. k - 1
        BY <1>1, SearchAt, TableTypes
      <3> QED BY <1>1, <2>1, <3>1, <3>2, <3>3, <3>4
    <2> QED BY <1>1, <2>1, SearchAt
  <1>3. Searching'
    BY <1>1, <1>2, SearchAt DEF Searching
  <1> QED BY <1>1, <1>3, SearchAt DEF IInv

\* The call site is found.
LEMMA FindCallSiteInv == IInv /\ FindCallSite => IInv'
  <1> SUFFICES ASSUME IInv, FindCallSite PROVE IInv'
    OBVIOUS
  <1>r. PICK r : r = Record
    OBVIOUS
  <1>1. /\ table' = table /\ mem' = mem /\ data' = data /\ lsda' = lsda /\ chain' = chain
        /\ pc = "sites" /\ data <= lsda.action_table /\ r.start <= table.ip /\ Covers(r)
        /\ found' = TRUE
        /\ action_record' = (IF r.action = 0 THEN 0 ELSE lsda.action_table + r.action - 1)
        /\ landing_pad' = (IF r.pad = 0 THEN 0 ELSE lsda.landing_pads + r.pad)
        /\ pc' = IF r.action = 0 THEN "done" ELSE "actions"
    BY <1>r DEF FindCallSite
  <1>2. PICK k \in 1 .. Len(table.sites) :
              data = SiteAddress(table, Parsed(mem, 1), k) /\ \A j \in 1 .. k - 1 : Passed(table, j)
    BY <1>1, <1>r, SearchAt
  <1> DEFINE s == table.sites[k]
  <1>3. /\ r.start = s.start /\ r.size = s.size /\ r.pad = s.pad
        /\ r.action = IF s.action = 0 THEN 0 ELSE 1 + ActionStart(table, s.action)
    BY <1>1, <1>2, <1>r, SearchAt, RecordIs DEF Record
  <1>4. ~IsGap(table) /\ CallSite(table) = s
    <2>1. CoversIt(table, k) /\ s.start <= table.ip
      BY <1>1, <1>3 DEF Covers, CoversIt
    <2> QED BY <1>1, <1>2, <2>1, SearchAt, FirstCovers
  <1>5. s.action \in 0 .. Len(table.actions)
    BY <1>1, SearchAt, TableTypes
  <1>6. SiteKnown'
    <2>1. lsda.landing_pads = LandingPads(table)
      BY <1>1, SearchAt, EndIs
    <2> QED BY <1>1, <1>3, <1>4, <2>1 DEF SiteKnown
  <1>7. CASE s.action = 0
    <2>1. pc' = "done" /\ chain' = << >>
      BY <1>1, <1>3, <1>7, SearchAt
    <2>2. Chains(table)[0] = << >>
      <3>1. 0 \in 0 .. Len(table.actions)
        BY <1>5, <1>7
      <3> QED BY <1>1, <3>1, SearchAt, ChainsUnfold DEF ChainStep
    <2>3. FindsTheChain'
      BY <1>1, <1>4, <1>7, <2>1, <2>2 DEF FindsTheChain
    <2> QED BY <1>1, <1>6, <2>1, <2>3, SearchAt DEF IInv
  <1>8. CASE s.action # 0
    <2>1. PICK a : a = s.action
      OBVIOUS
    <2>2. a \in 1 .. Len(table.actions) /\ a \in DOMAIN table.actions /\ a \in 0 .. Len(table.actions)
      BY <1>1, <1>5, <1>8, <2>1, SearchAt, TableTypes
    <2>3. ActionStart(table, a) \in Nat
      BY <1>1, <2>2, SearchAt DEF ReadsBack, ReadsBackFrom, ActionReadsBack
    <2>4. r.action = 1 + ActionStart(table, a) /\ r.action # 0
      BY <1>3, <1>8, <2>1, <2>3
    <2>5. action_record' = ActionAddress(table, Parsed(mem, 1), a)
      <3>1. lsda.action_table \in Nat /\ lsda = Parsed(mem, 1)
        BY <1>1, SearchAt
      <3>2. lsda.action_table + (1 + ActionStart(table, a)) - 1 = lsda.action_table + ActionStart(table, a)
        BY <2>3, <3>1
      <3> QED BY <1>1, <2>4, <3>1, <3>2 DEF ActionAddress
    <2>6. pc' = "actions" /\ chain' = << >>
      BY <1>1, <2>4, SearchAt
    <2>7. Chains(table)[a] \in Seq(Links(table))
      BY <1>1, <2>2, SearchAt, ChainsAreSequences
    <2>8. << >> \o Chains(table)[a] = Chains(table)[a] /\ << >> \in Seq(Links(table))
      BY <2>7
    <2>9. Following'
      BY <1>1, <1>4, <1>5, <2>1, <2>2, <2>5, <2>6, <2>8 DEF Following
    <2> QED BY <1>1, <1>6, <2>6, <2>9, SearchAt DEF IInv
  <1> QED BY <1>7, <1>8

LEMMA AppendThenConcat ==
    ASSUME NEW S, NEW p \in Seq(S), NEW q \in Seq(S), NEW x \in S
    PROVE  /\ Append(p, x) \in Seq(S) /\ Append(p, x) = p \o << x >>
           /\ (p \o << x >>) \o q = p \o (<< x >> \o q)
  <1>1. << x >> \in Seq(S)
    OBVIOUS
  <1>2. Append(p, x) \in Seq(S) /\ Append(p, x) = p \o << x >>
    BY AppendIsConcat
  <1> QED BY <1>1, <1>2, ConcatAssociative

\* An action record is read.
LEMMA ReadActionInv == IInv /\ ReadAction => IInv'
  <1> SUFFICES ASSUME IInv, ReadAction PROVE IInv'
    OBVIOUS
  <1>r. PICK r : r = ActionAt(mem, action_record)
    OBVIOUS
  <1>1. /\ table' = table /\ mem' = mem /\ data' = data /\ lsda' = lsda
        /\ found' = found /\ landing_pad' = landing_pad
        /\ pc = "actions" /\ action_record' = r.next
        /\ pc' = (IF r.next = 0 THEN "done" ELSE pc)
        /\ chain' = Append(chain, [filter |-> r.filter, types |-> FilterTypes(lsda, mem, r.filter)])
    BY <1>r DEF ReadAction
  <1>2. /\ IsTable(table) /\ table.ip \in Nat /\ ReadsBack(table, mem) /\ lsda = Parsed(mem, 1)
        /\ SiteKnown /\ Following
    BY <1>1 DEF IInv
  <1>c. PICK c : c = Chains(table)
    OBVIOUS
  <1>a. PICK a : a = CallSite(table).action
    OBVIOUS
  <1>3. PICK i \in 1 .. Len(table.actions) :
              action_record = ActionAddress(table, Parsed(mem, 1), i) /\ chain \o c[i] = c[a]
    BY <1>2, <1>a, <1>c DEF Following
  <1>4. i \in DOMAIN table.actions /\ i \in 0 .. Len(table.actions) /\ i # 0
    BY <1>2, TableTypes
  <1>n. PICK n : n = table.actions[i].next
    OBVIOUS
  <1>5. n \in 0 .. Len(table.actions) /\ (n # 0 => n \in 1 .. Len(table.actions) /\ n \in DOMAIN table.actions)
    BY <1>2, <1>4, <1>n, TableTypes
  <1>6. /\ r.filter = Filter(table, i)
        /\ r.next = (IF n = 0 THEN 0 ELSE ActionAddress(table, Parsed(mem, 1), n))
        /\ FilterTypes(lsda, mem, r.filter) = TypesOf(table, table.actions[i].filter)
    BY <1>2, <1>3, <1>4, <1>n, <1>r DEF ReadsBack, ReadsBackFrom, ActionReadsBack
  <1>7. n # 0 => ActionAddress(table, Parsed(mem, 1), n) # 0
    BY <1>2, <1>5 DEF ReadsBack, ReadsBackFrom, ActionReadsBack
  <1>8. chain' = Append(chain, Link(table, i))
    BY <1>1, <1>6 DEF Link
  <1>9. c[i] = << Link(table, i) >> \o c[n]
    BY <1>2, <1>4, <1>c, <1>n, ChainsUnfold DEF ChainStep
  <1>10. chain \in Seq(Links(table)) /\ c[n] \in Seq(Links(table)) /\ Link(table, i) \in Links(table)
    BY <1>2, <1>4, <1>5, <1>c, ChainsAreSequences DEF Following, Links
  <1>11. chain' \in Seq(Links(table)) /\ chain' \o c[n] = c[a]
    <2>1. PICK l : l = Link(table, i)
      OBVIOUS
    <2>3. /\ Append(chain, l) \in Seq(Links(table))
          /\ Append(chain, l) \o c[n] = chain \o (<< l >> \o c[n])
      <3>1. PICK S, q : S = Links(table) /\ q = c[n]
        OBVIOUS
      <3>2. chain \in Seq(S) /\ q \in Seq(S) /\ l \in S
        BY <1>10, <2>1, <3>1
      <3>3. /\ Append(chain, l) \in Seq(S) /\ Append(chain, l) = chain \o << l >>
            /\ (chain \o << l >>) \o q = chain \o (<< l >> \o q)
        BY <3>2, AppendThenConcat
      <3> QED BY <3>1, <3>3
    <2> QED BY <1>3, <1>8, <1>9, <2>1, <2>3
  <1>12. SiteKnown'
    BY <1>1, <1>2 DEF SiteKnown
  <1>13. ~IsGap(table) /\ a \in 0 .. Len(table.actions)
    BY <1>2, <1>a DEF Following
  <1>14. CASE n = 0
    <2>1. pc' = "done"
      BY <1>1, <1>6, <1>14
    <2>2. c[n] = << >>
      BY <1>2, <1>5, <1>14, <1>c, ChainsUnfold DEF ChainStep
    <2>3. chain' = c[a]
      <3>1. chain' \o << >> = chain'
        BY <1>11
      <3> QED BY <1>11, <2>2, <3>1
    <2>4. FindsTheChain'
      BY <1>1, <1>13, <1>a, <1>c, <2>3 DEF FindsTheChain
    <2> QED BY <1>1, <1>2, <1>12, <2>1, <2>4 DEF IInv
  <1>15. CASE n # 0
    <2>1. pc' = "actions" /\ action_record' = ActionAddress(table, Parsed(mem, 1), n) /\ n \in 1 .. Len(table.actions)
      BY <1>1, <1>5, <1>6, <1>7, <1>15
    <2>2. Following'
      BY <1>1, <1>11, <1>13, <1>a, <1>c, <2>1 DEF Following
    <2> QED BY <1>1, <1>2, <1>12, <2>1, <2>2 DEF IInv
  <1> QED BY <1>14, <1>15

LEMMA StutterInv == IInv /\ UNCHANGED vars => IInv'
  BY DEF IInv, vars, Searching, SiteKnown, Following, FindsTheChain

LEMMA NextInv == IInv /\ [Next]_vars => IInv'
  BY ParseInv, NoCallSiteInv, SkipRecordInv, FindCallSiteInv, ReadActionInv, StutterInv DEF Next

LEMMA InvariantHolds == Spec /\ []OctetsReadBack => []IInv
  <1>1. Init /\ OctetsReadBack => IInv
    BY InitInv
  <1>2. IInv /\ [Next]_vars => IInv'
    BY NextInv
  <1> QED BY <1>1, <1>2, PTL DEF Spec

\* Where every record reads back, dwarf_eh_find_callsite arrives at the region
\* of the return address and at its landing pad, or at none for an address in a
\* gap, in a table of any length: the search stops neither before the region nor
\* at another one, and what it reads behind the table is not taken for one.
THEOREM CallSiteFound == Spec /\ []OctetsReadBack => []FindsTheCallSite
  <1>1. IInv => FindsTheCallSite
    BY DEF IInv, SiteKnown, FindsTheCallSite
  <1> QED BY <1>1, InvariantHolds, PTL

\* Where every record reads back, the loop of check_action_record reads the
\* chain of the call site, all of it and in order, however long it is and
\* wherever it joins another one.
THEOREM ChainFound == Spec /\ []OctetsReadBack => []FindsTheChain
  <1>1. IInv => FindsTheChain
    BY DEF IInv, FindsTheChain
  <1> QED BY <1>1, InvariantHolds, PTL
=============================================================================
