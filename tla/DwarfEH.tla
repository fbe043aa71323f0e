------------------------------- MODULE DwarfEH -------------------------------
(***************************************************************************)
(* The exception tables as octets in memory (dwarf_eh.h), and how          *)
(* parse_lsda, dwarf_eh_find_callsite, check_action_record and             *)
(* get_type_info_entry read them. Matching types is left to Personality:   *)
(* here the whole action chain is read.                                    *)
(*                                                                         *)
(* Widths are scaled: a LEB128 digit has DigitBits bits (7 in the code),   *)
(* an octet one more, an int has IntBits (32), uint64_t and pointers have  *)
(* WordBits (64). An encoding has 8 bits, as in the code.                  *)
(***************************************************************************)
EXTENDS CallSites, Integers, SequencesExt

CONSTANTS DigitBits, IntBits, WordBits,
          Tables,       \* exception tables: see Layout
          SiteEncodings, TypeEncodings,
          MaxIP         \* bound on return addresses

ASSUME WidthAssumption ==
    /\ {DigitBits, IntBits, WordBits} \subseteq Nat \ {0}
    /\ DigitBits < IntBits /\ IntBits < WordBits
    /\ WordBits % (DigitBits + 1) = 0

Digit == 2^DigitBits
Octet == 2 * Digit
Word == 2^WordBits
WordOctets == WordBits \div (DigitBits + 1)

\* n, a number of `bits' bits, as a signed number.
Signed(n, bits) == IF n >= 2^(bits - 1) THEN n - 2^bits ELSE n

VARIABLES table,   \* what the compiler put into mem, and the return address
          mem,     \* the octets of the LSDA and what follows it
          pc,      \* header, sites, actions, done
          data,    \* the pointer into the call-site table
          lsda,    \* what parse_lsda returns
          found,   \* whether the call site was found
          landing_pad, action_record,
          chain    \* the action records read

vars == <<table, mem, pc, data, lsda, found, landing_pad, action_record, chain>>
-----------------------------------------------------------------------------
(***************************************************************************)
(* Encodings: the low four bits say how a value is stored, the others what *)
(* it is relative to.                                                      *)
(***************************************************************************)
Fixed2 == {2, 10}            \* udata2, sdata2
Fixed4 == {3, 11}            \* udata4, sdata4
Fixed8 == {0, 4, 12}         \* absptr, udata8, sdata8
SignedFixed == {0, 10, 11, 12}
uleb128 == 1
sleb128 == 9
pcrel == 16
indirect == 128
omit == 255

get_encoding(x) == x % 16
get_base(x) == ((x \div 16) % 8) * 16
is_indirect(x) == x >= indirect

dwarf_size_of_fixed_size_field(x) ==
    CASE get_encoding(x) \in Fixed2 -> 2
      [] get_encoding(x) \in Fixed4 -> 4
      [] get_encoding(x) \in Fixed8 -> WordOctets

(***************************************************************************)
(* Reading m at address p gives a value and the address behind it.         *)
(***************************************************************************)
\* digit << bit is a shift of an int. A digit that lies beyond the int is
\* undefined unless it is 0: no table has one.
Shifted(digit, bit) == Signed((digit * 2^bit) % 2^IntBits, IntBits)

read_leb128(m, p) ==
    LET n == Min({k \in 1 .. Len(m) - p + 1 : m[p + k - 1] % Octet < Digit})
    IN  [v |-> MapThenSumSet(LAMBDA i : Shifted(m[p + i] % Digit, i * DigitBits), 0 .. n - 1) % Word,
         bits |-> n * DigitBits, next |-> p + n]

read_uleb128(m, p) == read_leb128(m, p)

\* Mutant: no sign extension.
Mutantread_sleb128(m, p) ==
    LET r == read_leb128(m, p) IN [v |-> Signed(r.v, WordBits), next |-> r.next]

read_sleb128(m, p) ==
    LET r == read_leb128(m, p)
    IN  [v |-> IF r.v \div 2^(r.bits - 1) = 1 THEN r.v - 2^r.bits ELSE Signed(r.v, WordBits),
         next |-> r.next]

\* A value as a uint64_t.
read_value(x, m, p) ==
    IF get_encoding(x) = uleb128 THEN read_uleb128(m, p)
    ELSE IF get_encoding(x) = sleb128
    THEN [v |-> read_sleb128(m, p).v % Word, next |-> read_sleb128(m, p).next]
    ELSE LET n == dwarf_size_of_fixed_size_field(x)
             t == MapThenSumSet(LAMBDA i : (m[p + i] % Octet) * Octet^i, 0 .. n - 1)
         IN  [v |-> (IF get_encoding(x) \in SignedFixed THEN Signed(t, n * (DigitBits + 1)) ELSE t) % Word,
              next |-> p + n]

\* A type_info lies at an even address; a pointer to it that an indirect value
\* refers to lies behind it.
Load(a) == a - 1

resolve_indirect_value(x, v, start) ==
    LET a == IF get_base(x) = pcrel THEN (v + start) % Word ELSE v
    IN  IF is_indirect(x) THEN Load(a) ELSE a

\* out is left alone when the value is omitted.
read_value_with_encoding(m, p, out) ==
    IF m[p] = omit THEN [v |-> out, next |-> p + 1]
    ELSE LET r == read_value(m[p], m, p + 1)
         IN  [v |-> resolve_indirect_value(m[p], r.v, p), next |-> r.next]

(***************************************************************************)
(* The type a filter refers to, 0 for catch (...), and the types an        *)
(* exception specification lists, up to the first 0.                       *)
(***************************************************************************)
get_type_info_entry(l, m, filter) ==
    LET x == l.type_table_encoding
        record == l.type_table - dwarf_size_of_fixed_size_field(x) * filter
        offset == read_value(x, m, record).v
    IN  IF offset = 0 THEN 0 ELSE resolve_indirect_value(x, offset, record)

SpecificationTypes(l, m, filter) ==
    LET type_index == l.type_table - filter - 1
        n == Min({k \in 0 .. Len(m) - type_index : m[type_index + k] = 0})
    IN  [i \in 1 .. n |-> get_type_info_entry(l, m, m[type_index + i - 1])]

FilterTypes(l, m, filter) ==
    CASE filter > 0 -> << get_type_info_entry(l, m, filter) >>
      [] filter < 0 -> SpecificationTypes(l, m, filter)
      [] filter = 0 -> << >>
-----------------------------------------------------------------------------
(***************************************************************************)
(* What compilers emit. A table has                                        *)
(*   sites     records with start, size, pad (0: none), action (0: none)   *)
(*   actions   records with filter and next: the record after it in the    *)
(*             chain, an earlier one of the sequence, or 0                 *)
(*   types     the addresses filters 1, 2, ... stand for, 0 for catch (...) *)
(*   specs     what filters -1, -2, ... stand for: sequences of filters    *)
(*   lpstart   where landing pads are counted from, 0: the function        *)
(***************************************************************************)
IsTable(t) ==
    /\ t \in [ip : Nat, lpstart : Nat,
              sites : Seq([start : Nat, size : Nat, pad : Nat, action : 0 .. Len(t.actions)]),
              actions : Seq([filter : Int, next : 0 .. Len(t.actions)]),
              types : Seq(Nat), specs : Seq(Seq(Nat))]
    /\ \A i \in DOMAIN t.actions : t.actions[i].next < i

ASSUME TablesAssumption == MaxIP \in Nat /\ \A t \in Tables : IsTable(t)

RegionStart == 2^(IntBits - 2)

\* The address landing pads are counted from.
LandingPads(t) == IF t.lpstart = 0 THEN RegionStart ELSE t.lpstart

Digits(v, n) == [i \in 1 .. n |-> ((v \div Digit^(i - 1)) % Digit) + IF i < n THEN Digit ELSE 0]
Uleb(v) == Digits(v, Min({n \in 1 .. WordBits \div DigitBits : v < Digit^n}))
Sleb(v) == Digits(v, Min({n \in 1 .. WordBits \div DigitBits :
                             LET half == Digit^n \div 2 IN -half <= v /\ v < half}))
FixedSize(v, n) == [i \in 1 .. n |-> (v \div Octet^(i - 1)) % Octet]
Value(x, v) ==
    CASE get_encoding(x) = uleb128 -> Uleb(v)
      [] get_encoding(x) = sleb128 -> Sleb(v)
      [] OTHER -> FixedSize(v, dwarf_size_of_fixed_size_field(x))

\* The filter of action i: a specification's is the offset of its list.
Filter(t, i) ==
    LET k == -t.actions[i].filter
    IN  IF k <= 0 THEN -k ELSE -1 - MapThenSumSet(LAMBDA j : Len(t.specs[j]) + 1, 1 .. k - 1)

\* A displacement takes two octets and counts from its own place.
ActionStart(t, i) == MapThenSumSet(LAMBDA j : Len(Sleb(Filter(t, j))) + 2, 1 .. i - 1)
ActionOctets(t, i) ==
    LET filter == Sleb(Filter(t, i))
        next == t.actions[i].next
    IN  filter \o Digits(IF next = 0 THEN 0
                         ELSE ActionStart(t, next) - (ActionStart(t, i) + Len(filter)), 2)

SiteOctets(t, x, i) ==
    LET s == t.sites[i]
    IN  Value(x, s.start) \o Value(x, s.size) \o Value(x, s.pad)
        \o Uleb(IF s.action = 0 THEN 0 ELSE 1 + ActionStart(t, s.action))

\* Where site i lies in the call-site table.
SiteStart(t, x, i) == MapThenSumSet(LAMBDA j : Len(SiteOctets(t, x, j)), 1 .. i - 1)

\* Entry i of the type table as it lies at address p.
TypeOctets(t, x, i, p) ==
    LET slot == IF is_indirect(x) THEN t.types[i] + 1 ELSE t.types[i]
    IN  FixedSize(IF t.types[i] = 0 THEN 0 ELSE IF get_base(x) = pcrel THEN slot - p ELSE slot,
                  dwarf_size_of_fixed_size_field(x))

Concat(n, Part(_)) == FlattenSeq([i \in 1 .. n |-> Part(i)])

Layout(t, sx, tx) ==
    LET n == Len(t.types)
        sites == Concat(Len(t.sites), LAMBDA i : SiteOctets(t, sx, i))
        body == << sx >> \o Uleb(Len(sites)) \o sites \o Concat(Len(t.actions), LAMBDA i : ActionOctets(t, i))
        lp == IF t.lpstart = 0 THEN << omit >> ELSE << 3 >> \o FixedSize(t.lpstart, 4)
    IN  IF n = 0 THEN lp \o << omit >> \o body
        ELSE LET size == dwarf_size_of_fixed_size_field(tx)
                 header == lp \o << tx >> \o Uleb(Len(body) + n * size)
                 base == Len(header) + Len(body) + n * size + 1
             IN  header \o body
                 \o Concat(n, LAMBDA i : TypeOctets(t, tx, n + 1 - i, base - size * (n + 1 - i)))
                 \o Concat(Len(t.specs), LAMBDA k : t.specs[k] \o << 0 >>)

\* The LSDAs of the next two functions: one call site, no actions, no types.
Behind == LET next == << omit, omit, uleb128, 4, 0, 4, 0, 0 >> IN next \o next

Init ==
    /\ \E t \in Tables, i \in 1 .. MaxIP, sx \in SiteEncodings, tx \in TypeEncodings :
          /\ table = [t EXCEPT !.ip = i]
          /\ mem = Layout(t, sx, tx) \o Behind
    /\ pc = "header" /\ data = 1
    /\ lsda = [landing_pads |-> 0, type_table |-> 0, type_table_encoding |-> omit,
               call_site_table |-> 0, action_table |-> 0, callsite_encoding |-> omit]
    /\ found = FALSE /\ landing_pad = 0 /\ action_record = 0 /\ chain = << >>
-----------------------------------------------------------------------------
\* The LSDA at address p of m.
Parsed(m, p) ==
    LET lp == read_value_with_encoding(m, p, RegionStart)
        x == m[lp.next]
        tt == read_uleb128(m, lp.next + 1)
        d == IF x = omit THEN lp.next + 1 ELSE tt.next
        size == read_uleb128(m, d + 1)
    IN  [landing_pads |-> lp.v,
         type_table |-> IF x = omit THEN 0 ELSE tt.next + tt.v,
         type_table_encoding |-> x, callsite_encoding |-> m[d],
         call_site_table |-> size.next, action_table |-> size.next + size.v]

parse_lsda ==
    /\ pc = "header"
    /\ lsda' = Parsed(mem, data) /\ data' = lsda'.call_site_table
    /\ pc' = "sites"
    /\ UNCHANGED <<table, mem, found, landing_pad, action_record, chain>>

\* The call-site record at address p of m.
RecordAt(x, m, p) ==
    LET start == read_value(x, m, p)
        size == read_value(x, m, start.next)
        pad == read_value(x, m, size.next)
        action == read_uleb128(m, pad.next)
    IN  [start |-> start.v, size |-> size.v, pad |-> pad.v, action |-> action.v, next |-> action.next]

Record == RecordAt(lsda.callsite_encoding, mem, data)

\* Mutant: the return address is taken for the address of the call.
MutantCovers(r) == r.start <= table.ip /\ table.ip < r.start + r.size

Covers(r) == r.start < table.ip /\ table.ip <= r.start + r.size

\* The return address lies before this record, or no record is left.
NoCallSite ==
    /\ pc = "sites"
    /\ data > lsda.action_table
       \/ read_value(lsda.callsite_encoding, mem, data).v > table.ip
    /\ pc' = "done"
    /\ UNCHANGED <<table, mem, data, lsda, found, landing_pad, action_record, chain>>

SkipRecord ==
    /\ pc = "sites" /\ data <= lsda.action_table
    /\ Record.start <= table.ip /\ ~Covers(Record)
    /\ data' = Record.next
    /\ UNCHANGED <<table, mem, pc, lsda, found, landing_pad, action_record, chain>>

\* Action records are 1-biased.
FindCallSite ==
    /\ pc = "sites" /\ data <= lsda.action_table
    /\ Record.start <= table.ip /\ Covers(Record)
    /\ found' = TRUE
    /\ action_record' = IF Record.action = 0 THEN 0 ELSE lsda.action_table + Record.action - 1
    /\ landing_pad' = IF Record.pad = 0 THEN 0 ELSE lsda.landing_pads + Record.pad
    /\ pc' = IF Record.action = 0 THEN "done" ELSE "actions"
    /\ UNCHANGED <<table, mem, data, lsda, chain>>

\* The action record at address p of m: its filter, and the record after it.
ActionAt(m, p) ==
    LET filter == read_sleb128(m, p)
        displacement == read_sleb128(m, filter.next).v
    IN  [filter |-> filter.v, next |-> IF displacement = 0 THEN 0 ELSE filter.next + displacement]

\* Mutant: the chain ends at a cleanup.
MutantReadAction ==
    LET r == ActionAt(mem, action_record)
    IN  /\ pc = "actions"
        /\ action_record' = r.next
        /\ pc' = IF r.next = 0 \/ r.filter = 0 THEN "done" ELSE pc
        /\ chain' = Append(chain, [filter |-> r.filter, types |-> FilterTypes(lsda, mem, r.filter)])
        /\ UNCHANGED <<table, mem, data, lsda, found, landing_pad>>

\* One turn of the loop of check_action_record.
ReadAction ==
    LET r == ActionAt(mem, action_record)
    IN  /\ pc = "actions"
        /\ action_record' = r.next
        /\ pc' = IF r.next = 0 THEN "done" ELSE pc
        /\ chain' = Append(chain, [filter |-> r.filter, types |-> FilterTypes(lsda, mem, r.filter)])
        /\ UNCHANGED <<table, mem, data, lsda, found, landing_pad>>

Next == parse_lsda \/ NoCallSite \/ SkipRecord \/ FindCallSite \/ ReadAction
Spec == Init /\ [][Next]_vars
-----------------------------------------------------------------------------
(***************************************************************************)
(* dwarf_eh_find_callsite finds in the octets the region that covers the   *)
(* return address in the table, with its landing pad, for every encoding;  *)
(* an address between or behind the regions is found to be in none, though *)
(* the search reads one record behind the end of the table.                *)
(***************************************************************************)
FindsTheCallSite ==
    pc \in {"actions", "done"} =>
        /\ found = ~IsGap(table)
        /\ landing_pad = IF IsGap(table) \/ CallSite(table).pad = 0 THEN 0
                         ELSE LandingPads(table) + CallSite(table).pad

\* The types a filter of the table t stands for.
TypesOf(t, filter) ==
    IF filter = 0 THEN << >> ELSE IF filter > 0 THEN << t.types[filter] >>
    ELSE [j \in DOMAIN t.specs[-filter] |-> t.types[t.specs[-filter][j]]]

\* The chains that start at the actions of t.
Link(t, i) == [filter |-> Filter(t, i), types |-> TypesOf(t, t.actions[i].filter)]
Chains(t) ==
    LET c[i \in 0 .. Len(t.actions)] ==
            IF i = 0 THEN << >> ELSE << Link(t, i) >> \o c[t.actions[i].next]
    IN  c

(***************************************************************************)
(* Following displacements and filters gives the chain of the call site:   *)
(* handlers, cleanups and specifications in order, with their types, for   *)
(* tails shared by several call sites too.                                 *)
(***************************************************************************)
FindsTheChain ==
    pc = "done" => chain = IF IsGap(table) THEN << >> ELSE Chains(table)[CallSite(table).action]

\* Numbers next to the powers of two an int can hold.
EdgeNumbers == UNION {{2^k - 1, 2^k, 2^k + 1} : k \in 0 .. IntBits - 2} \cup {2^(IntBits - 1) - 1}

NumbersSurvive ==
    \A v \in EdgeNumbers :
        /\ read_uleb128(Uleb(v), 1).v = v
        /\ read_sleb128(Sleb(v), 1).v = v
        /\ read_sleb128(Sleb(-v), 1).v = -v

\* In the octets of the table t, whose header is read as l: the address of site
\* i, of what follows the last one, and of action i.
SiteAddress(t, l, i) == l.call_site_table + SiteStart(t, l.callsite_encoding, i)
ActionAddress(t, l, i) == l.action_table + ActionStart(t, i)

HeaderReadsBack(t, l) ==
    LET n == Len(t.sites)
    IN  /\ l.landing_pads = LandingPads(t)
        /\ \A i \in 1 .. n + 1 : SiteAddress(t, l, i) \in Nat
        /\ l.call_site_table = SiteAddress(t, l, 1)
        /\ l.action_table = SiteAddress(t, l, n + 1)

SiteReadsBack(t, l, m, i) ==
    /\ SiteAddress(t, l, i) <= l.action_table
    /\ RecordAt(l.callsite_encoding, m, SiteAddress(t, l, i)) =
           [start |-> t.sites[i].start, size |-> t.sites[i].size, pad |-> t.sites[i].pad,
            action |-> IF t.sites[i].action = 0 THEN 0 ELSE 1 + ActionStart(t, t.sites[i].action),
            next |-> SiteAddress(t, l, i + 1)]

\* What is read behind the last site, r, does not cover an address in a gap.
EndReadsAsGap(t, l, r) ==
    /\ r.next \in Nat /\ r.next > l.action_table
    /\ IsGap(t) => ~(r.start < t.ip /\ t.ip <= r.start + r.size)

ActionReadsBack(t, l, m, i) ==
    /\ ActionStart(t, i) \in Nat /\ ActionAddress(t, l, i) # 0
    /\ ActionAt(m, ActionAddress(t, l, i)) =
           [filter |-> Filter(t, i),
            next |-> IF t.actions[i].next = 0 THEN 0 ELSE ActionAddress(t, l, t.actions[i].next)]
    /\ FilterTypes(l, m, Filter(t, i)) = TypesOf(t, t.actions[i].filter)

ReadsBackFrom(t, l, m) ==
    /\ HeaderReadsBack(t, l)
    /\ EndReadsAsGap(t, l, RecordAt(l.callsite_encoding, m, l.action_table))
    /\ \A i \in DOMAIN t.sites : SiteReadsBack(t, l, m, i)
    /\ \A i \in DOMAIN t.actions : ActionReadsBack(t, l, m, i)
ReadsBack(t, m) == ReadsBackFrom(t, Parsed(m, 1), m)

(***************************************************************************)
(* What was written is read back: each number next to a power of two that  *)
(* an int can hold by read_uleb128 and read_sleb128 ("sign extend by       *)
(* setting all bits in front"), the header by parse_lsda, each call-site   *)
(* record with the address of the next one, and each action record with    *)
(* its types. It depends on no later state, so the first ones are enough.  *)
(***************************************************************************)
OctetsReadBack == pc = "header" => NumbersSurvive /\ ReadsBack(table, mem)
==============================================================================
