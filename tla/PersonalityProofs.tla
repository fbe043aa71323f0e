-------------------------- MODULE PersonalityProofs --------------------------
(***************************************************************************)
(* The two phases of unwinding find what the functions ask for, on stacks  *)
(* of frames with well-formed tables and any number of rethrows: the       *)
(* invariant is about what phase 1 leaves behind in the exception's header *)
(* for phase 2, and what phase 2 has done so far.                          *)
(***************************************************************************)
EXTENDS Personality, SequenceTheorems, NaturalsInduction, WellFoundedInduction, FiniteSetTheorems,
        TLAPS

\* The exception cannot leave the frame.
Stops(f) == f.lsda /\ (IsGap(f) \/ StopsAt(CallSite(f).chain) # {})

\* The record that stops it, and its filter.
StopRecord(f) == CallSite(f).chain[Min(StopsAt(CallSite(f).chain))]
StopFilter(f) == StopRecord(f).filter

\* The pointer that a handler which stops it gets.
PointerFor(f) == check_type_signature(StopRecord(f).types[1])

Unwinding == {"unwind", "pad", "handler", "terminate", "nullJump"}

TypeOK ==
    /\ hierarchy \in Hierarchies
    /\ frames \in Seq(Shapes)
    /\ thrown \in ThrownTypes \cup {Foreign, Forced}
    /\ throws \in Nat
    /\ pc \in Unwinding \cup {"call", "search", "unexpected", "uncaught", "finished"}
    /\ pos \in 0 .. Len(frames)
    /\ stop \in 0 .. Len(frames)
    /\ selector \in Int
    /\ cleanups \in Seq(Nat)

\* Before phase 2 nothing is cached and no cleanup has run.
NothingDone == stop = 0 /\ catchTemp = NoPad /\ cleanups = << >>

NothingAbove(p) == \A q \in p + 1 .. Len(frames) : ~Stops(frames[q])

SearchOK ==
    /\ pc = "call" => NothingDone
    /\ pc \in {"search", "uncaught"} => NothingDone /\ thrown # Forced /\ NothingAbove(pos)
    /\ pc = "uncaught" => pos = 0

\* Phase 1 ended in the innermost frame that stops the exception.
StopOK ==
    pc \in Unwinding =>
        /\ stop <= pos
        /\ thrown = Forced => stop = 0
        /\ thrown # Forced => stop > 0 /\ Stops(frames[stop]) /\ NothingAbove(stop)

\* The cleanups that have run are those of the frames left.
CleanupsOK ==
    pc \in Unwinding =>
        /\ {cleanups[i] : i \in DOMAIN cleanups} = {p \in pos + 1 .. Len(frames) : IsCleanup(frames[p])}
        /\ \A i, j \in DOMAIN cleanups : i < j => cleanups[i] > cleanups[j]

\* What is cached for the frame phase 1 ended in, until it is used there.
CachedHandler == IsCxx /\ stop > 0 /\ ~IsGap(frames[stop])
CacheOK ==
    pc \in Unwinding =>
        IF CachedHandler /\ (pc = "unwind" \/ (pc = "pad" /\ pos # stop))
        THEN catchTemp = Pad(stop) /\ handlerSwitchValue = StopFilter(frames[stop])
        ELSE catchTemp = NoPad

PadOK ==
    pc = "pad" =>
        /\ pos > 0 /\ ip = Pad(pos) /\ HasPad(frames[pos])
        /\ pos = stop => selector = StopFilter(frames[stop])
        /\ pos # stop => /\ IsCleanup(frames[pos])
                         /\ selector <= 0 /\ (~IsCxx => selector = 0)

EndOK ==
    /\ pc \in {"handler", "terminate", "nullJump"} => pos = stop /\ stop > 0
    /\ pc = "handler" => ~IsGap(frames[stop]) /\ selector = StopFilter(frames[stop]) /\ selector > 0
    /\ pc = "terminate" => IsCxx /\ IsGap(frames[stop])
    /\ pc = "unexpected" => thrown # Forced

\* The subobject found in phase 1 survives phase 2.
PointerOK ==
    pc \in Unwinding /\ CachedHandler /\ StopFilter(frames[stop]) > 0 /\ ~SpecificationPassed
        => adjustedPtr = PointerFor(frames[stop])

IInv ==
    /\ TypeOK /\ SearchOK /\ StopOK /\ CleanupsOK /\ CacheOK /\ PadOK /\ EndOK /\ PointerOK
-----------------------------------------------------------------------------

(***************************************************************************)
(* Minima and maxima.                                                      *)
(***************************************************************************)
LEMMA MinIs ==
    ASSUME NEW S, S \subseteq Nat, S # {}
    PROVE  Min(S) \in S /\ \A x \in S : Min(S) <= x
  <1>1. PICK m \in S : \A y \in S : ~ (<< y, m >> \in OpToRel(<, Nat))
    BY NatLessThanWellFounded, WFMin
  <1>2. \A y \in S : ~(y < m)
    BY <1>1 DEF OpToRel
  <1>3. \A y \in S : m <= y
    BY <1>2
  <1> QED BY <1>3 DEF Min

LEMMA MaxIs ==
    ASSUME NEW S, NEW n \in Nat, S \subseteq 0 .. n, S # {}
    PROVE  Max(S) \in S /\ \A x \in S : x <= Max(S)
  <1> DEFINE T == {x \in 0 .. n : n - x \in S}
  <1>1. PICK a \in S : TRUE
    OBVIOUS
  <1>2. T \subseteq Nat /\ T # {}
    <2>1. n - a \in T
      BY <1>1
    <2> QED BY <2>1
  <1>3. (\A y \in S : n - y \in T) /\ (\A x \in T : n - x \in S) /\ (\A y \in S : y \in Int)
    OBVIOUS
  <1> HIDE DEF T
  <1>4. Min(T) \in T /\ \A x \in T : Min(T) <= x
    BY <1>2, MinIs
  <1>5. PICK m \in Nat : m = Min(T)
    BY <1>2, <1>4
  <1>6. ASSUME NEW y \in S PROVE n - m >= y
    <2>1. m <= n - y /\ y \in Int
      BY <1>3, <1>4, <1>5
    <2> QED BY ONLY <2>1, m \in Nat, n \in Nat
  <1>7. n - m \in S
    BY <1>3, <1>4, <1>5
  <1>8. Max(S) \in S /\ \A y \in S : Max(S) >= y
    BY <1>6, <1>7 DEF Max
  <1> QED BY <1>3, <1>8

\* A set of numbers has one greatest element.
LEMMA MaxUnique ==
    ASSUME NEW S, NEW n \in Nat, S \subseteq 0 .. n, NEW m \in S, \A x \in S : x <= m
    PROVE  Max(S) = m
  <1>0. S # {}
    OBVIOUS
  <1>1. Max(S) \in S /\ \A x \in S : x <= Max(S)
    BY <1>0, MaxIs
  <1>2. PICK k : k = Max(S)
    OBVIOUS
  <1>3. k \in S /\ m <= k
    BY <1>1, <1>2
  <1>4. k \in 0 .. n /\ m \in 0 .. n
    BY <1>3
  <1>5. k <= m
    BY <1>3
  <1> QED BY ONLY <1>2, <1>3, <1>4, <1>5, n \in Nat

(***************************************************************************)
(* Call-site tables: the search of the table finds the one region that the *)
(* call is in.                                                             *)
(***************************************************************************)
LEMMA FrameFacts ==
    ASSUME NEW f \in Shapes
    PROVE  /\ f.ip \in Nat /\ f.lsda \in BOOLEAN /\ f.sites \in Seq(CallSiteRecords)
           /\ DOMAIN f.sites = 1 .. Len(f.sites) /\ Len(f.sites) \in Nat
           /\ \A i \in DOMAIN f.sites :
                 /\ f.sites[i].start \in Nat /\ f.sites[i].size \in Nat /\ f.sites[i].pad \in BOOLEAN
                 /\ f.sites[i].chain \in Seq(ActionRecords)
           /\ Sorted(f.sites)
  <1>1. f \in [lsda : BOOLEAN, ip : Nat, sites : Seq(CallSiteRecords)] /\ Sorted(f.sites)
    BY PersonalityAssumption DEF IsFrame
  <1>2. f.sites \in Seq(CallSiteRecords)
    BY <1>1
  <1>3. DOMAIN f.sites = 1 .. Len(f.sites) /\ Len(f.sites) \in Nat
    BY <1>2
  <1>4. \A i \in DOMAIN f.sites : f.sites[i] \in CallSiteRecords
    BY <1>2, <1>3
  <1> QED BY <1>1, <1>2, <1>3, <1>4 DEF CallSiteRecords

LEMMA FindsCovering ==
    ASSUME NEW f \in Shapes
    PROVE  dwarf_eh_find_callsite(f) = Covering(f)
  <1>1. ASSUME NEW i \in DOMAIN f.sites, NEW j \in 1 .. i, f.sites[i].start < f.ip
        PROVE  f.sites[j].start <= f.ip
    <2>1. CASE j = i
      BY <1>1, <2>1, FrameFacts
    <2>2. CASE j # i
      <3>1. j \in DOMAIN f.sites /\ j < i
        BY <2>2, FrameFacts
      <3>2. f.sites[j].start + f.sites[j].size <= f.sites[i].start
        BY <3>1, FrameFacts DEF Sorted
      <3> QED BY <1>1, <3>1, <3>2, FrameFacts
    <2> QED BY <2>1, <2>2
  <1>2. \A i \in DOMAIN f.sites :
           /\ f.ip \in Nat /\ f.sites[i].start \in Nat /\ f.sites[i].size \in Nat
    BY FrameFacts
  <1>3. ASSUME NEW i \in DOMAIN f.sites
        PROVE  f.ip \in f.sites[i].start + 1 .. f.sites[i].start + f.sites[i].size
                  <=> f.sites[i].start < f.ip /\ f.ip <= f.sites[i].start + f.sites[i].size
    BY <1>2
  <1> QED BY <1>1, <1>3 DEF dwarf_eh_find_callsite, Covering

LEMMA OneCovers ==
    ASSUME NEW f \in Shapes, NEW i \in Covering(f), NEW j \in Covering(f)
    PROVE  i = j
  <1> SUFFICES ASSUME NEW k \in Covering(f), NEW l \in Covering(f), k < l
               PROVE  FALSE
    <2>1. i \in Nat /\ j \in Nat
      BY FrameFacts DEF Covering
    <2> QED BY <2>1
  <1>1. /\ k \in DOMAIN f.sites /\ l \in DOMAIN f.sites
        /\ f.ip \in f.sites[k].start + 1 .. f.sites[k].start + f.sites[k].size
        /\ f.ip \in f.sites[l].start + 1 .. f.sites[l].start + f.sites[l].size
    BY DEF Covering
  <1>2. f.sites[k].start + f.sites[k].size <= f.sites[l].start
    BY <1>1, FrameFacts DEF Sorted
  <1> QED BY <1>1, <1>2, FrameFacts

\* The call site and its action records.
LEMMA CallSiteFacts ==
    ASSUME NEW f \in Shapes, ~IsGap(f)
    PROVE  /\ Covering(f) # {} /\ \A i \in Covering(f) : f.sites[i] = CallSite(f)
           /\ Clauses(f) = {CallSite(f).chain}
           /\ CallSite(f).pad \in BOOLEAN /\ CallSite(f).chain \in Seq(ActionRecords)
           /\ CallSite(f).chain # << >> => CallSite(f).pad
           /\ \A j \in DOMAIN CallSite(f).chain : CallSite(f).chain[j].filter >= 0 =>
                 Len(CallSite(f).chain[j].types) = IF CallSite(f).chain[j].filter = 0 THEN 0 ELSE 1
  <1>1. dwarf_eh_find_callsite(f) = Covering(f) /\ Covering(f) # {}
    BY FindsCovering DEF IsGap
  <1>2. Covering(f) \subseteq DOMAIN f.sites /\ DOMAIN f.sites \subseteq Nat
    BY FrameFacts DEF Covering
  <1>3. PICK k : k = Min(Covering(f))
    OBVIOUS
  <1>4. k \in Covering(f) /\ k \in DOMAIN f.sites
    BY <1>1, <1>2, <1>3, MinIs
  <1>5. CallSite(f) = f.sites[k]
    BY <1>1, <1>3 DEF CallSite
  <1>6. \A i \in Covering(f) : f.sites[i] = CallSite(f)
    BY <1>4, <1>5, OneCovers
  <1>7. Clauses(f) = {CallSite(f).chain}
    BY <1>4, <1>6 DEF Clauses
  <1>8. CallSite(f).pad \in BOOLEAN /\ CallSite(f).chain \in Seq(ActionRecords)
    BY <1>4, <1>5, FrameFacts
  <1>9. IsFrame(f)
    BY PersonalityAssumption
  <1>10. /\ f.sites[k].chain # << >> => f.sites[k].pad
         /\ \A j \in DOMAIN f.sites[k].chain : f.sites[k].chain[j].filter >= 0 =>
               Len(f.sites[k].chain[j].types) = IF f.sites[k].chain[j].filter = 0 THEN 0 ELSE 1
    BY <1>4, <1>9 DEF IsFrame
  <1> QED BY <1>1, <1>5, <1>6, <1>7, <1>8, <1>10

LEMMA GapFacts ==
    ASSUME NEW f \in Shapes, IsGap(f)
    PROVE  Covering(f) = {} /\ Clauses(f) = {}
  <1>1. Covering(f) = {}
    BY FindsCovering DEF IsGap
  <1> QED BY <1>1 DEF Clauses

(***************************************************************************)
(* While the exception and the stack stay as they are, so does what the    *)
(* frames have for it.                                                     *)
(***************************************************************************)
SameException == hierarchy' = hierarchy /\ thrown' = thrown /\ frames' = frames

LEMMA SameRecords ==
    ASSUME SameException
    PROVE  /\ IsCxx' <=> IsCxx
           /\ \A t : check_type_signature(t)' = check_type_signature(t)
           /\ \A c : StopsAt(c)' = StopsAt(c)
           /\ \A c : FoundHandler(c)' = FoundHandler(c)
  <1>1. IsCxx' <=> IsCxx
    BY DEF SameException, IsCxx
  <1>2. ASSUME NEW t PROVE check_type_signature(t)' = check_type_signature(t)
    BY <1>1 DEF SameException, check_type_signature, IsCxx
  <1>3. ASSUME NEW e PROVE Matching(e)' = Matching(e)
    BY <1>2 DEF SameException, Matching
  <1>4. ASSUME NEW c PROVE StopsAt(c)' = StopsAt(c)
    BY <1>1, <1>3 DEF SameException, StopsAt
  <1>5. ASSUME NEW c PROVE FoundHandler(c)' = FoundHandler(c)
    BY <1>4 DEF FoundHandler
  <1> QED BY <1>1, <1>2, <1>4, <1>5

LEMMA SameFrames ==
    ASSUME SameException, NEW s, s = stop'
    PROVE  /\ Stops(frames[stop])' <=> Stops(frames[s])
           /\ StopFilter(frames[stop])' = StopFilter(frames[s])
           /\ PointerFor(frames[stop])' = PointerFor(frames[s])
           /\ \A q : Stops(frames[q])' <=> Stops(frames[q])
           /\ \A q : IsCleanup(frames[q])' <=> IsCleanup(frames[q])
  <1>1. Stops(frames[stop])' <=> Stops(frames[s])
    BY SameRecords DEF SameException, Stops, StopsAt, Matching, check_type_signature, IsCxx
  <1>2. StopFilter(frames[stop])' = StopFilter(frames[s])
    BY SameRecords DEF SameException, StopFilter, StopRecord, StopsAt, Matching, check_type_signature, IsCxx
  <1>3. PointerFor(frames[stop])' = PointerFor(frames[s])
    BY SameRecords DEF SameException, PointerFor, StopRecord, StopsAt, Matching, check_type_signature, IsCxx
  <1>4. ASSUME NEW q PROVE Stops(frames[q])' <=> Stops(frames[q])
    BY SameRecords DEF SameException, Stops, StopsAt, Matching, check_type_signature, IsCxx
  <1>5. ASSUME NEW q PROVE IsCleanup(frames[q])' <=> IsCleanup(frames[q])
    BY SameRecords DEF SameException, IsCleanup, HasPad, FoundHandler, StopsAt, Matching, check_type_signature, IsCxx
  <1> QED BY <1>1, <1>2, <1>3, <1>4, <1>5

(***************************************************************************)
(* Action records.                                                         *)
(***************************************************************************)
LEMMA ChainFacts ==
    ASSUME NEW c \in Seq(ActionRecords)
    PROVE  /\ Len(c) \in Nat /\ DOMAIN c = 1 .. Len(c) /\ StopsAt(c) \subseteq 1 .. Len(c)
           /\ \A i \in DOMAIN c : c[i].filter \in Int /\ c[i].types \in Seq(HandlerTypes)
           /\ StopsAt(c) # {} => /\ Min(StopsAt(c)) \in StopsAt(c) /\ Min(StopsAt(c)) \in DOMAIN c
                                 /\ \A i \in StopsAt(c) : Min(StopsAt(c)) <= i
  <1>1. Len(c) \in Nat /\ DOMAIN c = 1 .. Len(c)
    OBVIOUS
  <1>2. StopsAt(c) \subseteq 1 .. Len(c)
    BY <1>1 DEF StopsAt
  <1>3. ASSUME NEW i \in DOMAIN c PROVE c[i].filter \in Int /\ c[i].types \in Seq(HandlerTypes)
    <2>1. c[i] \in ActionRecords
      BY <1>1
    <2> QED BY <2>1 DEF ActionRecords
  <1>4. ASSUME StopsAt(c) # {}
        PROVE  /\ Min(StopsAt(c)) \in StopsAt(c) /\ Min(StopsAt(c)) \in DOMAIN c
               /\ \A i \in StopsAt(c) : Min(StopsAt(c)) <= i
    <2>1. StopsAt(c) \subseteq Nat
      BY <1>2
    <2>2. Min(StopsAt(c)) \in StopsAt(c) /\ \A i \in StopsAt(c) : Min(StopsAt(c)) <= i
      BY <1>4, <2>1, MinIs
    <2> QED BY <1>1, <1>2, <2>2
  <1> QED BY <1>1, <1>2, <1>3, <1>4

\* A record that stops the exception is not a cleanup.
LEMMA StopFilterNotZero ==
    ASSUME NEW c \in Seq(ActionRecords), NEW i \in StopsAt(c)
    PROVE  /\ c[i].filter \in Int /\ c[i].filter # 0
           /\ c[i].filter > 0 => Matching(c[i]) # {}
           /\ ~IsCxx => c[i].filter > 0
  <1>1. c[i].filter \in Int
    BY ChainFacts
  <1> QED BY <1>1 DEF StopsAt

LEMMA ReadUpTo ==
    ASSUME NEW c \in Seq(ActionRecords), NEW m, m = Min(StopsAt(c)), StopsAt(c) # {}
    PROVE  Read(c) = 1 .. m /\ m \in Read(c) /\ m \in Nat /\ \A i \in Read(c) : i <= m
  <1>1. m \in 1 .. Len(c)
    BY ChainFacts
  <1> QED BY <1>1 DEF Read

\* The selector is the filter of the record that stops the exception. Where
\* none does it is that of a cleanup or of a specification.
LEMMA SelectorIs ==
    ASSUME NEW c \in Seq(ActionRecords)
    PROVE  /\ Selector(c) \in Int
           /\ StopsAt(c) # {} => Selector(c) = c[Min(StopsAt(c))].filter
           /\ StopsAt(c) = {} => Selector(c) <= 0 /\ (~IsCxx => Selector(c) = 0)
  <1> DEFINE S == {i \in Read(c) :
                      i \in StopsAt(c) \/ c[i].filter = 0 \/ (c[i].filter < 0 /\ IsCxx)}
  <1>1. Selector(c) = IF S = {} THEN 0 ELSE c[Max(S)].filter
    BY DEF Selector
  <1>2. CASE StopsAt(c) # {}
    <2>1. PICK m : m = Min(StopsAt(c))
      OBVIOUS
    <2>2. m \in StopsAt(c) /\ m \in Nat /\ m \in Read(c) /\ Read(c) = 1 .. m /\ \A i \in Read(c) : i <= m
      BY <1>2, <2>1, ReadUpTo, ChainFacts
    <2>3. S \subseteq 0 .. m /\ m \in S /\ \A i \in S : i <= m
      BY <2>2
    <2> HIDE DEF S
    <2>4. Max(S) = m /\ S # {}
      BY <2>2, <2>3, MaxUnique
    <2> QED BY <1>1, <1>2, <2>1, <2>2, <2>4, StopFilterNotZero
  <1>3. CASE StopsAt(c) = {}
    <2>1. Read(c) = 1 .. Len(c) /\ Len(c) \in Nat /\ DOMAIN c = 1 .. Len(c)
      BY <1>3, ChainFacts DEF Read
    <2>2. S \subseteq 0 .. Len(c)
      BY <2>1
    <2>3. ASSUME NEW i \in S
          PROVE  c[i].filter \in Int /\ c[i].filter <= 0 /\ (~IsCxx => c[i].filter = 0)
      <3>1. i \in DOMAIN c
        BY <2>1
      <3>2. c[i].filter \in Int
        BY <3>1, ChainFacts
      <3> QED BY <1>3, <3>2
    <2> HIDE DEF S
    <2>4. S # {} => Max(S) \in S
      BY <2>1, <2>2, MaxIs
    <2> QED BY <1>1, <1>3, <2>3, <2>4
  <1> QED BY <1>2, <1>3

\* The pointer a handler gets is that for its type.
LEMMA AdjustedForHandler ==
    ASSUME NEW c \in Seq(ActionRecords), StopsAt(c) # {}, IsCxx,
           NEW m, m = Min(StopsAt(c)), c[m].filter > 0, Len(c[m].types) = 1
    PROVE  AdjustedPtr(c) = check_type_signature(c[m].types[1])
  <1> DEFINE A == {i \in Read(c) : IsCxx /\ Matching(c[i]) # {}}
  <1>1. m \in StopsAt(c) /\ m \in DOMAIN c
    BY ChainFacts
  <1>2. m \in Nat /\ m \in Read(c) /\ Read(c) = 1 .. m /\ \A i \in Read(c) : i <= m
    BY ReadUpTo
  <1>3. Matching(c[m]) # {}
    BY <1>1, StopFilterNotZero
  <1>4. A \subseteq 0 .. m /\ m \in A /\ \A i \in A : i <= m
    BY <1>2, <1>3
  <1>5. AdjustedPtr(c) = IF A = {} THEN adjustedPtr
                         ELSE check_type_signature(c[Max(A)].types[Min(Matching(c[Max(A)]))])
    BY DEF AdjustedPtr
  <1> HIDE DEF A
  <1>6. Max(A) = m /\ A # {}
    BY <1>2, <1>4, MaxUnique
  <1>7. c[m].types \in Seq(HandlerTypes)
    BY <1>1, ChainFacts
  <1>8. Matching(c[m]) = {1}
    <2>1. DOMAIN c[m].types = {1}
      BY <1>7
    <2> QED BY <1>3, <2>1 DEF Matching
  <1>9. Min({1}) = 1
    <2>1. {1} \subseteq Nat /\ {1} # {}
      OBVIOUS
    <2>2. Min({1}) \in {1}
      BY ONLY <2>1, MinIs
    <2> QED BY ONLY <2>2
  <1> QED BY <1>5, <1>6, <1>8, <1>9

\* Where nothing stops the exception and there is no specification, the
\* pointer is kept.
LEMMA AdjustedIsKept ==
    ASSUME NEW c \in Seq(ActionRecords), StopsAt(c) = {},
           \A i \in DOMAIN c : c[i].filter >= 0 /\ (c[i].filter = 0 => Len(c[i].types) = 0)
    PROVE  AdjustedPtr(c) = adjustedPtr
  <1>1. Read(c) = DOMAIN c
    BY ChainFacts DEF Read
  <1>2. ASSUME NEW i \in DOMAIN c PROVE Matching(c[i]) = {}
    <2>1. c[i].filter \in Int /\ c[i].types \in Seq(HandlerTypes)
      BY ChainFacts
    <2>2. CASE c[i].filter = 0
      <3>1. DOMAIN c[i].types = {}
        BY <2>1, <2>2
      <3> QED BY <3>1 DEF Matching
    <2>3. CASE c[i].filter > 0
      BY <2>3 DEF StopsAt
    <2> QED BY <2>1, <2>2, <2>3
  <1> QED BY <1>1, <1>2 DEF AdjustedPtr

(***************************************************************************)
(* A frame as the source text of its function has it.                      *)
(***************************************************************************)
LEMMA SignatureAgrees ==
    ASSUME MatchingIsRight, TypeOK, NEW t \in HandlerTypes
    PROVE  check_type_signature(t) # NoMatch <=> Allows(t)
  <1>1. NullPtr # NoMatch
    <2>1. Len(<< >>) = 0 /\ Len(<< "no match" >>) = 1
      OBVIOUS
    <2> QED BY <2>1 DEF NullPtr, NoMatch
  <1>2. CASE ~IsCxx
    BY <1>1, <1>2 DEF check_type_signature, Allows
  <1>3. CASE IsCxx /\ t = CatchAll
    BY <1>3, PersonalityAssumption DEF check_type_signature, Allows, IsCxx
  <1>4. CASE IsCxx /\ t # CatchAll
    <2>1. hierarchy \in Hierarchies /\ thrown \in ThrownTypes /\ t \in HandlerTypes \ {CatchAll}
      BY <1>4 DEF TypeOK, IsCxx
    <2>2. do_catch(hierarchy, t, thrown, << thrown.class >>) # NoMatch <=> IsMatch(hierarchy, t, thrown)
      BY <2>1 DEF MatchingIsRight
    <2> QED BY <1>4, <2>2 DEF check_type_signature, Allows
  <1> QED BY <1>2, <1>3, <1>4

LEMMA StopsAtTakes ==
    ASSUME MatchingIsRight, TypeOK, NEW c \in Seq(ActionRecords)
    PROVE  StopsAt(c) = {i \in DOMAIN c : Takes(c[i])}
  <1>1. ASSUME NEW i \in DOMAIN c
        PROVE  Matching(c[i]) # {} <=> \E j \in DOMAIN c[i].types : Allows(c[i].types[j])
    <2>1. c[i].types \in Seq(HandlerTypes)
      BY ChainFacts
    <2>2. \A j \in DOMAIN c[i].types : c[i].types[j] \in HandlerTypes
      BY <2>1
    <2>3. \A j \in DOMAIN c[i].types : check_type_signature(c[i].types[j]) # NoMatch <=> Allows(c[i].types[j])
      BY <2>2, SignatureAgrees
    <2> QED BY <2>3 DEF Matching
  <1>2. ASSUME NEW i \in DOMAIN c PROVE i \in StopsAt(c) <=> Takes(c[i])
    BY <1>1 DEF StopsAt, Takes
  <1> QED BY <1>2 DEF StopsAt

TakesIn(f) ==
    f.lsda /\ (Covering(f) = {} \/ \E c \in Clauses(f) : \E i \in DOMAIN c : Takes(c[i]))

LEMMA StopsTakes ==
    ASSUME MatchingIsRight, TypeOK, NEW f \in Shapes
    PROVE  Stops(f) <=> TakesIn(f)
  <1>1. CASE IsGap(f)
    BY <1>1, GapFacts DEF Stops, TakesIn
  <1>2. CASE ~IsGap(f)
    <2>1. PICK c : c = CallSite(f).chain
      OBVIOUS
    <2>2. c \in Seq(ActionRecords) /\ Clauses(f) = {c} /\ Covering(f) # {}
      BY <1>2, <2>1, CallSiteFacts
    <2>3. StopsAt(c) = {i \in DOMAIN c : Takes(c[i])}
      BY <2>2, StopsAtTakes
    <2> QED BY <1>2, <2>1, <2>2, <2>3 DEF Stops, TakesIn
  <1> QED BY <1>1, <1>2

LEMMA FrameIsShape ==
    ASSUME TypeOK
    PROVE  /\ Len(frames) \in Nat /\ DOMAIN frames = 1 .. Len(frames)
           /\ \A q \in 1 .. Len(frames) : frames[q] \in Shapes
  BY DEF TypeOK

\* The frame phase 1 ends in is the one the exception stops in.
LEMMA StopFrameIs ==
    ASSUME MatchingIsRight, TypeOK, NEW p \in 0 .. Len(frames), NothingAbove(p),
           p > 0 => Stops(frames[p])
    PROVE  StopFrame = p
  <1> DEFINE F == {q \in DOMAIN frames :
                      /\ frames[q].lsda
                      /\ Covering(frames[q]) = {}
                         \/ \E c \in Clauses(frames[q]) : \E i \in DOMAIN c : Takes(c[i])}
  <1>1. F = {q \in DOMAIN frames : TakesIn(frames[q])}
    BY DEF TakesIn
  <1>2. \A q \in 1 .. Len(frames) : q \in F <=> Stops(frames[q])
    BY <1>1, FrameIsShape, StopsTakes
  <1>3. F \subseteq 1 .. Len(frames) /\ Len(frames) \in Nat
    BY FrameIsShape
  <1>4. StopFrame = IF F = {} THEN 0 ELSE Max(F)
    BY DEF StopFrame
  <1> HIDE DEF F
  <1>5. \A q \in F : q <= p
    BY <1>2, <1>3 DEF NothingAbove
  <1>6. CASE p = 0
    <2>1. F = {}
      BY <1>3, <1>5, <1>6
    <2> QED BY <1>4, <1>6, <2>1
  <1>7. CASE p > 0
    <2>1. p \in F /\ F \subseteq 0 .. Len(frames)
      BY <1>2, <1>3, <1>7
    <2>2. Max(F) = p
      BY <1>3, <1>5, <2>1, MaxUnique
    <2> QED BY <1>4, <2>1, <2>2
  <1> QED BY <1>6, <1>7

LEMMA StopClauseIs ==
    ASSUME MatchingIsRight, TypeOK, NEW p \in 1 .. Len(frames), ~IsGap(frames[p])
    PROVE  StopClause(p) = StopRecord(frames[p])
  <1>1. PICK f \in Shapes : f = frames[p]
    BY FrameIsShape
  <1>2. PICK c : c = CallSite(f).chain
    OBVIOUS
  <1>3. Clauses(f) = {c} /\ c \in Seq(ActionRecords)
    BY <1>1, <1>2, CallSiteFacts
  <1>4. (CHOOSE d \in Clauses(f) : TRUE) = c
    BY <1>3
  <1>5. StopsAt(c) = {i \in DOMAIN c : Takes(c[i])}
    BY <1>3, StopsAtTakes
  <1> QED BY <1>1, <1>2, <1>4, <1>5 DEF StopClause, StopRecord

LEMMA CleanupAgrees ==
    ASSUME NEW f \in Shapes, ~Stops(f)
    PROVE  IsCleanup(f) <=> HasCleanup(f)
  <1>1. CASE IsGap(f)
    BY <1>1, GapFacts DEF IsCleanup, HasPad, HasCleanup
  <1>2. CASE ~IsGap(f)
    <2>1. /\ Covering(f) # {} /\ \A i \in Covering(f) : f.sites[i] = CallSite(f)
      BY <1>2, CallSiteFacts
    <2>2. HasCleanup(f) <=>
            /\ f.lsda /\ CallSite(f).pad
            /\ \/ CallSite(f).chain = << >>
               \/ \E j \in DOMAIN CallSite(f).chain : CallSite(f).chain[j].filter = 0
      BY <2>1 DEF HasCleanup
    <2> QED BY <1>2, <2>2 DEF Stops, IsCleanup, HasPad, FoundHandler
  <1> QED BY <1>1, <1>2

-----------------------------------------------------------------------------
(***************************************************************************)
(* The steps before phase 2 and after it.                                  *)
(***************************************************************************)
LEMMA InitInv == Init => IInv
  <1> SUFFICES ASSUME Init PROVE IInv
    OBVIOUS
  <1>1. TypeOK
    BY DEF Init, TypeOK
  <1> QED BY <1>1 DEF Init, IInv, SearchOK, NothingDone, StopOK, CleanupsOK, CacheOK, PadOK, EndOK,
                      PointerOK, Unwinding

\* Outside phase 2 only these parts say anything.
LEMMA OutsidePhase2 ==
    ASSUME TypeOK', SearchOK', pc' \notin Unwinding, pc' = "unexpected" => thrown' # Forced
    PROVE  IInv'
  BY DEF IInv, StopOK, CleanupsOK, CacheOK, PadOK, EndOK, PointerOK, Unwinding

LEMMA CallStep == ASSUME IInv, NEW f \in Shapes, Call(f) PROVE IInv'
  <1>1. TypeOK'
    <2>1. frames' \in Seq(Shapes) /\ Len(frames') = Len(frames) + 1 /\ Len(frames) \in Nat
      BY DEF Call, IInv, TypeOK
    <2> QED BY <2>1 DEF Call, IInv, TypeOK
  <1>2. SearchOK'
    BY DEF Call, IInv, SearchOK, NothingDone, NoPad, header
  <1> QED BY <1>1, <1>2, OutsidePhase2 DEF Call, Unwinding

LEMMA ThrowStep == ASSUME IInv, NEW x \in ThrownTypes \cup {Foreign, Forced}, Throw(x) PROVE IInv'
  <1>1. TypeOK'
    BY FrameIsShape DEF Throw, IInv, TypeOK, Unwinding
  <1>2. NothingDone /\ NothingDone'
    BY DEF Throw, IInv, SearchOK, NothingDone, NoPad, header
  <1>3. Len(frames') + 1 .. Len(frames') = {} /\ pos' = Len(frames') /\ Len(frames') \in Nat
    BY FrameIsShape DEF Throw, IInv
  <1>4. SearchOK'
    <2>1. NothingAbove(pos)'
      BY <1>3 DEF NothingAbove
    <2> QED BY <1>2, <2>1 DEF Throw, SearchOK
  <1>5. CASE x # Forced
    BY <1>1, <1>4, <1>5, OutsidePhase2 DEF Throw, Unwinding
  <1>6. CASE x = Forced
    <2>1. pc' = "unwind" /\ thrown' = Forced
      BY <1>6 DEF Throw
    <2>2. CleanupsOK'
      <3>1. cleanups' = << >> /\ DOMAIN << >> = {}
        BY <1>2 DEF NothingDone
      <3> QED BY <1>3, <3>1 DEF CleanupsOK
    <2>3. stop' = 0 /\ catchTemp' = NoPad /\ ~CachedHandler'
      BY <1>2 DEF NothingDone, CachedHandler, NoPad
    <2>4. StopOK' /\ CacheOK' /\ PadOK' /\ EndOK' /\ PointerOK'
      BY <1>3, <2>1, <2>3 DEF StopOK, CacheOK, PadOK, EndOK, PointerOK, NoPad
    <2> QED BY <1>1, <1>4, <2>2, <2>4 DEF IInv
  <1> QED BY <1>5, <1>6

LEMMA RethrowStep == ASSUME IInv, NEW f \in Shapes, Rethrow(f) PROVE IInv'
  <1>1. pc = "handler" /\ pos = stop /\ stop > 0 /\ thrown # Forced /\ catchTemp = NoPad
    BY DEF Rethrow, IInv, EndOK, StopOK, CacheOK, Unwinding
  <1>2. frames' \in Seq(Shapes) /\ Len(frames') = pos
    <2>1. frames \in Seq(Shapes) /\ pos \in 1 .. Len(frames) /\ Len(frames) \in Nat
      BY <1>1, FrameIsShape DEF IInv, TypeOK
    <2>2. PICK s : s = SubSeq(frames, 1, pos - 1)
      OBVIOUS
    <2>3. s \in Seq(Shapes) /\ Len(s) = pos - 1
      BY <2>1, <2>2
    <2>4. << f >> \in Seq(Shapes) /\ Len(<< f >>) = 1
      OBVIOUS
    <2>5. frames' = s \o << f >>
      BY <2>2 DEF Rethrow
    <2>6. frames' \in Seq(Shapes) /\ Len(frames') = Len(s) + 1
      BY <2>3, <2>4, <2>5
    <2> QED BY <2>1, <2>3, <2>6
  <1>3. TypeOK'
    BY <1>2 DEF Rethrow, IInv, TypeOK
  <1>4. SearchOK'
    <2>1. NothingDone'
      BY <1>1 DEF Rethrow, NothingDone, NoPad, header
    <2>2. NothingAbove(pos)'
      <3>1. pos' + 1 .. Len(frames') = {}
        BY <1>2, <1>3 DEF Rethrow, TypeOK
      <3> QED BY <3>1 DEF NothingAbove
    <2> QED BY <1>1, <2>1, <2>2 DEF Rethrow, SearchOK
  <1> QED BY <1>3, <1>4, OutsidePhase2 DEF Rethrow, Unwinding

LEMMA EndStep == ASSUME IInv, HandlerEnds \/ ForcedUnwindEnds \/ EndOfStack PROVE IInv'
  <1>1. TypeOK'
    BY DEF IInv, TypeOK, HandlerEnds, ForcedUnwindEnds, EndOfStack
  <1>2. SearchOK'
    <2>1. CASE EndOfStack
      <3>1. NothingDone' /\ thrown' # Forced /\ pos' = 0 /\ pc' = "uncaught"
        BY <2>1 DEF IInv, SearchOK, NothingDone, NoPad, EndOfStack, header
      <3>2. NothingAbove(pos)'
        <4>1. NothingAbove(pos) /\ SameException /\ pos' = pos
          BY <2>1 DEF IInv, SearchOK, EndOfStack, SameException
        <4> QED BY <4>1, SameFrames DEF NothingAbove, SameException
      <3> QED BY <3>1, <3>2 DEF SearchOK
    <2>2. CASE HandlerEnds \/ ForcedUnwindEnds
      BY <2>2 DEF SearchOK, HandlerEnds, ForcedUnwindEnds
    <2> QED BY <2>1, <2>2
  <1> QED BY <1>1, <1>2, OutsidePhase2 DEF HandlerEnds, ForcedUnwindEnds, EndOfStack, Unwinding

-----------------------------------------------------------------------------
(***************************************************************************)
(* Phase 1.                                                                *)
(***************************************************************************)
LEMMA SearchContinuesStep == ASSUME IInv, SearchContinues PROVE IInv'
  <1>1. pos \in 1 .. Len(frames) /\ Len(frames) \in Nat /\ pos' = pos - 1 /\ frames[pos] \in Shapes
    BY FrameIsShape DEF SearchContinues, IInv, TypeOK
  <1>2. TypeOK'
    BY <1>1 DEF SearchContinues, IInv, TypeOK
  <1>3. ~Stops(frames[pos])
    BY DEF SearchContinues, Stops, FoundHandler
  <1>4. NothingDone' /\ thrown' # Forced /\ NothingAbove(pos)
    BY DEF SearchContinues, IInv, SearchOK, NothingDone, NoPad, header
  <1>5. NothingAbove(pos)'
    <2>1. SameException
      BY DEF SearchContinues, SameException
    <2>2. \A q \in pos' + 1 .. Len(frames') : ~Stops(frames[q])
      <3>1. \A q \in pos' + 1 .. Len(frames') : q = pos \/ q \in pos + 1 .. Len(frames)
        BY <1>1, <2>1 DEF SameException
      <3> QED BY <1>3, <1>4, <3>1 DEF NothingAbove
    <2> QED BY <2>1, <2>2, SameFrames DEF NothingAbove
  <1>6. SearchOK'
    BY <1>4, <1>5 DEF SearchContinues, SearchOK
  <1> QED BY <1>2, <1>6, OutsidePhase2 DEF SearchContinues, Unwinding

\* Phase 1 ends: what is the same for a gap and a handler.
LEMMA HandlerFoundStep ==
    ASSUME IInv, pc = "search", pos > 0, HandlerFound, Stops(frames[pos])
    PROVE  /\ TypeOK' /\ SearchOK' /\ StopOK' /\ CleanupsOK' /\ PadOK' /\ EndOK'
           /\ SameException /\ stop' = pos /\ catchTemp = NoPad
           /\ pc' = "unwind" /\ throws' = throws /\ pos \in 1 .. Len(frames)
           /\ frames[pos] \in Shapes
  <1>1. pos \in 1 .. Len(frames) /\ Len(frames) \in Nat /\ frames[pos] \in Shapes
    BY FrameIsShape DEF IInv, TypeOK
  <1>2. NothingDone /\ thrown # Forced /\ NothingAbove(pos)
    BY DEF IInv, SearchOK
  <1>3. SameException /\ stop' = pos /\ pc' = "unwind" /\ throws' = throws /\ pos' = Len(frames)
    BY DEF HandlerFound, SameException
  <1>4. TypeOK'
    BY <1>1 DEF HandlerFound, IInv, TypeOK, Unwinding
  <1>5. SearchOK' /\ PadOK' /\ EndOK'
    BY <1>3 DEF SearchOK, PadOK, EndOK
  <1>6. StopOK'
    <2>1. Stops(frames[stop])' /\ \A q : Stops(frames[q])' <=> Stops(frames[q])
      BY <1>3, SameFrames
    <2>2. NothingAbove(stop)'
      BY <1>2, <1>3, <2>1 DEF NothingAbove, SameException
    <2>3. stop' <= pos' /\ stop' > 0 /\ thrown' # Forced
      BY <1>1, <1>2, <1>3 DEF SameException
    <2> QED BY <2>1, <2>2, <2>3 DEF StopOK
  <1>7. CleanupsOK'
    <2>1. cleanups' = << >> /\ DOMAIN << >> = {} /\ pos' + 1 .. Len(frames') = {}
      BY <1>1, <1>2, <1>3 DEF HandlerFound, NothingDone, SameException
    <2> QED BY <2>1 DEF CleanupsOK
  <1>8. catchTemp = NoPad
    BY <1>2 DEF NothingDone
  <1> QED BY <1>1, <1>3, <1>4, <1>5, <1>6, <1>7, <1>8

LEMMA SearchFindsGapStep == ASSUME IInv, SearchFindsGap PROVE IInv'
  <1>1. pc = "search" /\ pos > 0 /\ HandlerFound /\ Stops(frames[pos]) /\ IsGap(frames[pos])
    BY DEF SearchFindsGap, Stops
  <1>2. /\ TypeOK' /\ SearchOK' /\ StopOK' /\ CleanupsOK' /\ PadOK' /\ EndOK'
        /\ SameException /\ stop' = pos /\ catchTemp = NoPad
    BY <1>1, HandlerFoundStep
  <1>3. ~CachedHandler'
    BY <1>1, <1>2 DEF CachedHandler, SameException
  <1>4. CacheOK' /\ PointerOK'
    BY <1>2, <1>3 DEF SearchFindsGap, CacheOK, PointerOK, header, NoPad
  <1> QED BY <1>2, <1>4 DEF IInv

LEMMA SearchFindsHandlerStep == ASSUME IInv, SearchFindsHandler PROVE IInv'
  <1> DEFINE f == frames[pos]
             c == CallSite(f).chain
  <1>1. /\ pc = "search" /\ pos > 0 /\ HandlerFound /\ ~IsGap(f) /\ FoundHandler(c) = "catch"
        /\ IF IsCxx
           THEN /\ catchTemp' = Pad(pos) /\ handlerSwitchValue' = Selector(c)
                /\ adjustedPtr' = AdjustedPtr(c)
           ELSE UNCHANGED header
    BY DEF SearchFindsHandler
  <1>2. StopsAt(c) # {} /\ Stops(f)
    BY <1>1 DEF SearchFindsHandler, FoundHandler, Stops
  <1>3. /\ TypeOK' /\ SearchOK' /\ StopOK' /\ CleanupsOK' /\ PadOK' /\ EndOK'
        /\ SameException /\ stop' = pos /\ catchTemp = NoPad
        /\ pc' = "unwind" /\ throws' = throws /\ pos \in 1 .. Len(frames) /\ f \in Shapes
    BY <1>1, <1>2, HandlerFoundStep
  <1>4. PICK p : p = pos
    OBVIOUS
  <1>5. /\ StopFilter(frames[stop])' = StopFilter(frames[p])
        /\ PointerFor(frames[stop])' = PointerFor(frames[p])
        /\ CachedHandler' <=> IsCxx
    <2>1. CachedHandler' <=> IsCxx
      BY <1>1, <1>3, SameRecords DEF CachedHandler, SameException
    <2> QED BY <1>3, <1>4, <2>1, SameFrames
  <1>6. c \in Seq(ActionRecords) /\ \A j \in DOMAIN c : c[j].filter >= 0 =>
           Len(c[j].types) = IF c[j].filter = 0 THEN 0 ELSE 1
    BY <1>1, <1>3, CallSiteFacts
  <1>7. CacheOK'
    <2>1. CASE IsCxx
      <3>1. Pad(stop)' = Pad(pos)
        BY <1>3 DEF Pad
      <3>2. Selector(c) = StopFilter(f)
        BY <1>2, <1>6, SelectorIs DEF StopFilter, StopRecord
      <3> QED BY <1>1, <1>3, <1>4, <1>5, <2>1, <3>1, <3>2 DEF CacheOK
    <2>2. CASE ~IsCxx
      BY <1>1, <1>3, <1>5, <2>2 DEF CacheOK, header, NoPad
    <2> QED BY <2>1, <2>2
  <1>8. PointerOK'
    <2> SUFFICES ASSUME CachedHandler', StopFilter(frames[stop])' > 0
                 PROVE  adjustedPtr' = PointerFor(frames[stop])'
      BY DEF PointerOK
    <2>1. PICK m : m = Min(StopsAt(c))
      OBVIOUS
    <2>2. m \in DOMAIN c /\ c[m].filter > 0 /\ c[m].filter \in Int /\ PointerFor(f) = check_type_signature(c[m].types[1])
      BY <1>2, <1>4, <1>5, <1>6, <2>1, ChainFacts DEF StopFilter, StopRecord, PointerFor
    <2>3. Len(c[m].types) = 1
      <3> HIDE DEF c
      <3>1. c[m].filter >= 0 /\ c[m].filter # 0
        BY ONLY <2>2
      <3>2. Len(c[m].types) = IF c[m].filter = 0 THEN 0 ELSE 1
        BY ONLY <1>6, <2>2, <3>1
      <3> QED BY ONLY <3>1, <3>2
    <2>4. IsCxx
      BY <1>5
    <2> HIDE DEF c
    <2>5. AdjustedPtr(c) = check_type_signature(c[m].types[1])
      BY <1>2, <1>6, <2>1, <2>2, <2>3, <2>4, AdjustedForHandler
    <2> QED BY <1>1, <1>4, <1>5, <2>2, <2>4, <2>5
  <1> QED BY <1>3, <1>7, <1>8 DEF IInv

-----------------------------------------------------------------------------
(***************************************************************************)
(* Phase 2.                                                                *)
(***************************************************************************)
SameUnwinding == SameException /\ stop' = stop /\ throws' = throws

LEMMA SameStop ==
    ASSUME SameUnwinding
    PROVE  /\ IsCxx' <=> IsCxx
           /\ CachedHandler' <=> CachedHandler
           /\ Stops(frames[stop])' <=> Stops(frames[stop])
           /\ StopFilter(frames[stop])' = StopFilter(frames[stop])
           /\ PointerFor(frames[stop])' = PointerFor(frames[stop])
           /\ NothingAbove(stop)' <=> NothingAbove(stop)
           /\ SpecificationPassed' <=> SpecificationPassed
           /\ Pad(stop)' = Pad(stop)
           /\ \A q : IsCleanup(frames[q])' <=> IsCleanup(frames[q])
  <1>1. IsCxx' <=> IsCxx
    BY SameRecords DEF SameUnwinding
  <1>2. CachedHandler' <=> CachedHandler
    BY <1>1 DEF CachedHandler, SameUnwinding, SameException
  <1>3. PICK s : s = stop
    OBVIOUS
  <1>4. s = stop' /\ SameException
    BY <1>3 DEF SameUnwinding
  <1>5. /\ Stops(frames[stop])' <=> Stops(frames[s])
        /\ StopFilter(frames[stop])' = StopFilter(frames[s])
        /\ PointerFor(frames[stop])' = PointerFor(frames[s])
        /\ \A q : Stops(frames[q])' <=> Stops(frames[q])
        /\ \A q : IsCleanup(frames[q])' <=> IsCleanup(frames[q])
    BY <1>4, SameFrames
  <1>6. NothingAbove(stop)' <=> NothingAbove(stop)
    BY <1>5 DEF NothingAbove, SameUnwinding, SameException
  <1>7. SpecificationPassed' <=> SpecificationPassed
    BY DEF SpecificationPassed, SameUnwinding, SameException
  <1>8. Pad(stop)' = Pad(stop)
    BY DEF Pad, SameUnwinding
  <1> QED BY <1>1, <1>2, <1>3, <1>5, <1>6, <1>7, <1>8

\* What the invariant says of the frame that takes the exception.
LEMMA AtStop ==
    ASSUME IInv, pc \in Unwinding, stop > 0
    PROVE  /\ thrown # Forced /\ stop \in 1 .. Len(frames) /\ frames[stop] \in Shapes
           /\ Stops(frames[stop]) /\ NothingAbove(stop)
           /\ ~IsGap(frames[stop]) =>
                 /\ HasPad(frames[stop])
                 /\ Selector(CallSite(frames[stop]).chain) = StopFilter(frames[stop])
                 /\ StopFilter(frames[stop]) \in Int /\ StopFilter(frames[stop]) # 0
  <1>1. /\ thrown # Forced /\ stop \in 1 .. Len(frames) /\ frames[stop] \in Shapes
        /\ Stops(frames[stop]) /\ NothingAbove(stop)
    <2>1. stop \in 1 .. Len(frames)
      BY FrameIsShape DEF IInv, TypeOK
    <2> QED BY <2>1, FrameIsShape DEF IInv, StopOK
  <1>2. ASSUME ~IsGap(frames[stop])
        PROVE  /\ HasPad(frames[stop])
               /\ Selector(CallSite(frames[stop]).chain) = StopFilter(frames[stop])
               /\ StopFilter(frames[stop]) \in Int /\ StopFilter(frames[stop]) # 0
    <2>1. PICK c : c = CallSite(frames[stop]).chain
      OBVIOUS
    <2>2. c \in Seq(ActionRecords) /\ (c # << >> => CallSite(frames[stop]).pad)
      BY <1>1, <1>2, <2>1, CallSiteFacts
    <2>3. frames[stop].lsda /\ StopsAt(c) # {}
      BY <1>1, <1>2, <2>1 DEF Stops
    <2>4. Min(StopsAt(c)) \in StopsAt(c) /\ StopFilter(frames[stop]) = c[Min(StopsAt(c))].filter
      BY <2>1, <2>2, <2>3, ChainFacts DEF StopFilter, StopRecord
    <2>5. c # << >>
      BY <2>2, <2>4, ChainFacts
    <2>6. HasPad(frames[stop])
      BY <1>2, <2>2, <2>3, <2>5 DEF HasPad
    <2>7. Selector(c) = StopFilter(frames[stop])
      BY <2>2, <2>3, <2>4, SelectorIs
    <2> QED BY <2>1, <2>2, <2>4, <2>6, <2>7, StopFilterNotZero
  <1> QED BY <1>1, <1>2

\* Reading the action records of a frame that is left keeps the pointer.
LEMMA RereadKeeps ==
    ASSUME IInv, pc = "unwind", pos # stop, Reread(frames[pos]), CachedHandler, ~SpecificationPassed
    PROVE  adjustedPtr' = adjustedPtr
  <1>1. pos \in stop + 1 .. Len(frames) /\ pos \in 1 .. Len(frames) /\ frames[pos] \in Shapes
    <2>1. stop \in Nat /\ pos \in 0 .. Len(frames) /\ stop <= pos /\ Len(frames) \in Nat
      BY FrameIsShape DEF IInv, TypeOK, StopOK, Unwinding
    <2>2. pos \in stop + 1 .. Len(frames) /\ pos \in 1 .. Len(frames)
      BY <2>1
    <2> QED BY <2>2, FrameIsShape DEF IInv
  <1>2. ~Stops(frames[pos])
    BY <1>1, AtStop DEF CachedHandler, NothingAbove, Unwinding
  <1>3. CASE ~HasPad(frames[pos])
    BY <1>3 DEF Reread
  <1>4. CASE HasPad(frames[pos])
    <2>1. PICK c : c = CallSite(frames[pos]).chain
      OBVIOUS
    <2>2. StopsAt(c) = {} /\ ~IsGap(frames[pos])
      BY <1>2, <1>4, <2>1 DEF HasPad, Stops
    <2>3. /\ c \in Seq(ActionRecords) /\ c \in Clauses(frames[pos])
          /\ \A j \in DOMAIN c : c[j].filter >= 0 => Len(c[j].types) = IF c[j].filter = 0 THEN 0 ELSE 1
      BY <1>1, <2>1, <2>2, CallSiteFacts
    <2>4. \A j \in DOMAIN c : ~(c[j].filter < 0)
      BY <1>1, <2>3 DEF SpecificationPassed
    <2>5. \A j \in DOMAIN c : c[j].filter \in Int
      BY <2>3, ChainFacts
    <2>6. \A j \in DOMAIN c : c[j].filter >= 0 /\ (c[j].filter = 0 => Len(c[j].types) = 0)
      BY <2>3, <2>4, <2>5
    <2>7. AdjustedPtr(c) = adjustedPtr
      BY <2>2, <2>3, <2>6, AdjustedIsKept
    <2> QED BY <1>4, <2>1, <2>7 DEF Reread
  <1> QED BY <1>3, <1>4

\* What holds of the frame the unwinder is at.
LEMMA AtPos ==
    ASSUME IInv, pc \in Unwinding
    PROVE  /\ pos \in 0 .. Len(frames) /\ stop \in 0 .. Len(frames) /\ Len(frames) \in Nat
           /\ stop <= pos
           /\ pos > 0 => pos \in 1 .. Len(frames) /\ frames[pos] \in Shapes
  <1>1. pos \in 0 .. Len(frames) /\ stop \in 0 .. Len(frames) /\ Len(frames) \in Nat /\ stop <= pos
    BY FrameIsShape DEF IInv, TypeOK, StopOK
  <1>2. pos > 0 => pos \in 1 .. Len(frames)
    BY <1>1
  <1> QED BY <1>1, <1>2, FrameIsShape DEF IInv

\* The frames that have been left, when one more is.
LEMMA OneMoreLeft ==
    ASSUME IInv, pc \in Unwinding, SameUnwinding, pos' = pos - 1, pos > 0
    PROVE  {p \in pos + 1 .. Len(frames) : IsCleanup(frames[p])}' =
              {p \in pos + 1 .. Len(frames) : IsCleanup(frames[p])}
                 \cup (IF IsCleanup(frames[pos]) THEN {pos} ELSE {})
  <1>1. \A q : IsCleanup(frames[q])' <=> IsCleanup(frames[q])
    BY SameStop
  <1>2. pos \in 1 .. Len(frames) /\ Len(frames) \in Nat /\ Len(frames') = Len(frames)
    BY AtPos DEF SameUnwinding, SameException
  <1>3. PICK n : n = pos
    OBVIOUS
  <1>4. pos' + 1 .. Len(frames') = (n + 1 .. Len(frames)) \cup {n}
    BY <1>2, <1>3
  <1> QED BY <1>1, <1>3, <1>4

LEMMA UnwindContinuesStep == ASSUME IInv, UnwindContinues PROVE IInv'
  <1>1. pc = "unwind" /\ pc' = "unwind" /\ pos > 0 /\ pos # stop /\ pos' = pos - 1 /\ SameUnwinding
        /\ catchTemp' = catchTemp /\ handlerSwitchValue' = handlerSwitchValue
        /\ cleanups' = cleanups /\ ~IsCleanup(frames[pos]) /\ Reread(frames[pos])
    BY DEF UnwindContinues, SameUnwinding, SameException
  <1>2. pc \in Unwinding
    BY <1>1 DEF Unwinding
  <1>3. pos \in 1 .. Len(frames) /\ stop \in 0 .. Len(frames) /\ Len(frames) \in Nat /\ stop <= pos
    BY <1>1, <1>2, AtPos
  <1>4. TypeOK'
    BY <1>1, <1>3 DEF UnwindContinues, IInv, TypeOK
  <1>5. SearchOK' /\ PadOK' /\ EndOK'
    BY <1>1 DEF SearchOK, PadOK, EndOK
  <1>6. StopOK'
    <2>1. stop' <= pos'
      BY <1>1, <1>3 DEF SameUnwinding
    <2> QED BY <1>1, <1>2, <2>1, SameStop DEF IInv, StopOK, SameUnwinding, SameException
  <1>7. CleanupsOK'
    <2>1. {p \in pos + 1 .. Len(frames) : IsCleanup(frames[p])}' =
             {p \in pos + 1 .. Len(frames) : IsCleanup(frames[p])}
      BY <1>1, <1>2, OneMoreLeft
    <2> QED BY <1>1, <1>2, <2>1 DEF IInv, CleanupsOK
  <1>8. CacheOK'
    BY <1>1, <1>2, SameStop DEF IInv, CacheOK, NoPad
  <1>9. PointerOK'
    BY <1>1, <1>2, SameStop, RereadKeeps DEF IInv, PointerOK
  <1> QED BY <1>4, <1>5, <1>6, <1>7, <1>8, <1>9 DEF IInv

LEMMA InstallCleanupStep == ASSUME IInv, InstallCleanup PROVE IInv'
  <1>1. pc = "unwind" /\ pc' = "pad" /\ pos > 0 /\ pos # stop /\ pos' = pos /\ SameUnwinding
        /\ catchTemp' = catchTemp /\ handlerSwitchValue' = handlerSwitchValue
        /\ cleanups' = cleanups /\ IsCleanup(frames[pos]) /\ Reread(frames[pos])
        /\ ip' = Pad(pos) /\ selector' = Selector(CallSite(frames[pos]).chain)
    BY DEF InstallCleanup, SameUnwinding, SameException
  <1>2. pc \in Unwinding /\ pc' \in Unwinding
    BY <1>1 DEF Unwinding
  <1>3. pos \in 1 .. Len(frames) /\ frames[pos] \in Shapes
    BY <1>1, <1>2, AtPos
  <1>4. selector' \in Int /\ selector' <= 0 /\ (~IsCxx => selector' = 0)
    <2>1. PICK c : c = CallSite(frames[pos]).chain
      OBVIOUS
    <2>2. ~IsGap(frames[pos]) /\ StopsAt(c) = {}
      BY <1>1, <2>1 DEF IsCleanup, HasPad, FoundHandler
    <2>3. c \in Seq(ActionRecords)
      BY <1>3, <2>1, <2>2, CallSiteFacts
    <2> QED BY <1>1, <2>1, <2>2, <2>3, SelectorIs
  <1>5. TypeOK'
    BY <1>1, <1>2, <1>4 DEF InstallCleanup, IInv, TypeOK
  <1>6. SearchOK' /\ EndOK'
    BY <1>1 DEF SearchOK, EndOK
  <1>7. StopOK'
    BY <1>1, <1>2, SameStop DEF IInv, StopOK, SameUnwinding, SameException
  <1>8. CleanupsOK'
    <2>1. \A q : IsCleanup(frames[q])' <=> IsCleanup(frames[q])
      BY <1>1, SameStop
    <2>2. {p \in pos + 1 .. Len(frames) : IsCleanup(frames[p])}' =
             {p \in pos + 1 .. Len(frames) : IsCleanup(frames[p])}
      BY <1>1, <2>1 DEF SameUnwinding, SameException
    <2> QED BY <1>1, <1>2, <2>2 DEF IInv, CleanupsOK
  <1>9. CacheOK'
    BY <1>1, <1>2, SameStop DEF IInv, CacheOK, NoPad, SameUnwinding
  <1>10. PadOK'
    <2>1. HasPad(frames[pos])' /\ Pad(pos)' = Pad(pos)
      BY <1>1 DEF IsCleanup, HasPad, SameUnwinding, SameException, Pad
    <2>2. IsCleanup(frames[pos])'
      <3>1. PICK n : n = pos
        OBVIOUS
      <3>2. FoundHandler(CallSite(frames[pos]).chain)' = FoundHandler(CallSite(frames[n]).chain)
        BY <1>1, <3>1 DEF SameUnwinding, SameException, FoundHandler, StopsAt, Matching,
                          check_type_signature, IsCxx
      <3> QED BY <1>1, <2>1, <3>1, <3>2 DEF IsCleanup
    <2> QED BY <1>1, <1>4, <2>1, <2>2, SameStop DEF PadOK, SameUnwinding
  <1>11. PointerOK'
    BY <1>1, <1>2, SameStop, RereadKeeps DEF IInv, PointerOK
  <1> QED BY <1>5, <1>6, <1>7, <1>8, <1>9, <1>10, <1>11 DEF IInv

\* A step of phase 2 that stays in its frame.
LEMMA StaysInFrame ==
    ASSUME IInv, pc \in Unwinding, SameUnwinding, pos' = pos, cleanups' = cleanups
    PROVE  StopOK' /\ CleanupsOK'
  <1>1. StopOK'
    BY SameStop DEF IInv, StopOK, SameUnwinding, SameException
  <1>2. {p \in pos + 1 .. Len(frames) : IsCleanup(frames[p])}' =
           {p \in pos + 1 .. Len(frames) : IsCleanup(frames[p])}
    <2>1. \A q : IsCleanup(frames[q])' <=> IsCleanup(frames[q])
      BY SameStop
    <2> QED BY <2>1 DEF SameUnwinding, SameException
  <1> QED BY <1>1, <1>2 DEF IInv, CleanupsOK

LEMMA InstallForeignStep == ASSUME IInv, InstallForeign PROVE IInv'
  <1>1. pc = "unwind" /\ pos = stop /\ stop > 0 /\ ~IsCxx /\ SameUnwinding /\ pos' = pos
        /\ cleanups' = cleanups /\ catchTemp' = catchTemp /\ adjustedPtr' = adjustedPtr
    BY DEF InstallForeign, SameUnwinding, SameException, header
  <1>2. pc \in Unwinding /\ (pc' = "pad" \/ pc' = "nullJump")
    BY <1>1 DEF InstallForeign, Unwinding
  <1>3. StopOK' /\ CleanupsOK'
    BY <1>1, <1>2, StaysInFrame
  <1>4. ~CachedHandler /\ ~CachedHandler'
    BY <1>1, SameStop DEF CachedHandler
  <1>5. CacheOK' /\ PointerOK'
    BY <1>1, <1>2, <1>4 DEF IInv, CacheOK, PointerOK, NoPad
  <1>6. SearchOK'
    BY <1>2 DEF SearchOK
  <1>7. CASE IsGap(frames[pos])
    <2>1. pc' = "nullJump" /\ selector' = selector
      BY <1>7 DEF InstallForeign
    <2>2. TypeOK'
      BY <2>1 DEF InstallForeign, IInv, TypeOK, Unwinding
    <2>3. PadOK' /\ EndOK'
      BY <1>1, <2>1 DEF PadOK, EndOK, SameUnwinding
    <2> QED BY <1>3, <1>5, <1>6, <2>2, <2>3 DEF IInv
  <1>8. CASE ~IsGap(frames[pos])
    <2>1. pc' = "pad" /\ ip' = Pad(pos) /\ selector' = Selector(CallSite(frames[pos]).chain)
      BY <1>8 DEF InstallForeign
    <2>2. HasPad(frames[pos]) /\ selector' = StopFilter(frames[stop]) /\ selector' \in Int
      BY <1>1, <1>2, <1>8, <2>1, AtStop
    <2>3. TypeOK'
      BY <2>1, <2>2 DEF InstallForeign, IInv, TypeOK, Unwinding
    <2>4. HasPad(frames[pos])' /\ Pad(pos)' = Pad(pos)
      BY <1>1, <2>2 DEF HasPad, SameUnwinding, SameException, Pad
    <2>5. PadOK' /\ EndOK'
      BY <1>1, <2>1, <2>2, <2>4, SameStop DEF PadOK, EndOK, SameUnwinding
    <2> QED BY <1>3, <1>5, <1>6, <2>3, <2>5 DEF IInv
  <1> QED BY <1>7, <1>8

\* A cached landing pad is not null.
LEMMA PadNotNull == Pad(stop) # NoPad
  <1>1. Len(<< throws, stop >>) = 2 /\ Len(<< >>) = 0
    OBVIOUS
  <1> QED BY <1>1 DEF Pad, NoPad

LEMMA TerminateAtGapStep == ASSUME IInv, TerminateAtGap PROVE IInv'
  <1>1. pc = "unwind" /\ pos = stop /\ stop > 0 /\ IsCxx /\ SameUnwinding /\ pos' = pos
        /\ cleanups' = cleanups /\ catchTemp' = catchTemp /\ catchTemp = NoPad /\ pc' = "terminate"
    BY DEF TerminateAtGap, SameUnwinding, SameException, header
  <1>2. pc \in Unwinding /\ pc' \in Unwinding
    BY <1>1 DEF Unwinding
  <1>3. StopOK' /\ CleanupsOK'
    BY <1>1, <1>2, StaysInFrame
  <1>4. IsGap(frames[stop]) /\ ~CachedHandler
    BY <1>1, <1>2, PadNotNull DEF IInv, CacheOK, CachedHandler
  <1>5. CacheOK' /\ PointerOK'
    BY <1>1, <1>4, SameStop DEF CacheOK, PointerOK, NoPad
  <1>6. TypeOK' /\ SearchOK' /\ PadOK'
    BY <1>1, <1>2 DEF TerminateAtGap, IInv, TypeOK, SearchOK, PadOK
  <1>7. EndOK'
    <2>1. IsGap(frames[stop])' /\ IsCxx'
      BY <1>1, <1>4, SameStop DEF SameUnwinding, SameException
    <2> QED BY <1>1, <2>1 DEF EndOK, SameUnwinding
  <1> QED BY <1>3, <1>5, <1>6, <1>7 DEF IInv

LEMMA InstallHandlerStep == ASSUME IInv, InstallHandler PROVE IInv'
  <1>1. pc = "unwind" /\ pos = stop /\ stop > 0 /\ IsCxx /\ SameUnwinding /\ pos' = pos
        /\ cleanups' = cleanups /\ catchTemp' = NoPad /\ catchTemp # NoPad /\ pc' = "pad"
        /\ ip' = catchTemp /\ selector' = handlerSwitchValue /\ adjustedPtr' = adjustedPtr
    BY DEF InstallHandler, SameUnwinding, SameException
  <1>2. pc \in Unwinding /\ pc' \in Unwinding
    BY <1>1 DEF Unwinding
  <1>3. StopOK' /\ CleanupsOK'
    BY <1>1, <1>2, StaysInFrame
  <1>4. CachedHandler /\ ip' = Pad(stop) /\ selector' = StopFilter(frames[stop])
    BY <1>1, <1>2 DEF IInv, CacheOK
  <1>5. HasPad(frames[stop]) /\ selector' \in Int
    BY <1>1, <1>2, <1>4, AtStop DEF CachedHandler
  <1>6. TypeOK'
    BY <1>1, <1>2, <1>5 DEF InstallHandler, IInv, TypeOK
  <1>7. SearchOK' /\ EndOK' /\ CacheOK'
    BY <1>1 DEF SearchOK, EndOK, CacheOK, NoPad, SameUnwinding
  <1>8. PadOK'
    <2>1. HasPad(frames[pos])' /\ Pad(pos)' = Pad(stop)
      BY <1>1, <1>5 DEF HasPad, SameUnwinding, SameException, Pad
    <2> QED BY <1>1, <1>4, <2>1, SameStop DEF PadOK, SameUnwinding
  <1>9. PointerOK'
    BY <1>1, <1>2, SameStop DEF IInv, PointerOK
  <1> QED BY <1>3, <1>6, <1>7, <1>8, <1>9 DEF IInv

LEMMA LandingPadStep == ASSUME IInv, LandingPad PROVE IInv'
  <1>1. pc = "pad" /\ SameUnwinding /\ catchTemp' = catchTemp /\ selector' = selector
        /\ handlerSwitchValue' = handlerSwitchValue /\ adjustedPtr' = adjustedPtr
    BY DEF LandingPad, SameUnwinding, SameException, header
  <1>2. pc \in Unwinding
    BY <1>1 DEF Unwinding
  <1>3. /\ pos \in 1 .. Len(frames) /\ stop \in 0 .. Len(frames) /\ Len(frames) \in Nat
        /\ stop <= pos /\ selector \in Int /\ pos > 0 /\ HasPad(frames[pos])
    BY <1>1, <1>2, AtPos DEF IInv, PadOK, TypeOK
  <1>4. /\ pos = stop => selector = StopFilter(frames[stop])
        /\ pos # stop => IsCleanup(frames[pos]) /\ selector <= 0 /\ (~IsCxx => selector = 0)
    BY <1>1 DEF IInv, PadOK
  <1>5. CASE selector > 0
    <2>1. pc' = "handler" /\ pos' = pos /\ cleanups' = cleanups /\ pos = stop
      BY <1>3, <1>4, <1>5 DEF LandingPad
    <2>2. StopOK' /\ CleanupsOK'
      BY <1>1, <1>2, <2>1, StaysInFrame
    <2>3. TypeOK'
      BY <2>1 DEF LandingPad, IInv, TypeOK, Unwinding
    <2>4. SearchOK' /\ PadOK'
      BY <2>1 DEF SearchOK, PadOK
    <2>5. CacheOK'
      BY <1>1, <1>2, <2>1 DEF IInv, CacheOK, NoPad
    <2>6. PointerOK'
      BY <1>1, <1>2, SameStop DEF IInv, PointerOK
    <2>7. ~IsGap(frames[stop])'
      BY <1>1, <1>3, <2>1 DEF HasPad, SameUnwinding, SameException
    <2>8. EndOK'
      BY <1>1, <1>3, <1>4, <1>5, <2>1, <2>7, SameStop DEF EndOK, SameUnwinding
    <2> QED BY <2>2, <2>3, <2>4, <2>5, <2>6, <2>8 DEF IInv
  <1>6. CASE selector = 0
    <2>1. pc' = "unwind" /\ pos' = pos - 1 /\ cleanups' = Append(cleanups, pos)
      BY <1>3, <1>6 DEF LandingPad
    <2>2. pos # stop
      BY <1>2, <1>3, <1>4, <1>6, AtStop DEF HasPad
    <2>3. stop' <= pos' /\ pos' \in 0 .. Len(frames)
      BY <1>1, <1>3, <2>1, <2>2 DEF SameUnwinding
    <2>4. cleanups \in Seq(Nat) /\ pos \in Nat /\ cleanups' \in Seq(Nat)
      BY <1>3, <2>1 DEF IInv, TypeOK
    <2>5. TypeOK'
      BY <2>1, <2>3, <2>4 DEF LandingPad, IInv, TypeOK, Unwinding
    <2>6. SearchOK' /\ PadOK' /\ EndOK'
      BY <2>1 DEF SearchOK, PadOK, EndOK
    <2>7. StopOK'
      BY <1>1, <1>2, <2>3, SameStop DEF IInv, StopOK, SameUnwinding, SameException
    <2>8. CacheOK'
      BY <1>1, <1>2, <2>1, <2>2, SameStop DEF IInv, CacheOK, NoPad
    <2>9. PointerOK'
      BY <1>1, <1>2, SameStop DEF IInv, PointerOK
    <2>10. CleanupsOK'
      <3>1. /\ {cleanups[i] : i \in DOMAIN cleanups} = {p \in pos + 1 .. Len(frames) : IsCleanup(frames[p])}
            /\ \A i, j \in DOMAIN cleanups : i < j => cleanups[i] > cleanups[j]
        BY <1>2 DEF IInv, CleanupsOK
      <3>2. {p \in pos + 1 .. Len(frames) : IsCleanup(frames[p])}' =
               {p \in pos + 1 .. Len(frames) : IsCleanup(frames[p])} \cup {pos}
        BY <1>1, <1>2, <1>3, <1>4, <2>1, <2>2, OneMoreLeft
      <3>3. PICK n \in Nat : n = Len(cleanups)
        BY <2>4
      <3>4. /\ DOMAIN cleanups = 1 .. n /\ DOMAIN cleanups' = 1 .. n + 1
            /\ cleanups'[n + 1] = pos /\ \A i \in 1 .. n : cleanups'[i] = cleanups[i]
        BY <2>1, <2>4, <3>3
      <3>5. {cleanups'[i] : i \in DOMAIN cleanups'} = {cleanups[i] : i \in DOMAIN cleanups} \cup {pos}
        <4>1. 1 .. n + 1 = (1 .. n) \cup {n + 1}
          BY ONLY n \in Nat
        <4> QED BY <3>4, <4>1
      <3>6. \A i \in 1 .. n : cleanups[i] \in Nat /\ cleanups[i] > pos
        <4>1. \A i \in 1 .. n : cleanups[i] \in pos + 1 .. Len(frames)
          BY <3>1, <3>4
        <4> QED BY <1>3, <4>1
      <3>7. ASSUME NEW i \in DOMAIN cleanups', NEW j \in DOMAIN cleanups', i < j
            PROVE  cleanups'[i] > cleanups'[j]
        <4>1. i \in 1 .. n
          BY <3>4, <3>7
        <4>2. CASE j = n + 1
          BY <3>4, <3>6, <4>1, <4>2
        <4>3. CASE j \in 1 .. n
          BY <3>1, <3>4, <3>7, <4>1, <4>3
        <4> QED BY <3>4, <4>2, <4>3
      <3> QED BY <3>1, <3>2, <3>5, <3>7 DEF CleanupsOK
    <2> QED BY <2>5, <2>6, <2>7, <2>8, <2>9, <2>10 DEF IInv
  <1>7. CASE selector < 0
    <2>1. pc' = "unexpected" /\ pos' = pos /\ cleanups' = cleanups
      BY <1>3, <1>7 DEF LandingPad
    <2>2. TypeOK' /\ SearchOK'
      BY <2>1 DEF LandingPad, IInv, TypeOK, SearchOK
    <2>3. thrown # Forced
      <3> SUFFICES ASSUME thrown = Forced PROVE FALSE
        OBVIOUS
      <3>1. stop = 0 /\ ~IsCxx
        BY <1>2, PersonalityAssumption DEF IInv, StopOK, IsCxx
      <3> QED BY <1>3, <1>4, <1>7, <3>1
    <2> QED BY <1>1, <2>1, <2>2, <2>3, OutsidePhase2 DEF Unwinding, SameUnwinding, SameException
  <1> QED BY <1>3, <1>5, <1>6, <1>7

LEMMA NextInv == IInv /\ [Next]_vars => IInv'
  <1> SUFFICES ASSUME IInv, [Next]_vars PROVE IInv'
    OBVIOUS
  <1>1. CASE UNCHANGED vars
    <2>1. SameUnwinding /\ pos' = pos /\ cleanups' = cleanups /\ pc' = pc /\ throws' = throws
          /\ selector' = selector /\ ip' = ip /\ stop' = stop
          /\ catchTemp' = catchTemp /\ handlerSwitchValue' = handlerSwitchValue /\ adjustedPtr' = adjustedPtr
      BY <1>1 DEF vars, header, SameUnwinding, SameException
    <2>2. TypeOK'
      BY <1>1 DEF vars, IInv, TypeOK
    <2>3. CASE pc \notin Unwinding
      <3>1. SearchOK'
        <4>1. NothingAbove(pos)' <=> NothingAbove(pos)
          BY <2>1, SameFrames DEF NothingAbove, SameUnwinding, SameException
        <4>2. NothingDone' <=> NothingDone
          BY <2>1 DEF NothingDone, NoPad
        <4> QED BY <2>1, <4>1, <4>2 DEF IInv, SearchOK, SameUnwinding, SameException
      <3> QED BY <2>1, <2>2, <2>3, <3>1, OutsidePhase2 DEF IInv, EndOK, SameUnwinding, SameException
    <2>4. CASE pc \in Unwinding
      <3>1. StopOK' /\ CleanupsOK'
        BY <2>1, <2>4, StaysInFrame
      <3>2. SearchOK'
        BY <2>1, <2>4 DEF SearchOK, Unwinding
      <3>3. CacheOK' /\ PointerOK'
        BY <2>1, <2>4, SameStop DEF IInv, CacheOK, PointerOK, NoPad
      <3>4. EndOK'
        <4>1. IsGap(frames[stop])' <=> IsGap(frames[stop])
          BY <2>1 DEF SameUnwinding, SameException
        <4> QED BY <2>1, <2>4, <4>1, SameStop DEF IInv, EndOK, SameUnwinding, SameException
      <3>5. PadOK'
        <4>1. HasPad(frames[pos])' <=> HasPad(frames[pos])
          BY <2>1 DEF HasPad, SameUnwinding, SameException
        <4>2. IsCleanup(frames[pos])' <=> IsCleanup(frames[pos])
          BY <2>1, <4>1, SameRecords DEF IsCleanup, SameUnwinding, SameException, FoundHandler, StopsAt,
                                         Matching, check_type_signature, IsCxx
        <4>3. Pad(pos)' = Pad(pos)
          BY <2>1 DEF Pad
        <4> QED BY <2>1, <4>1, <4>2, <4>3, SameStop DEF IInv, PadOK
      <3> QED BY <2>2, <3>1, <3>2, <3>3, <3>4, <3>5 DEF IInv
    <2> QED BY <2>3, <2>4
  <1>2. CASE Next
    BY <1>2, CallStep, RethrowStep, ThrowStep, SearchContinuesStep, SearchFindsGapStep,
       SearchFindsHandlerStep, EndStep, UnwindContinuesStep, InstallCleanupStep, InstallForeignStep,
       TerminateAtGapStep, InstallHandlerStep, LandingPadStep DEF Next
  <1> QED BY <1>1, <1>2

-----------------------------------------------------------------------------
(***************************************************************************)
(* The personality function (__gxx_personality_v0) keeps what phase 1 left *)
(* in the header of the exception in step with what phase 2 has done: the  *)
(* inductive invariant holds of every behaviour.                           *)
(***************************************************************************)
THEOREM UnwindingInvariant == Spec => []IInv
  BY InitInv, NextInv, PTL DEF Spec

(***************************************************************************)
(* A landing pad is entered only in the frame and for the throw it belongs *)
(* to (catchTemp, saveLandingPad and loadLandingPad), however often the    *)
(* exception is rethrown and however deep the stack is.                    *)
(***************************************************************************)
THEOREM LandingPadNeverStale == Spec => []NoStaleLandingPad
  <1>1. IInv => NoStaleLandingPad
    BY DEF IInv, PadOK, NoStaleLandingPad
  <1> QED BY <1>1, UnwindingInvariant, PTL

LEMMA CleanupsFromInv == ASSUME IInv PROVE CleanupsRun
  <1>1. pc = "uncaught" => cleanups = << >>
    BY DEF IInv, SearchOK, NothingDone
  <1>2. ASSUME pc \in {"handler", "terminate", "nullJump"}
        PROVE  /\ {cleanups[i] : i \in DOMAIN cleanups} =
                     {p \in stop + 1 .. Len(frames) : HasCleanup(frames[p])}
               /\ \A i, j \in DOMAIN cleanups : i < j => cleanups[i] > cleanups[j]
    <2>1. pc \in Unwinding /\ pos = stop /\ stop > 0
      BY <1>2 DEF IInv, EndOK, Unwinding
    <2>2. NothingAbove(stop) /\ stop \in 1 .. Len(frames) /\ Len(frames) \in Nat
      BY <2>1, AtStop, AtPos
    <2>3. \A p \in stop + 1 .. Len(frames) : IsCleanup(frames[p]) <=> HasCleanup(frames[p])
      <3>1. ASSUME NEW p \in stop + 1 .. Len(frames)
            PROVE  IsCleanup(frames[p]) <=> HasCleanup(frames[p])
        <4>1. p \in 1 .. Len(frames)
          BY <2>2
        <4>2. frames[p] \in Shapes /\ ~Stops(frames[p])
          BY <2>2, <4>1, FrameIsShape DEF IInv, NothingAbove
        <4> QED BY <4>2, CleanupAgrees
      <3> QED BY <3>1
    <2> QED BY <2>1, <2>3 DEF IInv, CleanupsOK
  <1> QED BY <1>1, <1>2 DEF CleanupsRun

(***************************************************************************)
(* The cleanups of all frames between the throw and the frame that takes   *)
(* the exception run, once each and innermost first, before control gets   *)
(* there, and none runs for an exception nobody takes: phase 2 answers     *)
(* with the cleanup handler for every frame whose tables have one.         *)
(***************************************************************************)
THEOREM CleanupsAlwaysRun == Spec => []CleanupsRun
  BY CleanupsFromInv, UnwindingInvariant, PTL

-----------------------------------------------------------------------------
(***************************************************************************)
(* Casts. The searches of __do_upcast and of Subobjects are recursive      *)
(* functions over the classes; they are well defined because the bases of  *)
(* a class have a smaller rank, and what they compute is shown by looking  *)
(* at a class of smallest rank for which it would be wrong.                *)
(***************************************************************************)
IsRank(H, rank) ==
    /\ H \in [DOMAIN H -> Seq([base : DOMAIN H, virtual : BOOLEAN])]
    /\ rank \in [DOMAIN H -> Nat]
    /\ \A c \in DOMAIN H : \A i \in DOMAIN H[c] :
          H[c][i].base \in DOMAIN H /\ rank[H[c][i].base] < rank[c]

RankBelow(H, rank, n) == {c \in DOMAIN H : rank[c] < n}

\* One step of each search, for the results f for the bases.
Hits(H, c, f) == {i \in DOMAIN H[c] : f[H[c][i].base] # None}
UpStep(H, t, c, f) ==
    IF c = t THEN Here
    ELSE IF Hits(H, c, f) = {} THEN None
    ELSE Through(H[c][Min(Hits(H, c, f))], f[H[c][Min(Hits(H, c, f))].base])
SubStep(H, c, f) ==
    {Here} \cup UNION {{Through(H[c][i], r) : r \in f[H[c][i].base]} : i \in DOMAIN H[c]}

LEMMA MinHit ==
    ASSUME NEW H, NEW c, NEW f, H[c] \in Seq([base : DOMAIN H, virtual : BOOLEAN]), Hits(H, c, f) # {}
    PROVE  Min(Hits(H, c, f)) \in Hits(H, c, f)
  <1>1. Hits(H, c, f) \in SUBSET Nat
    BY DEF Hits
  <1> QED
    BY <1>1, MinIs

LEMMA UpStepSame ==
    ASSUME NEW H, NEW rank, IsRank(H, rank), NEW t, NEW c \in DOMAIN H, NEW f, NEW g,
           \A i \in DOMAIN H[c] : f[H[c][i].base] = g[H[c][i].base]
    PROVE  UpStep(H, t, c, f) = UpStep(H, t, c, g)
  <1>1. Hits(H, c, f) = Hits(H, c, g)
    BY DEF Hits
  <1>2. CASE Hits(H, c, g) = {}
    BY <1>1, <1>2 DEF UpStep
  <1>3. CASE Hits(H, c, g) # {}
    <2>1. PICK m : m = Min(Hits(H, c, g))
      OBVIOUS
    <2> H[c] \in Seq([base : DOMAIN H, virtual : BOOLEAN])
      BY DEF IsRank
    <2>2. m \in DOMAIN H[c]
      BY <1>3, <2>1, MinHit DEF Hits
    <2>3. f[H[c][m].base] = g[H[c][m].base]
      BY <2>2
    <2> QED
      BY <1>1, <2>1, <2>3 DEF UpStep
  <1> QED
    BY <1>2, <1>3

LEMMA SubStepSame ==
    ASSUME NEW H, NEW rank, IsRank(H, rank), NEW c \in DOMAIN H, NEW f, NEW g,
           \A i \in DOMAIN H[c] : f[H[c][i].base] = g[H[c][i].base]
    PROVE  SubStep(H, c, f) = SubStep(H, c, g)
  <1>1. \A i \in DOMAIN H[c] : {Through(H[c][i], r) : r \in f[H[c][i].base]}
                             = {Through(H[c][i], r) : r \in g[H[c][i].base]}
    OBVIOUS
  <1>2. {{Through(H[c][i], r) : r \in f[H[c][i].base]} : i \in DOMAIN H[c]}
      = {{Through(H[c][i], r) : r \in g[H[c][i].base]} : i \in DOMAIN H[c]}
    BY <1>1
  <1> QED
    BY <1>2 DEF SubStep

\* The search is defined for the classes of rank below n, for every n.
LEMMA UpDefinedBelow ==
    ASSUME NEW H, NEW rank, IsRank(H, rank), NEW t
    PROVE  \A n \in Nat : \E f : f = [c \in RankBelow(H, rank, n) |-> UpStep(H, t, c, f)]
  <1> DEFINE Bad == {n \in Nat : ~ \E f : f = [c \in RankBelow(H, rank, n) |-> UpStep(H, t, c, f)]}
  <1> SUFFICES ASSUME Bad # {} PROVE FALSE
    OBVIOUS
  <1>1. PICK m \in Bad : \A y \in Bad : ~(<<y, m>> \in OpToRel(<, Nat))
    BY NatLessThanWellFounded, WFMin
  <1>2. \A y \in Bad : ~(y < m)
    BY <1>1 DEF OpToRel
  <1>3. m # 0
    <2>1. SUFFICES ASSUME m = 0 PROVE FALSE
      OBVIOUS
    <2>2. RankBelow(H, rank, 0) = {}
      BY DEF RankBelow, IsRank
    <2>3. PICK f : f = [c \in {} |-> Here]
      OBVIOUS
    <2>4. f = [c \in {} |-> UpStep(H, t, c, f)]
      BY <2>3, Zenon
    <2> QED
      BY <2>1, <2>2, <2>4
  <1>4. m - 1 \in Nat /\ m - 1 < m
    BY <1>3
  <1>5. PICK f : f = [c \in RankBelow(H, rank, m - 1) |-> UpStep(H, t, c, f)]
    BY <1>2, <1>4
  <1>6. PICK g : g = [c \in RankBelow(H, rank, m) |-> UpStep(H, t, c, f)]
    OBVIOUS
  <1>7. ASSUME NEW c \in RankBelow(H, rank, m) PROVE UpStep(H, t, c, f) = UpStep(H, t, c, g)
    <2>1. c \in DOMAIN H /\ rank[c] < m
      BY <1>7 DEF RankBelow
    <2>2. ASSUME NEW i \in DOMAIN H[c] PROVE f[H[c][i].base] = g[H[c][i].base]
      <3>1. H[c][i].base \in RankBelow(H, rank, m - 1) /\ H[c][i].base \in RankBelow(H, rank, m)
        BY <1>4, <2>1, <2>2 DEF IsRank, RankBelow
      <3>2. f[H[c][i].base] = UpStep(H, t, H[c][i].base, f)
        BY <1>5, <3>1, Zenon
      <3>3. g[H[c][i].base] = UpStep(H, t, H[c][i].base, f)
        BY <1>6, <3>1, Zenon
      <3> QED
        BY <3>2, <3>3
    <2> QED
      BY <2>1, <2>2, UpStepSame
  <1>8. g = [c \in RankBelow(H, rank, m) |-> UpStep(H, t, c, g)]
    BY <1>6, <1>7
  <1> QED
    BY <1>8

LEMMA WaysDefinedBelow ==
    ASSUME NEW H, NEW rank, IsRank(H, rank)
    PROVE  \A n \in Nat : \E f : f = [c \in RankBelow(H, rank, n) |-> SubStep(H, c, f)]
  <1> DEFINE Bad == {n \in Nat : ~ \E f : f = [c \in RankBelow(H, rank, n) |-> SubStep(H, c, f)]}
  <1> SUFFICES ASSUME Bad # {} PROVE FALSE
    OBVIOUS
  <1>1. PICK m \in Bad : \A y \in Bad : ~(<<y, m>> \in OpToRel(<, Nat))
    BY NatLessThanWellFounded, WFMin
  <1>2. \A y \in Bad : ~(y < m)
    BY <1>1 DEF OpToRel
  <1>3. m # 0
    <2>1. SUFFICES ASSUME m = 0 PROVE FALSE
      OBVIOUS
    <2>2. RankBelow(H, rank, 0) = {}
      BY DEF RankBelow, IsRank
    <2>3. PICK f : f = [c \in {} |-> Here]
      OBVIOUS
    <2>4. f = [c \in {} |-> SubStep(H, c, f)]
      BY <2>3, Zenon
    <2> QED
      BY <2>1, <2>2, <2>4
  <1>4. m - 1 \in Nat /\ m - 1 < m
    BY <1>3
  <1>5. PICK f : f = [c \in RankBelow(H, rank, m - 1) |-> SubStep(H, c, f)]
    BY <1>2, <1>4
  <1>6. PICK g : g = [c \in RankBelow(H, rank, m) |-> SubStep(H, c, f)]
    OBVIOUS
  <1>7. ASSUME NEW c \in RankBelow(H, rank, m) PROVE SubStep(H, c, f) = SubStep(H, c, g)
    <2>1. c \in DOMAIN H /\ rank[c] < m
      BY <1>7 DEF RankBelow
    <2>2. ASSUME NEW i \in DOMAIN H[c] PROVE f[H[c][i].base] = g[H[c][i].base]
      <3>1. H[c][i].base \in RankBelow(H, rank, m - 1) /\ H[c][i].base \in RankBelow(H, rank, m)
        BY <1>4, <2>1, <2>2 DEF IsRank, RankBelow
      <3>2. f[H[c][i].base] = SubStep(H, H[c][i].base, f)
        BY <1>5, <3>1, Zenon
      <3>3. g[H[c][i].base] = SubStep(H, H[c][i].base, f)
        BY <1>6, <3>1, Zenon
      <3> QED
        BY <3>2, <3>3
    <2> QED
      BY <2>1, <2>2, SubStepSame
  <1>8. g = [c \in RankBelow(H, rank, m) |-> SubStep(H, c, g)]
    BY <1>6, <1>7
  <1> QED
    BY <1>8

LEMMA SeqElement ==
    ASSUME NEW S, NEW s \in Seq(S), NEW i \in DOMAIN s
    PROVE  s[i] \in S
  OBVIOUS

\* A rank that all classes of the hierarchy are below.
LEMMA HasRank ==
    ASSUME NEW H, IsHierarchy(H)
    PROVE  \E rank, n : IsRank(H, rank) /\ n \in Nat /\ RankBelow(H, rank, n) = DOMAIN H
  <1>1. PICK rank \in [DOMAIN H -> 0 .. Cardinality(DOMAIN H)] :
            \A c \in DOMAIN H : \A i \in DOMAIN H[c] : rank[H[c][i].base] < rank[c]
    BY DEF IsHierarchy
  <1>2. Cardinality(DOMAIN H) \in Nat
    BY FS_CardinalityType DEF IsHierarchy
  <1>3. \A c \in DOMAIN H : \A i \in DOMAIN H[c] : H[c][i].base \in DOMAIN H
    <2> SUFFICES ASSUME NEW c \in DOMAIN H, NEW i \in DOMAIN H[c] PROVE H[c][i].base \in DOMAIN H
      OBVIOUS
    <2>1. H \in [DOMAIN H -> Seq([base : DOMAIN H, virtual : BOOLEAN])]
      BY DEF IsHierarchy
    <2>2. H[c] \in Seq([base : DOMAIN H, virtual : BOOLEAN])
      BY <2>1
    <2>3. H[c][i] \in [base : DOMAIN H, virtual : BOOLEAN]
      BY ONLY <2>2, i \in DOMAIN H[c], SeqElement, Zenon
    <2> QED
      BY <2>3
  <1>4. IsRank(H, rank)
    <2>1. rank \in [DOMAIN H -> Nat]
      BY <1>1, <1>2
    <2>2. H \in [DOMAIN H -> Seq([base : DOMAIN H, virtual : BOOLEAN])]
      BY DEF IsHierarchy
    <2> QED
      BY <1>1, <1>3, <2>1, <2>2 DEF IsRank
  <1>5. PICK n : n = Cardinality(DOMAIN H) + 1
    OBVIOUS
  <1>6. n \in Nat
    BY <1>2, <1>5
  <1>7. ASSUME NEW c \in DOMAIN H PROVE rank[c] < n
    <2>1. rank[c] \in 0 .. Cardinality(DOMAIN H)
      BY <1>1
    <2> QED
      BY <1>2, <1>5, <2>1
  <1>8. RankBelow(H, rank, n) = DOMAIN H
    BY <1>7 DEF RankBelow
  <1> QED
    BY <1>6, <1>4, <1>8

LEMMA UpUnfolds ==
    ASSUME NEW H, IsHierarchy(H), NEW t, NEW c \in DOMAIN H
    PROVE  do_upcast(H, t)[c] = UpStep(H, t, c, do_upcast(H, t))
  <1>1. PICK rank, n : IsRank(H, rank) /\ n \in Nat /\ RankBelow(H, rank, n) = DOMAIN H
    BY HasRank
  <1>3. \E f : f = [k \in DOMAIN H |-> UpStep(H, t, k, f)]
    <2>1. \A m \in Nat : \E f : f = [k \in RankBelow(H, rank, m) |-> UpStep(H, t, k, f)]
      BY <1>1, UpDefinedBelow
    <2>2. \E f : f = [k \in RankBelow(H, rank, n) |-> UpStep(H, t, k, f)]
      BY <1>1, <2>1
    <2> QED
      BY <1>1, <2>2
  <1>4. do_upcast(H, t) = CHOOSE f : f = [k \in DOMAIN H |-> UpStep(H, t, k, f)]
    BY DEF do_upcast, UpStep, Hits
  <1>5. do_upcast(H, t) = [k \in DOMAIN H |-> UpStep(H, t, k, do_upcast(H, t))]
    BY <1>3, <1>4, Zenon
  <1> QED
    BY <1>5, Zenon

LEMMA WaysUnfold ==
    ASSUME NEW H, IsHierarchy(H), NEW c \in DOMAIN H
    PROVE  Ways(H)[c] = SubStep(H, c, Ways(H))
  <1>1. PICK rank, n : IsRank(H, rank) /\ n \in Nat /\ RankBelow(H, rank, n) = DOMAIN H
    BY HasRank
  <1>3. \E f : f = [k \in DOMAIN H |-> SubStep(H, k, f)]
    <2>1. \A m \in Nat : \E f : f = [k \in RankBelow(H, rank, m) |-> SubStep(H, k, f)]
      BY <1>1, WaysDefinedBelow
    <2>2. \E f : f = [k \in RankBelow(H, rank, n) |-> SubStep(H, k, f)]
      BY <1>1, <2>1
    <2> QED
      BY <1>1, <2>2
  <1>4. Ways(H) = CHOOSE f : f = [k \in DOMAIN H |-> SubStep(H, k, f)]
    BY DEF Ways, SubStep
  <1>5. Ways(H) = [k \in DOMAIN H |-> SubStep(H, k, Ways(H))]
    BY <1>3, <1>4, Zenon
  <1> QED
    BY <1>5, Zenon

\* A way that leaves its class over a virtual base has the bases after it.
IsWay(H, r) ==
    r \in [virtual : BOOLEAN, path : Seq(DOMAIN H)] /\ (r.virtual => r.path # << >>)

\* The class where the way r from class c ends.
EndOf(c, r) == IF r.path = << >> THEN c ELSE r.path[Len(r.path)]

LEMMA HereIsWay ==
    ASSUME NEW H, NEW c PROVE IsWay(H, Here) /\ EndOf(c, Here) = c
  BY DEF IsWay, EndOf, Here

LEMMA NoneIsNoWay ==
    ASSUME NEW H, IsHierarchy(H) PROVE ~IsWay(H, None) /\ None # Here
  <1>1. "none" \notin DOMAIN H
    BY DEF IsHierarchy
  <1>2. << "none" >> \notin Seq(DOMAIN H)
    BY <1>1
  <1>3. None.path = << "none" >> /\ Here.path = << >>
    BY DEF None, Here
  <1>4. << "none" >> # << >>
    OBVIOUS
  <1> QED
    BY <1>2, <1>3, <1>4 DEF IsWay

LEMMA ThroughWay ==
    ASSUME NEW H, NEW b \in [base : DOMAIN H, virtual : BOOLEAN], NEW r, IsWay(H, r), NEW c
    PROVE  IsWay(H, Through(b, r)) /\ EndOf(c, Through(b, r)) = EndOf(b.base, r)
  <1>1. CASE r.virtual
    BY <1>1 DEF IsWay, Through, EndOf
  <1>2. CASE ~r.virtual
    <2>1. PICK p : p = << b.base >> \o r.path
      OBVIOUS
    <2>2. Through(b, r) = [virtual |-> b.virtual, path |-> p]
      BY <1>2, <2>1 DEF Through
    <2>3. r.path \in Seq(DOMAIN H) /\ << b.base >> \in Seq(DOMAIN H)
      BY DEF IsWay
    <2>4. p \in Seq(DOMAIN H) /\ Len(p) = Len(r.path) + 1
      BY <2>1, <2>3
    <2>5. p # << >>
      BY <2>4, <2>3
    <2>6. IsWay(H, Through(b, r))
      BY <2>2, <2>4, <2>5 DEF IsWay
    <2>7. p[Len(p)] = EndOf(b.base, r)
      <3>1. CASE r.path = << >>
        BY <2>1, <2>3, <2>4, <3>1 DEF EndOf
      <3>2. CASE r.path # << >>
        <4>1. Len(r.path) > 0
          BY <2>3, <3>2
        <4>2. p[Len(r.path) + 1] = r.path[Len(r.path)]
          BY <2>1, <2>3, <4>1
        <4> QED
          BY <2>4, <3>2, <4>2 DEF EndOf
      <3> QED
        BY <3>1, <3>2
    <2>8. EndOf(c, Through(b, r)) = p[Len(p)]
      BY <2>2, <2>5 DEF EndOf
    <2> QED
      BY <2>6, <2>7, <2>8
  <1> QED
    BY <1>1, <1>2

\* The members of one step of Ways.
LEMMA SubStepMember ==
    ASSUME NEW H, NEW c, NEW f, NEW w
    PROVE  w \in SubStep(H, c, f) <=>
              w = Here \/ \E i \in DOMAIN H[c] : \E r \in f[H[c][i].base] : w = Through(H[c][i], r)
  BY DEF SubStep

LEMMA BaseRecord ==
    ASSUME NEW H, NEW rank, IsRank(H, rank), NEW c \in DOMAIN H, NEW i \in DOMAIN H[c]
    PROVE  /\ H[c][i] \in [base : DOMAIN H, virtual : BOOLEAN]
           /\ H[c][i].base \in DOMAIN H
           /\ rank[H[c][i].base] \in Nat /\ rank[c] \in Nat
           /\ rank[H[c][i].base] < rank[c]
  <1>1. H[c] \in Seq([base : DOMAIN H, virtual : BOOLEAN])
    BY DEF IsRank
  <1>2. H[c][i] \in [base : DOMAIN H, virtual : BOOLEAN]
    BY ONLY <1>1, i \in DOMAIN H[c], SeqElement, Zenon
  <1> QED
    BY <1>2 DEF IsRank

\* A set of classes that is not empty has a class of smallest rank.
LEMMA SmallestRank ==
    ASSUME NEW H, NEW rank, IsRank(H, rank), NEW B \in SUBSET DOMAIN H, B # {}
    PROVE  \E c \in B : \A d \in B : ~(rank[d] < rank[c])
  <1>1. PICK R : R = {rank[d] : d \in B}
    OBVIOUS
  <1>2. R \in SUBSET Nat /\ R # {}
    BY <1>1 DEF IsRank
  <1>3. PICK m \in R : \A y \in R : ~(<<y, m>> \in OpToRel(<, Nat))
    BY <1>2, NatLessThanWellFounded, WFMin
  <1>4. \A y \in R : ~(y < m)
    BY <1>2, <1>3 DEF OpToRel
  <1>5. PICK c \in B : m = rank[c]
    BY <1>1, <1>3
  <1> QED
    BY <1>1, <1>4, <1>5

LEMMA WaysAreWays ==
    ASSUME NEW H, IsHierarchy(H), NEW k \in DOMAIN H, NEW w \in Ways(H)[k]
    PROVE  IsWay(H, w)
  <1>1. PICK rank, n : IsRank(H, rank) /\ n \in Nat /\ RankBelow(H, rank, n) = DOMAIN H
    BY HasRank
  <1>2. PICK B : B = {c \in DOMAIN H : \E r \in Ways(H)[c] : ~IsWay(H, r)}
    OBVIOUS
  <1>3. SUFFICES ASSUME B # {} PROVE FALSE
    BY <1>2
  <1>4. PICK c \in B : \A d \in B : ~(rank[d] < rank[c])
    BY <1>1, <1>2, <1>3, SmallestRank
  <1>5. c \in DOMAIN H
    BY <1>2, <1>4
  <1>6. PICK r \in Ways(H)[c] : ~IsWay(H, r)
    BY <1>2, <1>4
  <1>7. r \in SubStep(H, c, Ways(H))
    BY <1>5, <1>6, WaysUnfold
  <1>8. r # Here
    BY <1>6, HereIsWay
  <1>9. PICK i \in DOMAIN H[c] : \E q \in Ways(H)[H[c][i].base] : r = Through(H[c][i], q)
    BY <1>7, <1>8, SubStepMember
  <1>10. PICK q \in Ways(H)[H[c][i].base] : r = Through(H[c][i], q)
    BY <1>9
  <1>11. H[c][i].base \in DOMAIN H /\ rank[H[c][i].base] < rank[c] /\ H[c][i] \in [base : DOMAIN H, virtual : BOOLEAN]
    BY <1>1, <1>5, BaseRecord
  <1>12. IsWay(H, q)
    BY <1>2, <1>4, <1>11
  <1> QED
    BY <1>6, <1>10, <1>11, <1>12, ThroughWay

\* The answer of __do_upcast for class c: a way to the target, or there is none.
UpIsRight(H, t, c) ==
    IF do_upcast(H, t)[c] = None THEN \A w \in Ways(H)[c] : EndOf(c, w) # t
    ELSE do_upcast(H, t)[c] \in Ways(H)[c] /\ EndOf(c, do_upcast(H, t)[c]) = t

\* Followed once more through the base records of c.
LEMMA UpStepRight ==
    ASSUME NEW H, IsHierarchy(H), NEW rank, IsRank(H, rank), NEW t, NEW c \in DOMAIN H,
           \A i \in DOMAIN H[c] : UpIsRight(H, t, H[c][i].base)
    PROVE  UpIsRight(H, t, c)
  <1>1. PICK up : up = do_upcast(H, t)
    OBVIOUS
  <1>2. up[c] = UpStep(H, t, c, up)
    BY <1>1, UpUnfolds
  <1>3. \A w : w \in Ways(H)[c] <=>
              w = Here \/ \E i \in DOMAIN H[c] : \E r \in Ways(H)[H[c][i].base] : w = Through(H[c][i], r)
    BY WaysUnfold, SubStepMember
  <1>4. CASE c = t
    <2>1. up[c] = Here
      BY <1>2, <1>4 DEF UpStep
    <2> QED
      BY <1>1, <1>3, <1>4, <2>1, HereIsWay, NoneIsNoWay DEF UpIsRight
  <1>5. CASE c # t /\ Hits(H, c, up) = {}
    <2>1. up[c] = None
      BY <1>2, <1>5 DEF UpStep
    <2>2. ASSUME NEW w \in Ways(H)[c] PROVE EndOf(c, w) # t
      <3>1. CASE w = Here
        BY <1>5, <3>1, HereIsWay
      <3>2. CASE w # Here
        <4>1. PICK i \in DOMAIN H[c] : \E r \in Ways(H)[H[c][i].base] : w = Through(H[c][i], r)
          BY <1>3, <3>2
        <4>2. PICK r \in Ways(H)[H[c][i].base] : w = Through(H[c][i], r)
          BY <4>1
        <4>3. up[H[c][i].base] = None
          BY <1>5 DEF Hits
        <4>4. EndOf(H[c][i].base, r) # t
          BY <1>1, <4>3 DEF UpIsRight
        <4>5. H[c][i] \in [base : DOMAIN H, virtual : BOOLEAN] /\ H[c][i].base \in DOMAIN H
          BY BaseRecord
        <4>6. IsWay(H, r)
          BY <4>5, WaysAreWays
        <4>7. EndOf(c, Through(H[c][i], r)) = EndOf(H[c][i].base, r)
          BY <4>5, <4>6, ThroughWay
        <4> QED
          BY <4>2, <4>4, <4>7
      <3> QED
        BY <3>1, <3>2
    <2> QED
      BY <1>1, <2>1, <2>2 DEF UpIsRight
  <1>6. CASE c # t /\ Hits(H, c, up) # {}
    <2>1. PICK m : m = Min(Hits(H, c, up))
      OBVIOUS
    <2>2. H[c] \in Seq([base : DOMAIN H, virtual : BOOLEAN])
      BY DEF IsRank
    <2>3. m \in DOMAIN H[c] /\ up[H[c][m].base] # None
      <3>1. m \in Hits(H, c, up)
        BY <1>6, <2>1, <2>2, MinHit
      <3> QED
        BY <3>1 DEF Hits
    <2>4. PICK r : r = up[H[c][m].base]
      OBVIOUS
    <2>5. up[c] = Through(H[c][m], r)
      BY <1>2, <1>6, <2>1, <2>4 DEF UpStep
    <2>6. r \in Ways(H)[H[c][m].base] /\ EndOf(H[c][m].base, r) = t
      BY <1>1, <2>3, <2>4 DEF UpIsRight
    <2>7. H[c][m] \in [base : DOMAIN H, virtual : BOOLEAN] /\ H[c][m].base \in DOMAIN H
      BY <2>3, BaseRecord
    <2>8. IsWay(H, r)
      BY <2>6, <2>7, WaysAreWays
    <2>9. IsWay(H, up[c]) /\ EndOf(c, up[c]) = t
      <3>1. IsWay(H, Through(H[c][m], r)) /\ EndOf(c, Through(H[c][m], r)) = EndOf(H[c][m].base, r)
        BY <2>7, <2>8, ThroughWay
      <3> QED
        BY <2>5, <2>6, <3>1
    <2>10. up[c] # None
      BY <2>9, NoneIsNoWay
    <2>11. up[c] \in Ways(H)[c]
      BY <1>3, <2>3, <2>5, <2>6
    <2> QED
      BY <1>1, <2>9, <2>10, <2>11 DEF UpIsRight
  <1> QED
    BY <1>4, <1>5, <1>6

LEMMA UpRight ==
    ASSUME NEW H, IsHierarchy(H), NEW t, NEW k \in DOMAIN H
    PROVE  UpIsRight(H, t, k)
  <1>1. PICK rank, n : IsRank(H, rank) /\ n \in Nat /\ RankBelow(H, rank, n) = DOMAIN H
    BY HasRank
  <1>2. PICK B : B = {c \in DOMAIN H : ~UpIsRight(H, t, c)}
    OBVIOUS
  <1>3. SUFFICES ASSUME B # {} PROVE FALSE
    BY <1>2
  <1>4. PICK c \in B : \A d \in B : ~(rank[d] < rank[c])
    BY <1>1, <1>2, <1>3, SmallestRank
  <1>5. c \in DOMAIN H
    BY <1>2, <1>4
  <1>6. ASSUME NEW i \in DOMAIN H[c] PROVE UpIsRight(H, t, H[c][i].base)
    <2>1. H[c][i].base \in DOMAIN H /\ rank[H[c][i].base] < rank[c]
      BY <1>1, <1>5, BaseRecord
    <2> QED
      BY <1>2, <1>4, <2>1
  <1> QED
    <2>1. ~UpIsRight(H, t, c)
      BY <1>2, <1>4
    <2> QED
      BY <1>1, <1>5, <1>6, <2>1, UpStepRight

\* The pointer at the end of a way.
LEMMA AdjustEnds ==
    ASSUME NEW H, NEW c \in DOMAIN H, NEW r, IsWay(H, r)
    PROVE  /\ Adjust(<< c >>, r) \in Seq(DOMAIN H) /\ Adjust(<< c >>, r) # << >>
           /\ Adjust(<< c >>, r)[Len(Adjust(<< c >>, r))] = EndOf(c, r)
  <1>1. CASE r.virtual
    BY <1>1 DEF IsWay, Adjust, EndOf
  <1>2. CASE ~r.virtual
    <2>1. PICK p : p = << c >> \o r.path
      OBVIOUS
    <2>2. Adjust(<< c >>, r) = p
      BY <1>2, <2>1 DEF Adjust
    <2>3. r.path \in Seq(DOMAIN H) /\ << c >> \in Seq(DOMAIN H)
      BY DEF IsWay
    <2>4. p \in Seq(DOMAIN H) /\ Len(p) = Len(r.path) + 1
      BY <2>1, <2>3
    <2>5. p # << >>
      BY <2>4, <2>3
    <2>6. p[Len(p)] = EndOf(c, r)
      <3>1. CASE r.path = << >>
        BY <2>1, <2>3, <2>4, <3>1 DEF EndOf
      <3>2. CASE r.path # << >>
        <4>1. Len(r.path) > 0
          BY <2>3, <3>2
        <4>2. p[Len(r.path) + 1] = r.path[Len(r.path)]
          BY <2>1, <2>3, <4>1
        <4> QED
          BY <2>4, <3>2, <4>2 DEF EndOf
      <3> QED
        BY <3>1, <3>2
    <2> QED
      BY <2>2, <2>4, <2>5, <2>6
  <1> QED
    BY <1>1, <1>2

\* A cast finds a subobject of the class when there is one, and only then.
LEMMA CastRight ==
    ASSUME NEW H, IsHierarchy(H), NEW c \in DOMAIN H, NEW t
    PROVE  IF do_upcast(H, t)[c] = None THEN SubobjectsOf(H, c, t) = {}
           ELSE /\ Adjust(<< c >>, do_upcast(H, t)[c]) \in SubobjectsOf(H, c, t)
                /\ Adjust(<< c >>, do_upcast(H, t)[c]) # NoMatch
  <1>1. PICK r : r = do_upcast(H, t)[c]
    OBVIOUS
  <1>2. UpIsRight(H, t, c)
    BY UpRight
  <1>3. CASE r = None
    <2>1. ASSUME NEW s \in SubobjectsOf(H, c, t) PROVE FALSE
      <3>1. PICK w \in Ways(H)[c] : s = Adjust(<< c >>, w)
        BY <2>1 DEF SubobjectsOf, Subobjects
      <3>2. s[Len(s)] = t
        BY <2>1 DEF SubobjectsOf
      <3>3. s[Len(s)] = EndOf(c, w)
        BY <3>1, WaysAreWays, AdjustEnds
      <3> QED
        BY <1>1, <1>2, <1>3, <3>2, <3>3 DEF UpIsRight
    <2> QED
      BY <1>1, <1>3, <2>1
  <1>4. CASE r # None
    <2>1. r \in Ways(H)[c] /\ EndOf(c, r) = t
      BY <1>1, <1>2, <1>4 DEF UpIsRight
    <2>2. IsWay(H, r)
      BY <2>1, WaysAreWays
    <2>3. PICK s : s = Adjust(<< c >>, r)
      OBVIOUS
    <2>4. s \in Seq(DOMAIN H) /\ s[Len(s)] = t
      BY <2>1, <2>2, <2>3, AdjustEnds
    <2>5. s \in SubobjectsOf(H, c, t)
      BY <2>1, <2>3, <2>4 DEF SubobjectsOf, Subobjects
    <2>6. s # NoMatch
      <3>1. NoMatch[1] \notin DOMAIN H
        BY DEF IsHierarchy
      <3>2. Len(NoMatch) = 1 /\ 1 \in DOMAIN NoMatch
        BY DEF NoMatch
      <3> QED
        BY <2>4, <3>1, <3>2
    <2> QED
      BY <1>1, <1>4, <2>3, <2>5, <2>6
  <1> QED
    BY <1>1, <1>3, <1>4

\* One step of __do_catch, for the result f for the level below.
CatchUpcast(H, h, x) == IF x.class = Void THEN None ELSE do_upcast(H, h.class)[x.class]
TryStep(H, h, x, obj, i, f) ==
    IF SubSeq(h.ptrs, i, Len(h.ptrs)) = SubSeq(x.ptrs, i, Len(x.ptrs)) /\ h.class = x.class THEN obj
    ELSE IF i = Len(h.ptrs) + 1
    THEN IF Len(x.ptrs) # Len(h.ptrs) \/ CatchUpcast(H, h, x) = None THEN NoMatch
         ELSE Adjust(obj, CatchUpcast(H, h, x))
    ELSE IF \/ i > Len(x.ptrs)
            \/ \E j \in 1 .. i - 1 : "const" \notin h.ptrs[j]
            \/ ~(x.ptrs[i] \subseteq h.ptrs[i])
    THEN NoMatch
    ELSE IF i = Len(h.ptrs) /\ h.class = Void THEN obj
    ELSE f[i + 1]

LEMMA CatchUnfolds ==
    ASSUME NEW H, NEW h, NEW x, NEW obj, Len(h.ptrs) = 0 \/ Len(h.ptrs) = 1
    PROVE  \E f : /\ \A i \in 1 .. Len(h.ptrs) + 1 : f[i] = TryStep(H, h, x, obj, i, f)
                  /\ do_catch(H, h, x, obj) = f[1]
  <1>1. PICK n : n = Len(h.ptrs)
    OBVIOUS
  <1>2. PICK g : g = [i \in 1 .. n + 1 |-> TryStep(H, h, x, obj, i, << >>)]
    OBVIOUS
  <1>3. PICK f : f = [i \in 1 .. n + 1 |-> TryStep(H, h, x, obj, i, g)]
    OBVIOUS
  <1>4. \A p, q : TryStep(H, h, x, obj, n + 1, p) = TryStep(H, h, x, obj, n + 1, q)
    BY <1>1, Zenon DEF TryStep
  <1>5. \A p, q, i : p[i + 1] = q[i + 1] => TryStep(H, h, x, obj, i, p) = TryStep(H, h, x, obj, i, q)
    BY Zenon DEF TryStep
  <1>6. n + 1 \in 1 .. n + 1 /\ \A i \in 1 .. n + 1 : i = n \/ i = n + 1
    <2>1. CASE n = 0
      BY <2>1
    <2>2. CASE n = 1
      BY <2>2
    <2> QED
      BY <1>1, <2>1, <2>2
  <1>7. g[n + 1] = f[n + 1]
    <2>1. g[n + 1] = TryStep(H, h, x, obj, n + 1, << >>)
      BY <1>2, <1>6, Zenon
    <2>2. f[n + 1] = TryStep(H, h, x, obj, n + 1, g)
      BY <1>3, <1>6, Zenon
    <2> QED
      BY <1>4, <2>1, <2>2, Zenon
  <1>8. ASSUME NEW i \in 1 .. n + 1 PROVE TryStep(H, h, x, obj, i, g) = TryStep(H, h, x, obj, i, f)
    <2>1. CASE i = n
      BY <1>5, <1>7, <2>1, Zenon
    <2>2. CASE i = n + 1
      BY <1>4, <2>2, Zenon
    <2> QED
      BY <1>6, <2>1, <2>2
  <1>9. f = [i \in 1 .. n + 1 |-> TryStep(H, h, x, obj, i, f)]
    BY <1>3, <1>8
  <1>10. PICK k : k = CHOOSE p : p = [i \in 1 .. n + 1 |-> TryStep(H, h, x, obj, i, p)]
    OBVIOUS
  <1>11. k = [i \in 1 .. n + 1 |-> TryStep(H, h, x, obj, i, k)]
    BY <1>9, <1>10, Zenon
  <1>12. do_catch(H, h, x, obj) = k[1]
    <2>1. do_catch(H, h, x, obj)
            = (CHOOSE p : p = [i \in 1 .. Len(h.ptrs) + 1 |-> TryStep(H, h, x, obj, i, p)])[1]
      BY Zenon DEF do_catch, TryStep, CatchUpcast
    <2> QED
      BY <1>1, <1>10, <2>1, Zenon
  <1>13. \A i \in 1 .. n + 1 : k[i] = TryStep(H, h, x, obj, i, k)
    BY <1>11, Zenon
  <1> QED
    BY <1>1, <1>12, <1>13

LEMMA OwnSubobject ==
    ASSUME NEW H, IsHierarchy(H), NEW c \in DOMAIN H
    PROVE  << c >> \in SubobjectsOf(H, c, c) /\ << c >> # NoMatch /\ c # Void
  <1>1. Here \in Ways(H)[c]
    BY WaysUnfold, SubStepMember
  <1>2. Adjust(<< c >>, Here) = << c >>
    BY DEF Adjust, Here
  <1>3. << c >> \in Subobjects(H, c)
    BY <1>1, <1>2 DEF Subobjects
  <1>4. << c >>[Len(<< c >>)] = c
    OBVIOUS
  <1>5. << c >> # NoMatch /\ c # Void
    BY DEF IsHierarchy, NoMatch
  <1> QED
    BY <1>3, <1>4, <1>5 DEF SubobjectsOf

LEMMA NoSubobjectOfNonClass ==
    ASSUME NEW H, IsHierarchy(H), NEW c \in DOMAIN H, NEW t, t \notin DOMAIN H
    PROVE  SubobjectsOf(H, c, t) = {}
  <1>1. SUFFICES ASSUME NEW s \in SubobjectsOf(H, c, t) PROVE FALSE
    OBVIOUS
  <1>2. PICK w \in Ways(H)[c] : s = Adjust(<< c >>, w)
    BY <1>1 DEF SubobjectsOf, Subobjects
  <1>3. s \in Seq(DOMAIN H) /\ s # << >>
    BY <1>2, WaysAreWays, AdjustEnds
  <1>4. s[Len(s)] = t
    BY <1>1 DEF SubobjectsOf
  <1> QED
    BY <1>3, <1>4

\* The types that TypesAssumption is about.
IsTypeOf(x) == x.ptrs \in Seq(SUBSET {"const", "volatile"}) /\ Len(x.ptrs) <= 1

\* The answer for a class at the end of the pointers.
LEMMA ClassLevelRight ==
    ASSUME NEW H, IsHierarchy(H), NEW h, NEW x, x.class \in DOMAIN H, h.class # x.class
    PROVE  IF CatchUpcast(H, h, x) = None
           THEN SubobjectsOf(H, x.class, h.class) = {}
           ELSE /\ h.class # Void
                /\ Adjust(<< x.class >>, CatchUpcast(H, h, x)) \in SubobjectsOf(H, x.class, h.class) \ {NoMatch}
  <1>1. x.class # Void
    BY OwnSubobject
  <1>2. CatchUpcast(H, h, x) = do_upcast(H, h.class)[x.class]
    BY <1>1 DEF CatchUpcast
  <1>3. h.class = Void => SubobjectsOf(H, x.class, h.class) = {}
    BY NoSubobjectOfNonClass DEF IsHierarchy
  <1>4. IF do_upcast(H, h.class)[x.class] = None THEN SubobjectsOf(H, x.class, h.class) = {}
        ELSE /\ Adjust(<< x.class >>, do_upcast(H, h.class)[x.class]) \in SubobjectsOf(H, x.class, h.class)
             /\ Adjust(<< x.class >>, do_upcast(H, h.class)[x.class]) # NoMatch
    BY CastRight
  <1> QED
    BY <1>2, <1>3, <1>4

LEMMA SubSeqOne ==
    ASSUME NEW S, NEW s \in Seq(S)
    PROVE  /\ Len(s) = 0 => SubSeq(s, 1, Len(s)) = << >>
           /\ Len(s) = 1 => /\ SubSeq(s, 1, Len(s)) = << s[1] >> /\ s = << s[1] >>
                            /\ SubSeq(s, 2, Len(s)) = << >>
           /\ Len(s) = 0 => s = << >>
  <1>1. CASE Len(s) = 0
    <2>1. s = << >>
      BY <1>1
    <2> QED
      BY <1>1, <2>1
  <1>2. CASE Len(s) = 1
    <2>1. SubSeq(s, 1, 1) \in Seq(S) /\ Len(SubSeq(s, 1, 1)) = 1 /\ SubSeq(s, 1, 1)[1] = s[1]
      BY <1>2
    <2>2. s[1] \in S
      BY <1>2
    <2>3. \A t \in Seq(S) : Len(t) = 1 /\ t[1] = s[1] => t = << s[1] >>
      BY <2>2
    <2>4. SubSeq(s, 1, Len(s)) = << s[1] >> /\ s = << s[1] >>
      BY <1>2, <2>1, <2>3
    <2>5. SubSeq(s, 2, Len(s)) \in Seq(S) /\ Len(SubSeq(s, 2, Len(s))) = 0
      BY <1>2
    <2>6. SubSeq(s, 2, Len(s)) = << >>
      BY <2>5
    <2> QED
      BY <1>2, <2>4, <2>6
  <1> QED
    BY <1>1, <1>2

CatchIsRight(H, h, x, ptr) ==
    IF IsMatch(H, h, x) THEN ptr \in MatchTargets(H, h, x) \ {NoMatch} ELSE ptr = NoMatch

LEMMA CatchRightForClass ==
    ASSUME NEW H, IsHierarchy(H), NEW h, NEW x, x.class \in DOMAIN H,
           IsTypeOf(h), IsTypeOf(x), Len(h.ptrs) = 0
    PROVE  CatchIsRight(H, h, x, do_catch(H, h, x, << x.class >>))
  <1>1. PICK obj : obj = << x.class >>
    OBVIOUS
  <1>2. PICK f : /\ \A i \in 1 .. Len(h.ptrs) + 1 : f[i] = TryStep(H, h, x, obj, i, f)
                 /\ do_catch(H, h, x, obj) = f[1]
    BY CatchUnfolds
  <1>3. f[1] = TryStep(H, h, x, obj, 1, f)
    <2>1. 1 \in 1 .. Len(h.ptrs) + 1
      OBVIOUS
    <2> QED
      BY <1>2, <2>1
  <1>4. h.ptrs = << >> /\ SubSeq(h.ptrs, 1, Len(h.ptrs)) = << >>
    BY SubSeqOne DEF IsTypeOf
  <1>5. CASE Len(x.ptrs) # 0
    <2>1. Len(x.ptrs) = 1
      <3>1. Len(x.ptrs) \in Nat /\ Len(x.ptrs) <= 1
        BY DEF IsTypeOf
      <3>2. \A l \in Nat : l <= 1 /\ l # 0 => l = 1
        OBVIOUS
      <3> QED
        BY <1>5, <3>1, <3>2, Zenon
    <2>2. SubSeq(x.ptrs, 1, Len(x.ptrs)) = << x.ptrs[1] >> /\ << x.ptrs[1] >> # << >>
      BY <2>1, SubSeqOne DEF IsTypeOf
    <2>3. f[1] = NoMatch
      BY <1>3, <1>4, <2>1, <2>2 DEF TryStep
    <2>4. ~IsMatch(H, h, x)
      BY <2>1 DEF IsMatch
    <2> QED
      BY <1>1, <1>2, <2>3, <2>4 DEF CatchIsRight
  <1>6. CASE Len(x.ptrs) = 0
    <2>1. SubSeq(x.ptrs, 1, Len(x.ptrs)) = << >>
      BY <1>6, SubSeqOne DEF IsTypeOf
    <2>2. DOMAIN h.ptrs = {} /\ ~is_pointer(h)
      BY <1>4 DEF is_pointer
    <2>3. IsMatch(H, h, x) <=> h.class = x.class \/ (h.class # Void /\ SubobjectsOf(H, x.class, h.class) # {})
      BY <1>6, <2>2 DEF IsMatch
    <2>4. CASE h.class = x.class
      <3>1. f[1] = obj
        BY <1>3, <1>4, <2>1, <2>4 DEF TryStep
      <3>2. h.class # Void /\ obj \in SubobjectsOf(H, x.class, h.class) \ {NoMatch}
        BY <1>1, <2>4, OwnSubobject
      <3> QED
        BY <1>1, <1>2, <2>3, <2>4, <3>1, <3>2 DEF CatchIsRight, MatchTargets
    <2>5. CASE h.class # x.class
      <3>1. f[1] = IF CatchUpcast(H, h, x) = None THEN NoMatch ELSE Adjust(obj, CatchUpcast(H, h, x))
        BY <1>3, <1>6, <2>5 DEF TryStep
      <3>2. CASE CatchUpcast(H, h, x) = None
        <4>1. SubobjectsOf(H, x.class, h.class) = {}
          BY <2>5, <3>2, ClassLevelRight
        <4> QED
          BY <1>1, <1>2, <2>3, <2>5, <3>1, <3>2, <4>1 DEF CatchIsRight
      <3>3. CASE CatchUpcast(H, h, x) # None
        <4>1. h.class # Void /\ f[1] \in SubobjectsOf(H, x.class, h.class) \ {NoMatch}
          BY <1>1, <2>5, <3>1, <3>3, ClassLevelRight
        <4> QED
          BY <1>1, <1>2, <2>3, <4>1 DEF CatchIsRight, MatchTargets
      <3> QED
        BY <3>2, <3>3
    <2> QED
      BY <2>4, <2>5
  <1> QED
    BY <1>5, <1>6

LEMMA CatchRightForPointer ==
    ASSUME NEW H, IsHierarchy(H), NEW h, NEW x, x.class \in DOMAIN H,
           IsTypeOf(h), IsTypeOf(x), Len(h.ptrs) = 1
    PROVE  CatchIsRight(H, h, x, do_catch(H, h, x, << x.class >>))
  <1>1. PICK obj : obj = << x.class >>
    OBVIOUS
  <1>2. PICK f : /\ \A i \in 1 .. Len(h.ptrs) + 1 : f[i] = TryStep(H, h, x, obj, i, f)
                 /\ do_catch(H, h, x, obj) = f[1]
    BY CatchUnfolds
  <1>3. f[1] = TryStep(H, h, x, obj, 1, f) /\ f[2] = TryStep(H, h, x, obj, 2, f)
    <2>1. 1 \in 1 .. Len(h.ptrs) + 1 /\ 2 \in 1 .. Len(h.ptrs) + 1
      OBVIOUS
    <2> QED
      BY <1>2, <2>1
  <1>4. /\ h.ptrs = << h.ptrs[1] >> /\ SubSeq(h.ptrs, 1, Len(h.ptrs)) = << h.ptrs[1] >>
        /\ SubSeq(h.ptrs, 2, Len(h.ptrs)) = << >>
    BY SubSeqOne DEF IsTypeOf
  <1>5. DOMAIN h.ptrs = {1} /\ is_pointer(h)
    <2>1. h.ptrs # << >> /\ DOMAIN h.ptrs = 1 .. 1
      <3>1. PICK s : s = h.ptrs
        OBVIOUS
      <3>2. s \in Seq(SUBSET {"const", "volatile"}) /\ Len(s) = 1
        BY <3>1 DEF IsTypeOf
      <3> QED
        BY <3>1, <3>2
    <2>2. 1 .. 1 = {1}
      OBVIOUS
    <2> QED
      BY <2>1, <2>2 DEF is_pointer
  <1>6. 1 # Len(h.ptrs) + 1 /\ 2 = Len(h.ptrs) + 1 /\ 1 .. 1 - 1 = {} /\ 1 + 1 = 2
    OBVIOUS
  <1>7. CASE Len(x.ptrs) # 1
    <2>1. Len(x.ptrs) = 0
      <3>1. Len(x.ptrs) \in Nat /\ Len(x.ptrs) <= 1
        BY DEF IsTypeOf
      <3>2. \A l \in Nat : l <= 1 /\ l # 1 => l = 0
        OBVIOUS
      <3> QED
        BY <1>7, <3>1, <3>2, Zenon
    <2>2. SubSeq(x.ptrs, 1, Len(x.ptrs)) = << >> /\ << h.ptrs[1] >> # << >>
      BY <2>1, SubSeqOne DEF IsTypeOf
    <2>3. f[1] = NoMatch
      BY <1>3, <1>4, <1>6, <2>1, <2>2 DEF TryStep
    <2>4. ~IsMatch(H, h, x)
      BY <2>1 DEF IsMatch
    <2> QED
      BY <1>1, <1>2, <2>3, <2>4 DEF CatchIsRight
  <1>8. CASE Len(x.ptrs) = 1 /\ ~(x.ptrs[1] \subseteq h.ptrs[1])
    <2>1. SubSeq(x.ptrs, 1, Len(x.ptrs)) = << x.ptrs[1] >>
      BY <1>8, SubSeqOne DEF IsTypeOf
    <2>2. << x.ptrs[1] >> # << h.ptrs[1] >>
      BY <1>8
    <2>3. f[1] = NoMatch
      BY <1>3, <1>4, <1>6, <1>8, <2>1, <2>2 DEF TryStep
    <2>4. ~IsMatch(H, h, x)
      BY <1>5, <1>8 DEF IsMatch
    <2> QED
      BY <1>1, <1>2, <2>3, <2>4 DEF CatchIsRight
  <1>9. CASE Len(x.ptrs) = 1 /\ x.ptrs[1] \subseteq h.ptrs[1]
    <2>1. SubSeq(x.ptrs, 1, Len(x.ptrs)) = << x.ptrs[1] >> /\ SubSeq(x.ptrs, 2, Len(x.ptrs)) = << >>
      BY <1>9, SubSeqOne DEF IsTypeOf
    <2>2. IsMatch(H, h, x) <=> \/ h.class = x.class \/ h.class = Void
                               \/ h.class # Void /\ SubobjectsOf(H, x.class, h.class) # {}
      BY <1>5, <1>9 DEF IsMatch
    <2>3. CASE h.class = x.class
      <3>1. f[2] = obj
        BY <1>3, <1>4, <2>1, <2>3 DEF TryStep
      <3>2. h.class # Void /\ obj \in SubobjectsOf(H, x.class, h.class) \ {NoMatch}
        BY <1>1, <2>3, OwnSubobject
      <3>3. f[1] = obj
        <4>1. ~(1 > Len(x.ptrs))
          BY <1>9
        <4> QED
          BY <1>3, <1>6, <1>9, <3>1, <3>2, <4>1 DEF TryStep
      <3> QED
        BY <1>1, <1>2, <2>2, <2>3, <3>2, <3>3 DEF CatchIsRight, MatchTargets
    <2>4. CASE h.class # x.class /\ h.class = Void
      <3>1. f[1] = obj
        <4>1. ~(1 > Len(x.ptrs))
          BY <1>9
        <4> QED
          BY <1>3, <1>6, <1>9, <2>4, <4>1 DEF TryStep
      <3>2. obj # NoMatch
        BY <1>1, OwnSubobject
      <3> QED
        BY <1>1, <1>2, <2>2, <2>4, <3>1, <3>2 DEF CatchIsRight, MatchTargets
    <2>5. CASE h.class # x.class /\ h.class # Void
      <3>1. f[1] = f[2]
        <4>1. ~(1 > Len(x.ptrs))
          BY <1>9
        <4> QED
          BY <1>3, <1>6, <1>9, <2>5, <4>1 DEF TryStep
      <3>2. f[2] = IF CatchUpcast(H, h, x) = None THEN NoMatch ELSE Adjust(obj, CatchUpcast(H, h, x))
        BY <1>3, <1>6, <1>9, <2>5 DEF TryStep
      <3>3. CASE CatchUpcast(H, h, x) = None
        <4>1. SubobjectsOf(H, x.class, h.class) = {}
          BY <2>5, <3>3, ClassLevelRight
        <4> QED
          BY <1>1, <1>2, <2>2, <2>5, <3>1, <3>2, <3>3, <4>1 DEF CatchIsRight
      <3>4. CASE CatchUpcast(H, h, x) # None
        <4>1. f[1] \in SubobjectsOf(H, x.class, h.class) \ {NoMatch}
          BY <1>1, <2>5, <3>1, <3>2, <3>4, ClassLevelRight
        <4> QED
          BY <1>1, <1>2, <2>2, <2>5, <4>1 DEF CatchIsRight, MatchTargets
      <3> QED
        BY <3>3, <3>4
    <2> QED
      BY <2>3, <2>4, <2>5
  <1> QED
    BY <1>7, <1>8, <1>9

LEMMA MatchingRight == MatchingIsRight
  <1> SUFFICES ASSUME NEW H \in Hierarchies, NEW h \in HandlerTypes \ {CatchAll}, NEW x \in ThrownTypes
               PROVE  CatchIsRight(H, h, x, do_catch(H, h, x, << x.class >>))
    BY DEF MatchingIsRight, CatchIsRight
  <1>1. IsHierarchy(H) /\ x.class \in DOMAIN H
    BY TypesAssumption
  <1>2. IsTypeOf(h) /\ IsTypeOf(x)
    BY TypesAssumption DEF IsTypeOf
  <1>3. Len(h.ptrs) = 0 \/ Len(h.ptrs) = 1
    <2>1. Len(h.ptrs) \in Nat /\ Len(h.ptrs) <= 1
      BY <1>2 DEF IsTypeOf
    <2>2. \A l \in Nat : l <= 1 => l = 0 \/ l = 1
      OBVIOUS
    <2> QED
      BY <2>1, <2>2, Zenon
  <1>4. CASE Len(h.ptrs) = 0
    BY <1>1, <1>2, <1>4, CatchRightForClass
  <1>5. CASE Len(h.ptrs) = 1
    BY <1>1, <1>2, <1>5, CatchRightForPointer
  <1> QED
    BY <1>3, <1>4, <1>5

\* __dynamic_cast.
LEMMA DynamicCastRight ==
    ASSUME NEW H, IsHierarchy(H), NEW c \in DOMAIN H, NEW b
    PROVE  IF SubobjectsOf(H, c, b) = {} THEN dynamic_cast(H, c, b) = NullPtr
           ELSE dynamic_cast(H, c, b) \in SubobjectsOf(H, c, b)
  BY CastRight DEF dynamic_cast, cast_to

(***************************************************************************)
(* __dynamic_cast finds the one subobject of the class asked for, and      *)
(* fails when the object has none; __do_catch answers as the language      *)
(* says, except that it accepts ambiguous bases and bases that are not     *)
(* public. For every acyclic hierarchy, with virtual and repeated bases:   *)
(* the depth-first search of __do_upcast is complete (when there are       *)
(* several such subobjects, it finds one of them: DynamicCastRight).       *)
(***************************************************************************)
THEOREM CastsAreRight == Spec => []CastsFindTheBase
  <1>1. Init => hierarchy \in Hierarchies
    BY DEF Init
  <1>2. hierarchy \in Hierarchies /\ [Next]_vars => (hierarchy \in Hierarchies)'
    BY DEF Next, vars, Call, Rethrow, Throw, SearchContinues, SearchFindsGap, SearchFindsHandler, HandlerFound,
           EndOfStack, UnwindContinues, InstallCleanup, InstallForeign, TerminateAtGap, InstallHandler,
           ForcedUnwindEnds, LandingPad, HandlerEnds
  <1>3. hierarchy \in Hierarchies => CastsFindTheBase
    <2> SUFFICES ASSUME hierarchy \in Hierarchies PROVE CastsFindTheBase
      OBVIOUS
    <2>1. IsHierarchy(hierarchy)
      BY TypesAssumption
    <2>2. ASSUME NEW c \in DOMAIN hierarchy, NEW b \in DOMAIN hierarchy
          PROVE  /\ Cardinality(SubobjectsOf(hierarchy, c, b)) = 1 =>
                        dynamic_cast(hierarchy, c, b) \in SubobjectsOf(hierarchy, c, b)
                 /\ SubobjectsOf(hierarchy, c, b) = {} => dynamic_cast(hierarchy, c, b) = NullPtr
      <3>1. Cardinality({}) = 0
        BY FS_EmptySet
      <3> QED
        BY <2>1, <3>1, DynamicCastRight
    <2> QED
      BY <2>2, MatchingRight DEF CastsFindTheBase
  <1> QED
    BY <1>1, <1>2, <1>3, PTL DEF Spec
-----------------------------------------------------------------------------
LEMMA FirstMatchFromInv == ASSUME IInv, MatchingIsRight PROVE HandlerIsFirstMatch
  <1>1. TypeOK
    BY DEF IInv
  <1>2. ASSUME pc \in {"handler", "terminate"}
        PROVE  /\ pos = stop /\ stop \in 1 .. Len(frames) /\ pos = StopFrame /\ thrown # Forced
               /\ frames[stop] \in Shapes
    <2>1. pc \in Unwinding /\ pos = stop /\ stop > 0
      BY <1>2 DEF IInv, EndOK, Unwinding
    <2>2. /\ thrown # Forced /\ stop \in 1 .. Len(frames) /\ Stops(frames[stop]) /\ NothingAbove(stop)
          /\ frames[stop] \in Shapes
      BY <2>1, AtStop
    <2>3. stop \in 0 .. Len(frames)
      BY <2>2
    <2>4. StopFrame = stop
      BY <1>1, <2>2, <2>3, StopFrameIs
    <2> QED BY <2>1, <2>2, <2>4
  <1>3. pc = "handler" => /\ pos = StopFrame /\ Covering(frames[pos]) # {}
                          /\ selector = StopClause(pos).filter
    <2> SUFFICES ASSUME pc = "handler" PROVE Covering(frames[pos]) # {} /\ selector = StopClause(pos).filter
      BY <1>2
    <2>1. ~IsGap(frames[stop]) /\ selector = StopRecord(frames[stop]).filter
      BY DEF IInv, EndOK, StopFilter
    <2>2. StopClause(stop) = StopRecord(frames[stop])
      BY <1>1, <1>2, <2>1, StopClauseIs
    <2>3. Covering(frames[stop]) # {}
      BY <1>2, <2>1, CallSiteFacts
    <2> QED BY <1>2, <2>1, <2>2, <2>3
  <1>4. pc = "terminate" => pos = StopFrame /\ Covering(frames[pos]) = {}
    BY <1>2, GapFacts DEF IInv, EndOK
  <1>5. pc = "uncaught" => StopFrame = 0
    <2> SUFFICES ASSUME pc = "uncaught" PROVE StopFrame = 0
      OBVIOUS
    <2>1. NothingAbove(pos) /\ pos = 0
      BY DEF IInv, SearchOK
    <2>2. NothingAbove(0) /\ 0 \in 0 .. Len(frames)
      BY <1>1, <2>1, FrameIsShape
    <2> QED BY <1>1, <2>2, StopFrameIs
  <1>6. thrown = Forced => pc \notin {"handler", "terminate", "unexpected"}
    BY <1>2 DEF IInv, EndOK
  <1> QED BY <1>3, <1>4, <1>5, <1>6 DEF HandlerIsFirstMatch

(***************************************************************************)
(* __do_catch matches where IsMatch says so, and the search of the tables  *)
(* picks the right handler on every stack: the first matching clause of    *)
(* the innermost frame that has one, for thrown and for rethrown           *)
(* exceptions, std::terminate only at a call that may not throw, and       *)
(* report_failure only when no frame takes the exception.                  *)
(***************************************************************************)
THEOREM FirstMatchRuns == Spec => []HandlerIsFirstMatch
  <1>1. IInv => HandlerIsFirstMatch
    BY FirstMatchFromInv, MatchingRight
  <1> QED BY <1>1, UnwindingInvariant, PTL

LEMMA ObjectFromInv == ASSUME IInv, MatchingIsRight PROVE HandlerGetsObject
  <1> SUFFICES ASSUME pc = "handler", IsCxx, ~SpecificationPassed PROVE adjustedPtr \in HandlerObjects
    BY DEF HandlerGetsObject
  <1>1. TypeOK /\ pc \in Unwinding /\ pos = stop /\ stop > 0 /\ ~IsGap(frames[stop])
        /\ StopFilter(frames[stop]) > 0
    BY DEF IInv, EndOK, Unwinding
  <1>2. adjustedPtr = PointerFor(frames[stop])
    BY <1>1 DEF IInv, PointerOK, CachedHandler
  <1>3. stop \in 1 .. Len(frames) /\ frames[stop] \in Shapes /\ Stops(frames[stop])
    BY <1>1, AtStop
  <1>4. StopClause(pos) = StopRecord(frames[stop])
    BY <1>1, <1>3, StopClauseIs
  <1>5. PICK c : c = CallSite(frames[stop]).chain
    OBVIOUS
  <1>6. /\ c \in Seq(ActionRecords) /\ StopsAt(c) # {}
        /\ \A j \in DOMAIN c : c[j].filter >= 0 => Len(c[j].types) = IF c[j].filter = 0 THEN 0 ELSE 1
    BY <1>1, <1>3, <1>5, CallSiteFacts DEF Stops
  <1>7. PICK m : m = Min(StopsAt(c))
    OBVIOUS
  <1>8. m \in StopsAt(c) /\ m \in DOMAIN c /\ c[m].types \in Seq(HandlerTypes) /\ c[m].filter \in Int
    BY <1>6, <1>7, ChainFacts
  <1>9. StopRecord(frames[stop]) = c[m] /\ c[m].filter > 0
    BY <1>1, <1>5, <1>7 DEF StopRecord, StopFilter
  <1>10. Len(c[m].types) = 1
    <2>1. c[m].filter >= 0 /\ c[m].filter # 0
      BY <1>8, <1>9
    <2>2. Len(c[m].types) = IF c[m].filter = 0 THEN 0 ELSE 1
      BY ONLY <1>6, <1>8, <2>1
    <2> QED BY ONLY <2>1, <2>2
  <1>11. PICK t : t = c[m].types[1]
    OBVIOUS
  <1>12. t \in HandlerTypes /\ HandlerType = t /\ adjustedPtr = check_type_signature(t)
    BY <1>2, <1>4, <1>8, <1>9, <1>10, <1>11 DEF HandlerType, PointerFor
  <1>13. check_type_signature(t) # NoMatch
    <2>1. Matching(c[m]) # {}
      BY <1>6, <1>8, <1>9, StopFilterNotZero
    <2>2. DOMAIN c[m].types = {1}
      BY <1>8, <1>10
    <2> QED BY <1>11, <2>1, <2>2 DEF Matching
  <1>14. CASE t = CatchAll
    BY <1>12, <1>14 DEF HandlerObjects, check_type_signature
  <1>15. CASE t # CatchAll
    <2>1. hierarchy \in Hierarchies /\ thrown \in ThrownTypes /\ t \in HandlerTypes \ {CatchAll}
      BY <1>1, <1>12, <1>15 DEF TypeOK, IsCxx
    <2>2. adjustedPtr = do_catch(hierarchy, t, thrown, << thrown.class >>) /\ adjustedPtr # NoMatch
      BY <1>12, <1>13, <1>15 DEF check_type_signature
    <2>3. adjustedPtr \in MatchTargets(hierarchy, t, thrown)
      BY <2>1, <2>2 DEF MatchingIsRight
    <2> QED BY <1>12, <1>15, <2>3 DEF HandlerObjects
  <1> QED BY <1>14, <1>15

(***************************************************************************)
(* The handler gets a subobject of its type of the thrown object:          *)
(* the pointer that phase 1 wrote to adjustedPtr is still there when       *)
(* __cxa_begin_catch returns it, although phase 2 has read the action      *)
(* records of all inner frames, unless one has an exception specification. *)
(***************************************************************************)
THEOREM HandlerGetsItsObject == Spec => []HandlerGetsObject
  <1>1. IInv => HandlerGetsObject
    BY ObjectFromInv, MatchingRight
  <1> QED BY <1>1, UnwindingInvariant, PTL
=============================================================================
