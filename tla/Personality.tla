----------------------------- MODULE Personality -----------------------------
(***************************************************************************)
(* __gxx_personality_v0 and the two phases of unwinding: one exception     *)
(* goes up a stack of C++ frames, is caught and perhaps rethrown.          *)
(*                                                                         *)
(* A frame is what the personality function reads of it:                   *)
(*   lsda   whether the function has a language-specific data area         *)
(*   ip     the offset of the return address in the function               *)
(*   sites  the call-site table: sorted records with start, size, pad      *)
(*          (whether there is a landing pad) and chain, the action records *)
(* An action record has a filter and the types it refers to: a handler     *)
(* (filter > 0, one type), a cleanup (0), or an exception specification    *)
(* (filter < 0, the allowed types). No action record is the empty chain.   *)
(***************************************************************************)
EXTENDS TypeInfo, CallSites, Integers

CONSTANTS Hierarchies,  \* class hierarchies
          ThrownTypes,  \* types of C++ exceptions
          HandlerTypes, \* types of handlers and exception specifications
          Shapes,       \* frames
          MaxFrames,    \* bound on the depth of the stack
          MaxThrows     \* bound on throw and rethrows

\* What takes the place of a type: the null type_info of catch (...), an
\* exception of another language, and _Unwind_ForcedUnwind, as for thread
\* cancellation.
NotAType(what) == [ptrs |-> << >>, class |-> what]
CatchAll == NotAType("...")
Foreign == NotAType("foreign")
Forced == NotAType("forced")

(***************************************************************************)
(* The tables as a compiler emits them: the regions of a table are sorted  *)
(* and do not overlap, action records are those of a landing pad, a        *)
(* handler has one type and a cleanup none.                                *)
(***************************************************************************)
ActionRecords == [filter : Int, types : Seq(HandlerTypes)]
CallSiteRecords == [start : Nat, size : Nat, pad : BOOLEAN, chain : Seq(ActionRecords)]
Sorted(sites) ==
    \A i, j \in DOMAIN sites : i < j => sites[i].start + sites[i].size <= sites[j].start
IsFrame(f) ==
    /\ f \in [lsda : BOOLEAN, ip : Nat, sites : Seq(CallSiteRecords)]
    /\ Sorted(f.sites)
    /\ \A i \in DOMAIN f.sites :
          LET chain == f.sites[i].chain
          IN  /\ chain # << >> => f.sites[i].pad
              /\ \A j \in DOMAIN chain : chain[j].filter >= 0 =>
                    Len(chain[j].types) = IF chain[j].filter = 0 THEN 0 ELSE 1

ASSUME PersonalityAssumption ==
    /\ \A f \in Shapes : IsFrame(f)
    /\ Foreign \notin ThrownTypes /\ Forced \notin ThrownTypes
    /\ \A x \in ThrownTypes : << x.class >> # NoMatch

\* Classes are thrown and caught, and pointers to them.
ASSUME TypesAssumption ==
    /\ \A H \in Hierarchies : IsHierarchy(H) /\ \A x \in ThrownTypes : x.class \in DOMAIN H
    /\ \A x \in ThrownTypes \cup HandlerTypes :
          x.ptrs \in Seq(SUBSET {"const", "volatile"}) /\ Len(x.ptrs) <= 1

VARIABLES
    hierarchy,
    frames,       \* the stack, innermost last
    thrown,       \* type of the exception, Foreign or Forced
    throws,       \* how often it was thrown
    pc,           \* call, search, unwind, pad, handler or an outcome
    pos,          \* the frame the unwinder is at
    stop,         \* the frame phase 1 ended in, 0 if none
    catchTemp, handlerSwitchValue, adjustedPtr,   \* fields of the header
    ip, selector, \* where and with what a landing pad is entered
    cleanups      \* history: frames whose cleanup was run since the last throw

header == <<catchTemp, handlerSwitchValue, adjustedPtr>>
vars == <<hierarchy, frames, thrown, throws, pc, pos, stop, header, ip, selector, cleanups>>

NoPad == << >>
\* The landing pad for the call a frame is in, as an address of its own for
\* each throw.
Pad(p) == <<throws, p>>

Init ==
    /\ hierarchy \in Hierarchies
    /\ frames = << >> /\ thrown = Forced /\ throws = 0
    /\ pc = "call" /\ pos = 0 /\ stop = 0
    /\ catchTemp = NoPad /\ handlerSwitchValue = 0 /\ adjustedPtr = NullPtr
    /\ ip = NoPad /\ selector = 0
    /\ cleanups = << >>

IsCxx == thrown \in ThrownTypes
-----------------------------------------------------------------------------
\* The pointer that the handler type gives for the thrown object, or NoMatch.
\* A foreign exception only matches catch (...).
check_type_signature(type) ==
    IF ~IsCxx THEN IF type = CatchAll THEN NullPtr ELSE NoMatch
    ELSE IF type = CatchAll THEN << thrown.class >>
    ELSE do_catch(hierarchy, type, thrown, << thrown.class >>)

Matching(entry) == {i \in DOMAIN entry.types : check_type_signature(entry.types[i]) # NoMatch}

\* The records at which check_action_record stops: a handler that matches, a
\* specification that does not allow the exception.
StopsAt(chain) ==
    {i \in DOMAIN chain :
        \/ chain[i].filter > 0 /\ Matching(chain[i]) # {}
        \/ chain[i].filter < 0 /\ IsCxx /\ Matching(chain[i]) = {}}

\* The records that are read before it returns.
Read(chain) == 1 .. IF StopsAt(chain) = {} THEN Len(chain) ELSE Min(StopsAt(chain))

(***************************************************************************)
(* check_action_record: its result, the selector, and adjustedPtr after    *)
(* it. Each record read may write the last two, a specification also when  *)
(* it allows the exception.                                                *)
(***************************************************************************)
\* Mutant: a call site without action records has no cleanup.
MutantFoundHandler(chain) ==
    IF StopsAt(chain) # {} THEN "catch"
    ELSE IF \E i \in DOMAIN chain : chain[i].filter = 0 THEN "cleanup" ELSE "none"

FoundHandler(chain) ==
    IF StopsAt(chain) # {} THEN "catch"
    ELSE IF chain = << >> \/ \E i \in DOMAIN chain : chain[i].filter = 0 THEN "cleanup"
    ELSE "none"

Selector(chain) ==
    LET selects == {i \in Read(chain) :
                       i \in StopsAt(chain) \/ chain[i].filter = 0 \/ (chain[i].filter < 0 /\ IsCxx)}
    IN  IF selects = {} THEN 0 ELSE chain[Max(selects)].filter

\* Mutant: the pointer is set before the cast.
MutantAdjustedPtr(chain) ==
    IF \E i \in Read(chain) : IsCxx /\ Matching(chain[i]) # {} THEN << thrown.class >> ELSE adjustedPtr

AdjustedPtr(chain) ==
    LET adjusts == {i \in Read(chain) : IsCxx /\ Matching(chain[i]) # {}}
    IN  IF adjusts = {} THEN adjustedPtr
        ELSE LET entry == chain[Max(adjusts)]
             IN  check_type_signature(entry.types[Min(Matching(entry))])
-----------------------------------------------------------------------------
(***************************************************************************)
(* The program calls functions, then throws.                               *)
(***************************************************************************)
Call(f) ==
    /\ pc = "call" /\ Len(frames) < MaxFrames
    /\ frames' = Append(frames, f)
    /\ UNCHANGED <<hierarchy, thrown, throws, pc, pos, stop, header, ip, selector, cleanups>>

\* _Unwind_RaiseException starts phase 1 at the innermost frame; a forced
\* unwind has phase 2 only and stops nowhere.
Throw(x) ==
    /\ pc = "call" /\ frames # << >>
    /\ thrown' = x
    /\ throws' = 1
    /\ pc' = IF x = Forced THEN "unwind" ELSE "search"
    /\ pos' = Len(frames)
    /\ UNCHANGED <<hierarchy, frames, stop, header, ip, selector, cleanups>>

\* "throw;" in the handler, or at another place of the function it is in.
Rethrow(f) ==
    /\ pc = "handler" /\ throws < MaxThrows
    /\ frames' = SubSeq(frames, 1, pos - 1) \o << f >>
    /\ throws' = throws + 1
    /\ pc' = "search" /\ stop' = 0
    /\ ip' = NoPad /\ selector' = 0 /\ cleanups' = << >>
    /\ UNCHANGED <<hierarchy, thrown, pos, header>>

HandlerEnds ==
    /\ pc = "handler"
    /\ pc' = "finished"
    /\ UNCHANGED <<hierarchy, frames, thrown, throws, pos, stop, header, ip, selector, cleanups>>
-----------------------------------------------------------------------------
(***************************************************************************)
(* Phase 1: _UA_SEARCH_PHASE.                                              *)
(***************************************************************************)
\* The personality function answers _URC_CONTINUE_UNWIND: no LSDA, or no
\* handler in the action records.
SearchContinues ==
    /\ pc = "search" /\ pos > 0
    /\ \/ ~frames[pos].lsda /\ UNCHANGED header
       \/ LET f == frames[pos]
              chain == CallSite(f).chain
          IN  /\ f.lsda /\ ~IsGap(f) /\ FoundHandler(chain) # "catch"
              /\ adjustedPtr' = AdjustedPtr(chain)
              /\ UNCHANGED <<catchTemp, handlerSwitchValue>>
    /\ pos' = pos - 1
    /\ UNCHANGED <<hierarchy, frames, thrown, throws, pc, stop, ip, selector, cleanups>>

\* Phase 2 starts at the innermost frame.
HandlerFound ==
    /\ stop' = pos
    /\ pc' = "unwind" /\ pos' = Len(frames)
    /\ UNCHANGED <<hierarchy, frames, thrown, throws, ip, selector, cleanups>>

\* The call is not in the table: _URC_HANDLER_FOUND without a landing pad.
SearchFindsGap ==
    /\ pc = "search" /\ pos > 0
    /\ frames[pos].lsda /\ IsGap(frames[pos])
    /\ HandlerFound
    /\ UNCHANGED header

\* A handler, or a violated specification: saveLandingPad, for a C++ exception.
SearchFindsHandler ==
    /\ pc = "search" /\ pos > 0
    /\ frames[pos].lsda /\ ~IsGap(frames[pos])
    /\ LET chain == CallSite(frames[pos]).chain
       IN  /\ FoundHandler(chain) = "catch"
           /\ IF IsCxx
              THEN /\ catchTemp' = Pad(pos)
                   /\ handlerSwitchValue' = Selector(chain)
                   /\ adjustedPtr' = AdjustedPtr(chain)
              ELSE UNCHANGED header
    /\ HandlerFound

\* No frame is left: report_failure.
EndOfStack ==
    /\ pc = "search" /\ pos = 0
    /\ pc' = "uncaught"
    /\ UNCHANGED <<hierarchy, frames, thrown, throws, pos, stop, header, ip, selector, cleanups>>
-----------------------------------------------------------------------------
(***************************************************************************)
(* Phase 2.                                                                *)
(***************************************************************************)
HasPad(f) == f.lsda /\ ~IsGap(f) /\ CallSite(f).pad

\* A frame that phase 1 did not choose has a landing pad to run.
IsCleanup(f) == HasPad(f) /\ FoundHandler(CallSite(f).chain) = "cleanup"

\* adjustedPtr after the action records were read once more.
Reread(f) ==
    adjustedPtr' = IF HasPad(f) THEN AdjustedPtr(CallSite(f).chain) ELSE adjustedPtr

UnwindContinues ==
    /\ pc = "unwind" /\ pos > 0 /\ pos # stop
    /\ ~IsCleanup(frames[pos])
    /\ Reread(frames[pos])
    /\ pos' = pos - 1
    /\ UNCHANGED <<hierarchy, frames, thrown, throws, pc, stop, catchTemp, handlerSwitchValue,
                   ip, selector, cleanups>>

InstallCleanup ==
    /\ pc = "unwind" /\ pos > 0 /\ pos # stop
    /\ IsCleanup(frames[pos])
    /\ Reread(frames[pos])
    /\ ip' = Pad(pos)
    /\ selector' = Selector(CallSite(frames[pos]).chain)
    /\ pc' = "pad"
    /\ UNCHANGED <<hierarchy, frames, thrown, throws, pos, stop, catchTemp, handlerSwitchValue,
                   cleanups>>

\* The handler frame of a foreign exception: everything is looked up again.
\* When there is no call site, address 0 is installed.
InstallForeign ==
    /\ pc = "unwind" /\ pos = stop /\ stop > 0 /\ ~IsCxx
    /\ IF IsGap(frames[pos])
       THEN pc' = "nullJump" /\ UNCHANGED <<ip, selector>>
       ELSE /\ pc' = "pad"
            /\ ip' = Pad(pos)
            /\ selector' = Selector(CallSite(frames[pos]).chain)
    /\ UNCHANGED <<hierarchy, frames, thrown, throws, pos, stop, header, cleanups>>

\* catchTemp is null in the handler frame: std::terminate.
TerminateAtGap ==
    /\ pc = "unwind" /\ pos = stop /\ stop > 0 /\ IsCxx
    /\ catchTemp = NoPad
    /\ pc' = "terminate"
    /\ UNCHANGED <<hierarchy, frames, thrown, throws, pos, stop, header, ip, selector, cleanups>>

\* Mutant: the cached landing pad is kept.
MutantInstallHandler ==
    /\ pc = "unwind" /\ pos = stop /\ stop > 0 /\ IsCxx
    /\ catchTemp # NoPad
    /\ ip' = catchTemp /\ selector' = handlerSwitchValue
    /\ pc' = "pad"
    /\ UNCHANGED <<hierarchy, frames, thrown, throws, pos, stop, header, cleanups>>

\* loadLandingPad; the cache is cleared.
InstallHandler ==
    /\ pc = "unwind" /\ pos = stop /\ stop > 0 /\ IsCxx
    /\ catchTemp # NoPad
    /\ ip' = catchTemp /\ selector' = handlerSwitchValue
    /\ catchTemp' = NoPad /\ handlerSwitchValue' = 0
    /\ pc' = "pad"
    /\ UNCHANGED <<hierarchy, frames, thrown, throws, pos, stop, adjustedPtr, cleanups>>

\* A forced unwind has left all frames.
ForcedUnwindEnds ==
    /\ pc = "unwind" /\ pos = 0
    /\ pc' = "finished"
    /\ UNCHANGED <<hierarchy, frames, thrown, throws, pos, stop, header, ip, selector, cleanups>>

\* The landing pad looks at the selector: a handler (__cxa_begin_catch), the
\* cleanup and _Unwind_Resume, or __cxa_call_unexpected.
LandingPad ==
    /\ pc = "pad"
    /\ pc' = CASE selector > 0 -> "handler"
               [] selector = 0 -> "unwind"
               [] selector < 0 -> "unexpected"
    /\ pos' = IF selector = 0 THEN pos - 1 ELSE pos
    /\ cleanups' = IF selector = 0 THEN Append(cleanups, pos) ELSE cleanups
    /\ UNCHANGED <<hierarchy, frames, thrown, throws, stop, header, ip, selector>>

Next ==
    \/ \E f \in Shapes : Call(f) \/ Rethrow(f)
    \/ \E x \in ThrownTypes \cup {Foreign, Forced} : Throw(x)
    \/ SearchContinues \/ SearchFindsGap \/ SearchFindsHandler \/ EndOfStack
    \/ UnwindContinues \/ InstallCleanup \/ InstallForeign \/ TerminateAtGap \/ InstallHandler
    \/ ForcedUnwindEnds \/ LandingPad \/ HandlerEnds

Spec == Init /\ [][Next]_vars
-----------------------------------------------------------------------------
(***************************************************************************)
(* The stack as the source text of the functions has it, without tables    *)
(* and phases. Whether a type matches is IsMatch of TypeInfo.              *)
(***************************************************************************)
Covering(f) == {i \in DOMAIN f.sites : f.ip \in f.sites[i].start + 1 .. f.sites[i].start + f.sites[i].size}
Clauses(f) == UNION {{f.sites[i].chain} : i \in Covering(f)}
Allows(type) == type = CatchAll \/ (IsCxx /\ IsMatch(hierarchy, type, thrown))
\* __do_catch matches where IsMatch does, for the types of an instance, and
\* adjusts the pointer to a subobject of the handler's class.
MatchingIsRight ==
    \A H \in Hierarchies, h \in HandlerTypes \ {CatchAll}, x \in ThrownTypes :
        LET ptr == do_catch(H, h, x, << x.class >>)
        IN  IF IsMatch(H, h, x) THEN ptr \in MatchTargets(H, h, x) \ {NoMatch} ELSE ptr = NoMatch

Takes(clause) ==
    LET allowed == \E i \in DOMAIN clause.types : Allows(clause.types[i])
    IN  \/ clause.filter > 0 /\ allowed
        \/ clause.filter < 0 /\ IsCxx /\ ~allowed

\* The frame in which the exception stops: its call may not throw at all, or
\* it has a handler for the exception or does not let it out. 0 if none.
StopFrame ==
    LET F == {p \in DOMAIN frames :
                 /\ frames[p].lsda
                 /\ Covering(frames[p]) = {}
                    \/ \E c \in Clauses(frames[p]) : \E i \in DOMAIN c : Takes(c[i])}
    IN  IF F = {} THEN 0 ELSE Max(F)

\* The clause that takes the exception there: the first one.
StopClause(p) ==
    LET c == CHOOSE c \in Clauses(frames[p]) : TRUE
    IN  c[Min({i \in DOMAIN c : Takes(c[i])})]

HasCleanup(f) ==
    /\ f.lsda
    /\ \E i \in Covering(f) :
          /\ f.sites[i].pad
          /\ f.sites[i].chain = << >> \/ \E j \in DOMAIN f.sites[i].chain : f.sites[i].chain[j].filter = 0
-----------------------------------------------------------------------------
(***************************************************************************)
(* The handler that runs is the first matching one of the innermost frame  *)
(* that has one, std::terminate is called only when the exception stops at *)
(* a call that may not throw, and an exception is uncaught only when no    *)
(* frame takes it. This holds for rethrown exceptions too, whose header    *)
(* still has what was cached before. A forced unwind runs no handler       *)
(* ("ignore handlers this time").                                          *)
(***************************************************************************)
HandlerIsFirstMatch ==
    /\ pc = "handler" => /\ pos = StopFrame
                         /\ Covering(frames[pos]) # {}
                         /\ selector = StopClause(pos).filter
    /\ pc = "terminate" => pos = StopFrame /\ Covering(frames[pos]) = {}
    /\ pc = "uncaught" => StopFrame = 0
    /\ thrown = Forced => pc \notin {"handler", "terminate", "unexpected"}

\* The type of the handler that runs, and the subobjects it may be given.
HandlerType == StopClause(pos).types[1]
HandlerObjects ==
    IF HandlerType = CatchAll THEN {<< thrown.class >>}
    ELSE MatchTargets(hierarchy, HandlerType, thrown)

\* A frame was left that has an exception specification.
SpecificationPassed ==
    \E p \in stop + 1 .. Len(frames) : \E c \in Clauses(frames[p]) :
        \E i \in DOMAIN c : c[i].filter < 0

(***************************************************************************)
(* "Throwing a class and catching a virtual superclass": __cxa_begin_catch *)
(* returns the subobject of the handler's type, found in phase 1 and kept  *)
(* in adjustedPtr while phase 2 reads the tables of other frames, unless   *)
(* one of those has an exception specification.                            *)
(***************************************************************************)
HandlerGetsObject ==
    pc = "handler" /\ IsCxx /\ ~SpecificationPassed => adjustedPtr \in HandlerObjects

(***************************************************************************)
(* When control reaches the frame that takes the exception, the cleanups   *)
(* of all inner frames have run, once each and innermost first. None runs  *)
(* for an exception that nobody catches: "avoid any stack unwinding if     *)
(* there is no handler".                                                   *)
(***************************************************************************)
CleanupsRun ==
    /\ pc \in {"handler", "terminate", "nullJump"} =>
          /\ {cleanups[i] : i \in DOMAIN cleanups} =
                {p \in stop + 1 .. Len(frames) : HasCleanup(frames[p])}
          /\ \A i, j \in DOMAIN cleanups : i < j => cleanups[i] > cleanups[j]
    /\ pc = "uncaught" => cleanups = << >>

(***************************************************************************)
(* A landing pad is entered only in the frame and for the call it belongs  *)
(* to: the landing pad cached by phase 1 is used once and never survives   *)
(* into the next throw of the same exception.                              *)
(***************************************************************************)
NoStaleLandingPad ==
    pc = "pad" => ip = Pad(pos) /\ HasPad(frames[pos])

(***************************************************************************)
(* __do_upcast "adjusts the pointer" if the upcast is possible: when an    *)
(* object has exactly one subobject of a class, __dynamic_cast and upcasts *)
(* find that one, through virtual and repeated bases, and when it has none *)
(* they fail. __do_catch, which casts for handlers, matches if and only if *)
(* IsMatch, that is, as the language says except that a base class matches *)
(* also where it is ambiguous or not public, and then gives a subobject of *)
(* the handler's class: the only one unless it is ambiguous. It depends on *)
(* the hierarchy only, so the initial states are enough.                   *)
(***************************************************************************)
CastsFindTheBase ==
    frames = << >> =>
        /\ \A c, b \in DOMAIN hierarchy :
              LET S == SubobjectsOf(hierarchy, c, b)
              IN  /\ Cardinality(S) = 1 => dynamic_cast(hierarchy, c, b) \in S
                  /\ S = {} => dynamic_cast(hierarchy, c, b) = NullPtr
        /\ MatchingIsRight
==============================================================================
