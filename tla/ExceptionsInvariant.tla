------------------------- MODULE ExceptionsInvariant -------------------------
(***************************************************************************)
(* The inductive invariant of Exceptions: how headers, lists, counters and *)
(* exception_ptrs agree with the scopes the threads are in, for any number *)
(* of threads, exceptions and exception_ptrs and any depth of nesting.     *)
(* After it, the lemmas that say which parts a step leaves alone.          *)
(***************************************************************************)
EXTENDS Exceptions, FiniteSetTheorems, SequenceTheorems, TLAPS
-----------------------------------------------------------------------------
(***************************************************************************)
(* What links the scopes of one thread to the headers of the exceptions in *)
(* them and to the thread's __cxa_thread_info, and the lemmas that say how *)
(* throw, rethrow, __cxa_begin_catch and __cxa_end_catch maintain it.      *)
(*                                                                         *)
(* The scopes are seen through H, the positions of the handlers, U, the    *)
(* positions of the exceptions in flight, and x, which gives the exception *)
(* at a position. h stands for the headers and r for the thread info.      *)
(***************************************************************************)
\* A position more and a position less.
Plus(S, p) == S \cup {p}
Minus(S, p) == S \ {p}

\* The handlers of e.
Handling(H, x, e) == {i \in H : x[i] = e}

\* The positions of the C++ exceptions in flight.
InFlight(U, x) == {i \in U : x[i] \notin ForeignObjs}

\* A C++ exception is in flight once, above its handlers, and there are no
\* other handlers among its own.
OneFlight(U, x) == \A i, j \in U : x[i] = x[j] /\ x[i] \in Objs => i = j
AboveHandlers(H, U, x) == \A i \in H, j \in U : x[i] = x[j] => i < j
Contiguous(H, U, x) ==
    \A i, j \in H, k \in H \cup U : i < j /\ j < k /\ x[i] = x[k] => x[j] = x[i]

\* caughtExceptions is the exception of the innermost handler.
HeadIs(H, x, caught) ==
    /\ H = {} => caught = Null
    /\ \A i \in H : (\A j \in H : j <= i) => caught = x[i]

\* nextException is the exception of the first handler outside its own.
NextIs(H, x, h) ==
    \A i \in H : x[i] \in Objs =>
        /\ (\A j \in H : i <= j) => h[x[i]].nextException = Null
        /\ \A k \in H : k < i /\ x[k] # x[i] /\ (\A j \in H : j <= k \/ i <= j)
                           => h[x[i]].nextException = x[k]

\* handlerCount is the number of handlers, negative while in flight.
CountIs(H, U, x, h) ==
    \A i \in H \cup U : x[i] \in Objs =>
        h[x[i]].handlerCount = IF \E j \in U : x[j] = x[i]
                               THEN -Cardinality(Handling(H, x, x[i]))
                               ELSE Cardinality(Handling(H, x, x[i]))

\* uncaughtExceptions is the number of C++ exceptions in flight.
UncaughtIs(U, x, n) ==
    "foreignCatch" \notin Habits => n = Cardinality(InFlight(U, x))

\* The handler of a foreign exception is the only handler, and
\* foreign_exception_state says whether that exception is in flight again.
ForeignIs(H, U, x, r) ==
    /\ \A i \in H : x[i] \in ForeignObjs => r.foreign # "none" /\ \A j \in H : j = i
    /\ r.foreign # "none" => \E i \in H : x[i] \in ForeignObjs
    /\ r.foreign = "caught" => \A j \in U : x[j] # r.caught
    /\ r.foreign = "rethrown" => \E j \in U : x[j] = r.caught
    /\ \A i, j \in U : i # j /\ x[i] = x[j] => \E k \in H : x[k] = x[i]

Positions(H, U, x) ==
    /\ H \cap U = {}
    /\ \E n \in Nat : H \cup U \subseteq 1 .. n
    /\ \A i \in H \cup U : x[i] \in Blocks

Linked(H, U, x, h, r) ==
    /\ Positions(H, U, x)
    /\ OneFlight(U, x) /\ AboveHandlers(H, U, x) /\ Contiguous(H, U, x)
    /\ HeadIs(H, x, r.caught) /\ NextIs(H, x, h) /\ CountIs(H, U, x, h)
    /\ UncaughtIs(U, x, r.uncaught) /\ ForeignIs(H, U, x, r)

ThreadInfo == [caught : Blocks \cup {Null}, uncaught : Int,
               foreign : {"none", "caught", "rethrown"}]
-----------------------------------------------------------------------------
\* The solver does not simplify the negation of the literal by itself.
LEMMA MinusZero == -0 = 0
  <1>1. \A k \in Int : -k = 0 - k
    OBVIOUS
  <1>2. 0 \in Int /\ 0 - 0 = 0
    OBVIOUS
  <1> QED BY <1>1, <1>2, Zenon

\* A set of numbers has a least and, when it is finite, a greatest element.
LEMMA LeastPosition ==
    ASSUME NEW I, I \subseteq Nat, I # {}
    PROVE  \E i \in I : \A j \in I : i <= j
  <1>1. PICK i \in I : \A j \in I : ~(<<j, i>> \in OpToRel(<, Nat))
    BY NatLessThanWellFounded, WFMin
  <1>2. \A j \in I : ~(j < i)
    BY <1>1 DEF OpToRel
  <1> QED BY <1>2

LEMMA BoundedGreatest ==
    ASSUME NEW I, I \subseteq Nat, I # {}, NEW n \in Nat, \A i \in I : i <= n
    PROVE  \E i \in I : \A j \in I : j <= i
  <1> DEFINE D == {d \in Nat : \E i \in I : d = n - i}
  <1>1. D \subseteq Nat /\ D # {}
    <2>1. PICK i \in I : TRUE
      OBVIOUS
    <2>2. n - i \in D
      BY <2>1
    <2> QED BY <2>2
  <1>2. PICK d \in D : \A f \in D : d <= f
    BY <1>1, LeastPosition
  <1>3. PICK i \in I : d = n - i
    OBVIOUS
  <1>4. ASSUME NEW j \in I PROVE j <= i
    <2>1. n - j \in D
      OBVIOUS
    <2> QED BY <2>1, <1>2, <1>3
  <1> QED BY <1>4

\* Positions are finite in number, and so are the handlers of an exception.
LEMMA PositionsFinite ==
    ASSUME NEW H, NEW U, NEW x, Positions(H, U, x)
    PROVE  /\ H \subseteq Nat /\ U \subseteq Nat
           /\ IsFiniteSet(InFlight(U, x)) /\ Cardinality(InFlight(U, x)) \in Nat
           /\ H # {} => \E i \in H : \A j \in H : j <= i
  <1>1. PICK n \in Nat : H \cup U \subseteq 1 .. n
    BY DEF Positions
  <1>2. IsFiniteSet(1 .. n)
    BY FS_Interval
  <1>3. IsFiniteSet(InFlight(U, x)) /\ Cardinality(InFlight(U, x)) \in Nat
    BY <1>1, <1>2, FS_Subset, FS_CardinalityType, InFlight(U, x) \in SUBSET (1 .. n) DEF InFlight
  <1>4. H # {} => \E i \in H : \A j \in H : j <= i
    BY <1>1, BoundedGreatest, \A i \in H : i <= n
  <1> QED BY <1>1, <1>3, <1>4

LEMMA HandlingFinite ==
    ASSUME NEW H, NEW U, NEW x, Positions(H, U, x), NEW e
    PROVE  /\ IsFiniteSet(Handling(H, x, e))
           /\ Cardinality(Handling(H, x, e)) \in Nat
           /\ Cardinality(Handling(H, x, e)) = 0 <=> \A i \in H : x[i] # e
  <1>1. PICK n \in Nat : H \cup U \subseteq 1 .. n
    BY DEF Positions
  <1>2. IsFiniteSet(1 .. n)
    BY FS_Interval
  <1>3. Handling(H, x, e) \in SUBSET (1 .. n)
    BY <1>1 DEF Handling
  <1>4. IsFiniteSet(Handling(H, x, e)) /\ Cardinality(Handling(H, x, e)) \in Nat
    BY <1>2, <1>3, FS_Subset, FS_CardinalityType
  <1>5. Cardinality(Handling(H, x, e)) = 0 <=> Handling(H, x, e) = {}
    BY <1>4, FS_EmptySet
  <1> QED BY <1>4, <1>5 DEF Handling

-----------------------------------------------------------------------------
\* No scopes, and the thread info of a new thread.
LEMMA LinkedEmpty ==
    ASSUME NEW x, NEW h, NEW r, r = [caught |-> Null, uncaught |-> 0, foreign |-> "none"]
    PROVE  Linked({}, {}, x, h, r)
  <1>1. Positions({}, {}, x)
    BY 0 \in Nat DEF Positions
  <1>2. UncaughtIs({}, x, r.uncaught)
    <2>1. InFlight({}, x) = {}
      BY DEF InFlight
    <2> QED BY <2>1, FS_EmptySet DEF UncaughtIs
  <1> QED
    BY <1>1, <1>2 DEF Linked, OneFlight, AboveHandlers, Contiguous, HeadIs, NextIs, CountIs, ForeignIs

\* Nothing that matters to the thread changes.
LEMMA LinkedFrame ==
    ASSUME NEW H, NEW U, NEW x, NEW h, NEW r, Linked(H, U, x, h, r),
           NEW y, \A i \in H \cup U : y[i] = x[i],
           NEW g, \A i \in H \cup U : x[i] \in Objs =>
                      /\ g[x[i]].handlerCount = h[x[i]].handlerCount
                      /\ g[x[i]].nextException = h[x[i]].nextException
    PROVE  Linked(H, U, y, g, r)
  <1>1. \A e : Handling(H, y, e) = Handling(H, x, e)
    BY DEF Handling
  <1>2. InFlight(U, y) = InFlight(U, x)
    BY DEF InFlight
  <1>3. Positions(H, U, y)
    BY DEF Linked, Positions
  <1>4. OneFlight(U, y) /\ AboveHandlers(H, U, y) /\ Contiguous(H, U, y)
    BY DEF Linked, OneFlight, AboveHandlers, Contiguous
  <1>5. HeadIs(H, y, r.caught) /\ NextIs(H, y, g)
    BY DEF Linked, HeadIs, NextIs
  <1>6. CountIs(H, U, y, g)
    BY <1>1 DEF Linked, CountIs
  <1>7. UncaughtIs(U, y, r.uncaught)
    BY <1>2 DEF Linked, UncaughtIs
  <1>8. ForeignIs(H, U, y, r)
    BY DEF Linked, ForeignIs
  <1> QED BY <1>3, <1>4, <1>5, <1>6, <1>7, <1>8 DEF Linked

\* One more position on top of the others.
LEMMA PositionsPush ==
    ASSUME NEW H, NEW U, NEW x, Positions(H, U, x),
           NEW p \in Nat \ {0}, \A i \in H \cup U : i < p,
           NEW y, \A i \in H \cup U : y[i] = x[i], y[p] \in Blocks
    PROVE  /\ Positions(H, U \cup {p}, y)
           /\ p \notin U /\ p \notin H
           /\ \A e : Handling(H, y, e) = Handling(H, x, e)
           /\ Cardinality(InFlight(U \cup {p}, y)) =
                 IF y[p] \in ForeignObjs THEN Cardinality(InFlight(U, x))
                 ELSE Cardinality(InFlight(U, x)) + 1
  <1> DEFINE C == InFlight(U \cup {p}, y)
             D == InFlight(U, x)
  <1>1. PICK n \in Nat : H \cup U \subseteq 1 .. n
    BY DEF Positions
  <1>2. p \notin U /\ p \notin H
    BY <1>1
  <1>3. H \cup (U \cup {p}) \subseteq 1 .. (n + p)
    BY <1>1
  <1>4. Positions(H, U \cup {p}, y)
    BY <1>2, <1>3, n + p \in Nat DEF Positions
  <1>5. \A e : Handling(H, y, e) = Handling(H, x, e)
    BY DEF Handling
  <1>6. Cardinality(C) = IF y[p] \in ForeignObjs THEN Cardinality(D) ELSE Cardinality(D) + 1
    <2>1. IsFiniteSet(D) /\ p \notin D
      BY <1>2, PositionsFinite DEF InFlight
    <2>2. CASE y[p] \in ForeignObjs
      BY <2>2, C = D DEF InFlight
    <2>3. CASE y[p] \notin ForeignObjs
      <3>1. C = D \cup {p}
        BY <2>3 DEF InFlight
      <3> QED BY <2>1, <2>3, <3>1, FS_AddElement
    <2> QED BY <2>2, <2>3
  <1> QED BY <1>2, <1>4, <1>5, <1>6

\* An exception that the thread did not have yet is thrown.
LEMMA LinkedThrow ==
    ASSUME NEW H, NEW U, NEW x, NEW h, NEW r \in ThreadInfo, Linked(H, U, x, h, r),
           NEW p \in Nat \ {0}, \A i \in H \cup U : i < p,
           NEW y, \A i \in H \cup U : y[i] = x[i],
           NEW e \in Blocks, y[p] = e, \A i \in H \cup U : x[i] # e,
           NEW g, \A i \in H \cup U : x[i] \in Objs =>
                      /\ g[x[i]].handlerCount = h[x[i]].handlerCount
                      /\ g[x[i]].nextException = h[x[i]].nextException,
           e \in Objs => g[e].handlerCount = 0,
           NEW q, q.caught = r.caught, q.foreign = r.foreign,
           q.uncaught = IF e \in ForeignObjs THEN r.uncaught ELSE r.uncaught + 1,
           e # r.caught
    PROVE  Linked(H, U \cup {p}, y, g, q)
  <1> DEFINE V == U \cup {p}
  <1>1. Positions(H, U, x)
    BY DEF Linked
  <1>2. /\ Positions(H, V, y) /\ p \notin U /\ p \notin H
        /\ \A f : Handling(H, y, f) = Handling(H, x, f)
        /\ Cardinality(InFlight(V, y)) =
              IF y[p] \in ForeignObjs THEN Cardinality(InFlight(U, x))
              ELSE Cardinality(InFlight(U, x)) + 1
    <2>1. y[p] \in Blocks
      OBVIOUS
    <2> HIDE DEF V
    <2> QED BY <1>1, <2>1, PositionsPush DEF V
  <1>3. OneFlight(V, y)
    BY <1>2 DEF Linked, OneFlight
  <1>4. AboveHandlers(H, V, y)
    BY <1>2 DEF Linked, AboveHandlers
  <1>5. Contiguous(H, V, y)
    BY <1>2 DEF Linked, Contiguous
  <1>6. HeadIs(H, y, q.caught) /\ NextIs(H, y, g)
    BY DEF Linked, HeadIs, NextIs
  <1>7. CountIs(H, V, y, g)
    <2>1. ASSUME NEW i \in H \cup U, y[i] \in Objs
          PROVE  g[y[i]].handlerCount = IF \E j \in V : y[j] = y[i]
                                        THEN -Cardinality(Handling(H, y, y[i]))
                                        ELSE Cardinality(Handling(H, y, y[i]))
      BY <1>2, <2>1 DEF Linked, CountIs
    <2>2. y[p] \in Objs => Cardinality(Handling(H, y, e)) = 0
      <3>1. Cardinality(Handling(H, x, e)) = 0
        BY <1>1, HandlingFinite
      <3> QED BY <1>2, <3>1
    <2> QED BY <2>1, <2>2 DEF CountIs
  <1>8. UncaughtIs(V, y, q.uncaught)
    BY <1>2 DEF Linked, UncaughtIs
  <1>9. ForeignIs(H, V, y, q)
    <2>1. \A i, j \in V : i # j /\ y[i] = y[j] => i \in U /\ j \in U
      OBVIOUS
    <2> QED BY <2>1 DEF Linked, ForeignIs
  <1> QED BY <1>2, <1>3, <1>4, <1>5, <1>6, <1>7, <1>8, <1>9 DEF Linked

\* A C++ exception whose handlerCount is positive is not in flight.
LEMMA PositiveCount ==
    ASSUME NEW H, NEW U, NEW x, NEW h, NEW r, Linked(H, U, x, h, r),
           r.caught \in Objs, h[r.caught].handlerCount > 0
    PROVE  \A i \in U : x[i] # r.caught
  <1>1. SUFFICES ASSUME NEW i \in U, x[i] = r.caught PROVE FALSE
    OBVIOUS
  <1>2. h[r.caught].handlerCount = -Cardinality(Handling(H, x, r.caught))
    BY <1>1 DEF Linked, CountIs
  <1>3. Cardinality(Handling(H, x, r.caught)) \in Nat
    BY HandlingFinite DEF Linked
  <1> QED BY <1>2, <1>3

\* The innermost handler handles the current exception, if there is one.
LEMMA InnermostHandler ==
    ASSUME NEW H, NEW U, NEW x, NEW h, NEW r, Linked(H, U, x, h, r), r.caught # Null
    PROVE  \E i \in H : x[i] = r.caught /\ \A j \in H : j <= i
  <1>1. H # {} /\ Positions(H, U, x)
    BY DEF Linked, HeadIs
  <1>2. PICK i \in H : \A j \in H : j <= i
    BY <1>1, PositionsFinite
  <1> QED BY <1>2 DEF Linked, HeadIs

\* __cxa_rethrow of the current exception, a C++ exception.
LEMMA LinkedRethrow ==
    ASSUME NEW H, NEW U, NEW x, NEW h, NEW r \in ThreadInfo, Linked(H, U, x, h, r),
           NEW p \in Nat \ {0}, \A i \in H \cup U : i < p,
           NEW e \in Objs, e = r.caught, h[e].handlerCount > 0, h[e].handlerCount \in Int,
           NEW y, \A i \in H \cup U : y[i] = x[i], y[p] = e,
           NEW g, g[e].handlerCount = -h[e].handlerCount,
           g[e].nextException = h[e].nextException,
           \A i \in H \cup U : x[i] \in Objs /\ x[i] # e =>
                      /\ g[x[i]].handlerCount = h[x[i]].handlerCount
                      /\ g[x[i]].nextException = h[x[i]].nextException,
           NEW q, q.caught = r.caught, q.foreign = r.foreign, q.uncaught = r.uncaught + 1
    PROVE  Linked(H, U \cup {p}, y, g, q)
  <1> DEFINE V == U \cup {p}
  <1>0. e \in Blocks /\ e \notin ForeignObjs /\ e # Null
    BY ExceptionsAssumption DEF Blocks
  <1>1. Positions(H, U, x)
    BY DEF Linked
  <1>2. /\ Positions(H, V, y) /\ p \notin U /\ p \notin H
        /\ \A f : Handling(H, y, f) = Handling(H, x, f)
        /\ Cardinality(InFlight(V, y)) = Cardinality(InFlight(U, x)) + 1
    BY <1>0, <1>1, PositionsPush
  <1>3. \A i \in U : x[i] # e
    BY PositiveCount
  <1>4. PICK m \in H : x[m] = e /\ \A j \in H : j <= m
    BY <1>0, InnermostHandler
  <1>5. H \subseteq Nat
    BY <1>1, PositionsFinite
  <1>6. OneFlight(V, y) /\ AboveHandlers(H, V, y)
    BY <1>2, <1>3 DEF Linked, OneFlight, AboveHandlers
  <1>7. Contiguous(H, V, y)
    <2>1. SUFFICES ASSUME NEW i \in H, NEW j \in H, i < j, x[i] = e PROVE x[j] = e
      BY <1>2 DEF Linked, Contiguous
    <2>2. j = m \/ j < m
      BY <1>4, <1>5
    <2> QED BY <2>1, <2>2, <1>4 DEF Linked, Contiguous
  <1>8. HeadIs(H, y, q.caught) /\ NextIs(H, y, g)
    BY DEF Linked, HeadIs, NextIs
  <1>9. CountIs(H, V, y, g)
    <2>1. h[e].handlerCount = Cardinality(Handling(H, x, e))
      BY <1>3, <1>4 DEF Linked, CountIs
    <2>2. ASSUME NEW i \in H \cup U, x[i] \in Objs, x[i] # e
          PROVE  g[y[i]].handlerCount = IF \E j \in V : y[j] = y[i]
                                        THEN -Cardinality(Handling(H, y, y[i]))
                                        ELSE Cardinality(Handling(H, y, y[i]))
      BY <1>2, <2>2 DEF Linked, CountIs
    <2> QED BY <1>2, <2>1, <2>2 DEF CountIs
  <1>10. UncaughtIs(V, y, q.uncaught)
    BY <1>2 DEF Linked, UncaughtIs
  <1>11. ForeignIs(H, V, y, q)
    <2>1. r.foreign = "none"
      BY <1>0, <1>4 DEF Linked, ForeignIs
    <2> QED BY <1>3, <2>1 DEF Linked, ForeignIs
  <1> QED BY <1>2, <1>6, <1>7, <1>8, <1>9, <1>10, <1>11 DEF Linked

\* __cxa_rethrow of a foreign exception.
LEMMA LinkedRethrowForeign ==
    ASSUME NEW H, NEW U, NEW x, NEW h, NEW r \in ThreadInfo, Linked(H, U, x, h, r),
           NEW p \in Nat \ {0}, \A i \in H \cup U : i < p,
           r.foreign # "none",
           NEW y, \A i \in H \cup U : y[i] = x[i], y[p] = r.caught,
           NEW q, q.caught = r.caught, q.foreign = "rethrown", q.uncaught = r.uncaught
    PROVE  Linked(H, U \cup {p}, y, h, q) /\ r.caught \in ForeignObjs
  <1> DEFINE V == U \cup {p}
  <1>1. Positions(H, U, x)
    BY DEF Linked
  <1>2. PICK m \in H : x[m] \in ForeignObjs /\ \A j \in H : j = m
    BY DEF Linked, ForeignIs
  <1>3. H \subseteq Nat
    BY <1>1, PositionsFinite
  <1>4. r.caught = x[m]
    BY <1>2, <1>3 DEF Linked, HeadIs
  <1>5. r.caught \in ForeignObjs /\ r.caught \in Blocks /\ r.caught \notin Objs
    BY <1>2, <1>4, ExceptionsAssumption DEF Blocks
  <1>6. /\ Positions(H, V, y) /\ p \notin U /\ p \notin H
        /\ \A f : Handling(H, y, f) = Handling(H, x, f)
        /\ Cardinality(InFlight(V, y)) = Cardinality(InFlight(U, x))
    BY <1>1, <1>5, PositionsPush
  <1>7. OneFlight(V, y) /\ AboveHandlers(H, V, y) /\ Contiguous(H, V, y)
    BY <1>2, <1>5, <1>6 DEF Linked, OneFlight, AboveHandlers, Contiguous
  <1>8. HeadIs(H, y, q.caught) /\ NextIs(H, y, h)
    BY DEF Linked, HeadIs, NextIs
  <1>9. CountIs(H, V, y, h)
    BY <1>5, <1>6 DEF Linked, CountIs
  <1>10. UncaughtIs(V, y, q.uncaught)
    BY <1>6 DEF Linked, UncaughtIs
  <1>11. ForeignIs(H, V, y, q)
    BY <1>2, <1>4, <1>6 DEF Linked, ForeignIs
  <1> QED BY <1>5, <1>6, <1>7, <1>8, <1>9, <1>10, <1>11 DEF Linked

\* foreign_exception_state is set exactly while the current exception is
\* foreign.
LEMMA ForeignCurrent ==
    ASSUME NEW H, NEW U, NEW x, NEW h, NEW r, Linked(H, U, x, h, r)
    PROVE  r.foreign # "none" <=> r.caught \in ForeignObjs
  <1>1. H \subseteq Nat
    BY PositionsFinite DEF Linked
  <1>2. ASSUME r.foreign # "none" PROVE r.caught \in ForeignObjs
    <2>1. PICK m \in H : x[m] \in ForeignObjs /\ \A j \in H : j = m
      BY <1>2 DEF Linked, ForeignIs
    <2>2. \A j \in H : j <= m
      BY <1>1, <2>1
    <2> QED BY <2>1, <2>2 DEF Linked, HeadIs
  <1>3. ASSUME r.caught \in ForeignObjs PROVE r.foreign # "none"
    <2>1. r.caught # Null
      BY <1>3, ExceptionsAssumption
    <2>2. PICK m \in H : x[m] = r.caught
      BY <2>1, InnermostHandler
    <2> QED BY <1>3, <2>2 DEF Linked, ForeignIs
  <1> QED BY <1>2, <1>3

\* The exception in flight on top becomes a handler.
LEMMA PositionsCatch ==
    ASSUME NEW H, NEW U, NEW x, Positions(H, U, x), NEW p \in U, NEW e, x[p] = e
    PROVE  /\ Positions(Plus(H, p), Minus(U, p), x)
           /\ \A f : f # e => Handling(Plus(H, p), x, f) = Handling(H, x, f)
           /\ Cardinality(Handling(Plus(H, p), x, e)) = Cardinality(Handling(H, x, e)) + 1
           /\ Cardinality(InFlight(Minus(U, p), x)) =
                 IF e \in ForeignObjs THEN Cardinality(InFlight(U, x))
                 ELSE Cardinality(InFlight(U, x)) - 1
  <1>1. Positions(Plus(H, p), Minus(U, p), x)
    BY DEF Positions, Plus, Minus
  <1>2. p \notin H
    BY DEF Positions
  <1>3. \A f : f # e => Handling(Plus(H, p), x, f) = Handling(H, x, f)
    BY DEF Handling, Plus
  <1>4. Cardinality(Handling(Plus(H, p), x, e)) = Cardinality(Handling(H, x, e)) + 1
    <2>1. /\ Handling(Plus(H, p), x, e) = Handling(H, x, e) \cup {p}
          /\ p \notin Handling(H, x, e)
      BY <1>2 DEF Handling, Plus
    <2>2. IsFiniteSet(Handling(H, x, e))
      BY HandlingFinite
    <2> QED BY <2>1, <2>2, FS_AddElement
  <1>5. IsFiniteSet(InFlight(U, x))
    BY PositionsFinite
  <1>6. CASE e \in ForeignObjs
    <2>1. InFlight(Minus(U, p), x) = InFlight(U, x)
      BY <1>6 DEF InFlight, Minus
    <2> QED BY <1>1, <1>3, <1>4, <1>6, <2>1
  <1>7. CASE e \notin ForeignObjs
    <2>1. InFlight(Minus(U, p), x) = InFlight(U, x) \ {p} /\ p \in InFlight(U, x)
      BY <1>7 DEF InFlight, Minus
    <2>2. Cardinality(InFlight(U, x) \ {p}) = Cardinality(InFlight(U, x)) - 1
      BY <1>5, <2>1, FS_RemoveElement
    <2> QED BY <1>1, <1>3, <1>4, <1>7, <2>1, <2>2
  <1> QED BY <1>6, <1>7

\* __cxa_begin_catch of a C++ exception.
LEMMA LinkedCatch ==
    ASSUME NEW H, NEW U, NEW x, NEW h, NEW r \in ThreadInfo, Linked(H, U, x, h, r),
           NEW p \in U, \A i \in (H \cup U) \ {p} : i < p,
           NEW e \in Objs, x[p] = e, r.caught \notin ForeignObjs,
           NEW g,
           g[e].handlerCount = IF h[e].handlerCount < 0 THEN -h[e].handlerCount + 1
                               ELSE h[e].handlerCount + 1,
           g[e].nextException = IF h[e].handlerCount = 0 THEN r.caught ELSE h[e].nextException,
           \A i \in H \cup U : x[i] \in Objs /\ x[i] # e =>
                      /\ g[x[i]].handlerCount = h[x[i]].handlerCount
                      /\ g[x[i]].nextException = h[x[i]].nextException,
           NEW q, q.caught = IF h[e].handlerCount = 0 THEN e ELSE r.caught,
           q.foreign = "none", q.uncaught = r.uncaught - 1
    PROVE  Linked(Plus(H, p), Minus(U, p), x, g, q)
  <1> DEFINE K == Plus(H, p)
             V == Minus(U, p)
  <1>0. e \in Blocks /\ e \notin ForeignObjs /\ e # Null
    BY ExceptionsAssumption DEF Blocks
  <1>p. Positions(H, U, x)
    BY DEF Linked
  <1>1. H \subseteq Nat /\ U \subseteq Nat /\ p \notin H
    BY <1>p, PositionsFinite DEF Positions
  <1>2. /\ Positions(K, V, x)
        /\ \A f : f # e => Handling(K, x, f) = Handling(H, x, f)
        /\ Cardinality(Handling(K, x, e)) = Cardinality(Handling(H, x, e)) + 1
        /\ Cardinality(InFlight(V, x)) = Cardinality(InFlight(U, x)) - 1
    <2>1. Positions(K, V, x)
      BY <1>p, PositionsCatch
    <2>2. \A f : f # e => Handling(K, x, f) = Handling(H, x, f)
      BY <1>p, PositionsCatch
    <2>3. Cardinality(Handling(K, x, e)) = Cardinality(Handling(H, x, e)) + 1
      BY <1>p, PositionsCatch
    <2>4. e \notin ForeignObjs => Cardinality(InFlight(V, x)) = Cardinality(InFlight(U, x)) - 1
      BY <1>p, PositionsCatch
    <2> QED BY <1>0, <2>1, <2>2, <2>3, <2>4
  <1>3. /\ Cardinality(Handling(H, x, e)) \in Nat
        /\ Cardinality(Handling(H, x, e)) = 0 <=> \A i \in H : x[i] # e
    BY <1>p, HandlingFinite
  <1> USE DEF Plus, Minus
  <1>4. h[e].handlerCount = -Cardinality(Handling(H, x, e))
    BY DEF Linked, CountIs
  <1>5. \A i \in V : x[i] # e
    BY DEF Linked, OneFlight
  <1>6. ASSUME NEW m \in H, \A j \in H : j <= m
        PROVE  /\ r.caught = x[m]
               /\ h[e].handlerCount # 0 => x[m] = e
    <2>1. r.caught = x[m]
      BY <1>6 DEF Linked, HeadIs
    <2>2. ASSUME h[e].handlerCount # 0 PROVE x[m] = e
      <3>1. PICK i \in H : x[i] = e
        BY <1>3, <1>4, <2>2
      <3>2. i = m \/ (i < m /\ m < p)
        BY <1>1, <1>6
      <3> QED BY <3>1, <3>2 DEF Linked, Contiguous
    <2> QED BY <2>1, <2>2
  <1>7. OneFlight(V, x) /\ AboveHandlers(K, V, x)
    BY <1>5 DEF Linked, OneFlight, AboveHandlers
  <1>8. Contiguous(K, V, x)
    BY <1>1 DEF Linked, Contiguous
  <1>9. HeadIs(K, x, q.caught)
    <2>1. \A i \in K : (\A j \in K : j <= i) => i = p
      BY <1>1
    <2>2. q.caught = e
      <3>1. CASE h[e].handlerCount = 0
        BY <3>1
      <3>2. CASE h[e].handlerCount # 0
        <4>1. H # {}
          BY <1>3, <1>4, <3>2
        <4>2. PICK m \in H : \A j \in H : j <= m
          BY <1>p, <4>1, PositionsFinite
        <4> QED BY <1>6, <3>2, <4>2
      <3> QED BY <3>1, <3>2
    <2> QED BY <2>1, <2>2 DEF HeadIs
  <1>10. NextIs(K, x, g)
    <2>1. ASSUME NEW i \in H, x[i] \in Objs
          PROVE  /\ (\A j \in K : i <= j) => g[x[i]].nextException = Null
                 /\ \A k \in K : k < i /\ x[k] # x[i] /\ (\A j \in K : j <= k \/ i <= j)
                                 => g[x[i]].nextException = x[k]
      <3>1. g[x[i]].nextException = h[x[i]].nextException
        <4>1. x[i] = e => h[e].handlerCount # 0
          BY <1>3, <1>4
        <4> QED BY <2>1, <4>1
      <3> QED BY <1>1, <2>1, <3>1 DEF Linked, NextIs
    <2>2. (\A j \in K : p <= j) => g[e].nextException = Null
      <3>1. SUFFICES ASSUME \A j \in K : p <= j PROVE g[e].nextException = Null
        OBVIOUS
      <3>2. H = {}
        BY <1>1, <3>1
      <3> QED BY <1>3, <1>4, <3>2 DEF Linked, HeadIs
    <2>3. ASSUME NEW k \in K, k < p, x[k] # e, \A j \in K : j <= k \/ p <= j
          PROVE  g[e].nextException = x[k]
      <3>1. k \in H /\ \A j \in H : j <= k
        BY <1>1, <2>3
      <3> QED BY <1>6, <2>3, <3>1
    <2> QED BY <2>1, <2>2, <2>3 DEF NextIs
  <1>11. CountIs(K, V, x, g)
    <2>1. ASSUME NEW i \in K \cup V, x[i] = e
          PROVE  g[x[i]].handlerCount = IF \E j \in V : x[j] = x[i]
                                        THEN -Cardinality(Handling(K, x, x[i]))
                                        ELSE Cardinality(Handling(K, x, x[i]))
      BY <1>2, <1>3, <1>4, <1>5, <2>1
    <2>2. ASSUME NEW i \in K \cup V, x[i] \in Objs, x[i] # e
          PROVE  g[x[i]].handlerCount = IF \E j \in V : x[j] = x[i]
                                        THEN -Cardinality(Handling(K, x, x[i]))
                                        ELSE Cardinality(Handling(K, x, x[i]))
      <3>1. (\E j \in V : x[j] = x[i]) <=> \E j \in U : x[j] = x[i]
        BY <2>2
      <3>2. h[x[i]].handlerCount = IF \E j \in U : x[j] = x[i]
                                   THEN -Cardinality(Handling(H, x, x[i]))
                                   ELSE Cardinality(Handling(H, x, x[i]))
        BY <2>2 DEF Linked, CountIs
      <3>3. Handling(K, x, x[i]) = Handling(H, x, x[i])
        BY <1>2, <2>2
      <3>4. g[x[i]].handlerCount = h[x[i]].handlerCount
        BY <2>2
      <3> QED BY <3>1, <3>2, <3>3, <3>4
    <2> QED BY <2>1, <2>2 DEF CountIs
  <1>12. UncaughtIs(V, x, q.uncaught)
    BY <1>2 DEF Linked, UncaughtIs
  <1>13. ForeignIs(K, V, x, q)
    <2>1. r.foreign = "none"
      BY ForeignCurrent
    <2> QED BY <1>0, <2>1 DEF Linked, ForeignIs
  <1> QED BY <1>2, <1>7, <1>8, <1>9, <1>10, <1>11, <1>12, <1>13 DEF Linked

\* __cxa_begin_catch of a foreign exception, outside of any handler.
LEMMA LinkedCatchForeign ==
    ASSUME NEW H, NEW U, NEW x, NEW h, NEW r \in ThreadInfo, Linked(H, U, x, h, r),
           NEW p \in U, x[p] \in ForeignObjs, r.caught = Null,
           NEW q, q.caught = x[p], q.foreign = "caught", q.uncaught = r.uncaught
    PROVE  Linked(Plus(H, p), Minus(U, p), x, h, q)
  <1> DEFINE K == Plus(H, p)
             V == Minus(U, p)
  <1>0. x[p] \notin Objs
    BY ExceptionsAssumption
  <1>p. Positions(H, U, x)
    BY DEF Linked
  <1>1. H \subseteq Nat /\ U \subseteq Nat /\ p \notin H
    BY <1>p, PositionsFinite DEF Positions
  <1>2. H = {}
    <2>1. SUFFICES ASSUME H # {} PROVE FALSE
      OBVIOUS
    <2>2. PICK m \in H : \A j \in H : j <= m
      BY <1>p, <2>1, PositionsFinite
    <2>3. x[m] = Null /\ x[m] \in Blocks
      BY <2>2 DEF Linked, HeadIs, Positions
    <2> QED BY <2>3, ExceptionsAssumption DEF Blocks
  <1>3. /\ Positions(K, V, x)
        /\ \A f : f # x[p] => Handling(K, x, f) = Handling(H, x, f)
        /\ Cardinality(InFlight(V, x)) = Cardinality(InFlight(U, x))
    <2>1. /\ Positions(K, V, x)
          /\ \A f : f # x[p] => Handling(K, x, f) = Handling(H, x, f)
          /\ Cardinality(InFlight(V, x)) =
                 IF x[p] \in ForeignObjs THEN Cardinality(InFlight(U, x))
                 ELSE Cardinality(InFlight(U, x)) - 1
      BY <1>p, PositionsCatch
    <2> QED BY <2>1
  <1> USE DEF Plus, Minus
  <1>4. \A i \in V : x[i] # x[p]
    BY <1>2 DEF Linked, ForeignIs
  <1>5. OneFlight(V, x) /\ AboveHandlers(K, V, x) /\ Contiguous(K, V, x)
    BY <1>1, <1>2, <1>4 DEF Linked, OneFlight, AboveHandlers, Contiguous
  <1>6. HeadIs(K, x, q.caught) /\ NextIs(K, x, h)
    BY <1>0, <1>2 DEF HeadIs, NextIs
  <1>7. CountIs(K, V, x, h)
    <2>1. ASSUME NEW i \in K \cup V, x[i] \in Objs
          PROVE  h[x[i]].handlerCount = IF \E j \in V : x[j] = x[i]
                                        THEN -Cardinality(Handling(K, x, x[i]))
                                        ELSE Cardinality(Handling(K, x, x[i]))
      <3>1. x[i] # x[p]
        BY <1>0, <2>1
      <3>2. (\E j \in V : x[j] = x[i]) <=> \E j \in U : x[j] = x[i]
        BY <3>1
      <3>3. i \in H \cup U /\ CountIs(H, U, x, h)
        BY <1>1, <2>1, <3>1 DEF Linked
      <3>4. h[x[i]].handlerCount = IF \E j \in U : x[j] = x[i]
                                   THEN -Cardinality(Handling(H, x, x[i]))
                                   ELSE Cardinality(Handling(H, x, x[i]))
        BY <2>1, <3>3 DEF CountIs
      <3>5. Handling(K, x, x[i]) = Handling(H, x, x[i])
        BY <1>3, <3>1
      <3> QED BY <3>2, <3>4, <3>5
    <2> QED BY <2>1 DEF CountIs
  <1>8. UncaughtIs(V, x, q.uncaught)
    BY <1>3 DEF Linked, UncaughtIs
  <1>9. ForeignIs(K, V, x, q)
    BY <1>2, <1>4 DEF Linked, ForeignIs
  <1> QED BY <1>3, <1>5, <1>6, <1>7, <1>8, <1>9 DEF Linked

\* A handler ends.
LEMMA PositionsEnd ==
    ASSUME NEW H, NEW U, NEW x, Positions(H, U, x), NEW p \in H, NEW e, x[p] = e
    PROVE  /\ Positions(Minus(H, p), U, x)
           /\ \A f : f # e => Handling(Minus(H, p), x, f) = Handling(H, x, f)
           /\ Cardinality(Handling(Minus(H, p), x, e)) = Cardinality(Handling(H, x, e)) - 1
  <1>1. Positions(Minus(H, p), U, x)
    BY DEF Positions, Minus
  <1>2. \A f : f # e => Handling(Minus(H, p), x, f) = Handling(H, x, f)
    BY DEF Handling, Minus
  <1>3. Handling(Minus(H, p), x, e) = Handling(H, x, e) \ {p} /\ p \in Handling(H, x, e)
    BY DEF Handling, Minus
  <1>4. IsFiniteSet(Handling(H, x, e))
    BY HandlingFinite
  <1>5. Cardinality(Handling(Minus(H, p), x, e)) = Cardinality(Handling(H, x, e)) - 1
    BY <1>3, <1>4, FS_RemoveElement
  <1> QED BY <1>1, <1>2, <1>5

\* __cxa_end_catch of a foreign exception.
LEMMA LinkedEndForeign ==
    ASSUME NEW H, NEW U, NEW x, NEW h, NEW r \in ThreadInfo, Linked(H, U, x, h, r),
           NEW p \in H, r.foreign # "none", \A i, j \in U : p < i /\ p < j => i = j,
           NEW g, \A i \in H \cup U : x[i] \in Objs => g[x[i]] = h[x[i]],
           NEW q, q.caught = Null, q.foreign = "none", q.uncaught = r.uncaught
    PROVE  Linked(Minus(H, p), U, x, g, q)
  <1> DEFINE K == Minus(H, p)
  <1>p. Positions(H, U, x)
    BY DEF Linked
  <1>1. x[p] \in ForeignObjs /\ \A j \in H : j = p
    BY DEF Linked, ForeignIs
  <1>2. Positions(K, U, x) /\ \A f : f # x[p] => Handling(K, x, f) = Handling(H, x, f)
    BY <1>p, PositionsEnd
  <1>3. K = {}
    BY <1>1 DEF Minus
  <1>4. OneFlight(U, x) /\ AboveHandlers(K, U, x) /\ Contiguous(K, U, x)
    BY <1>3 DEF Linked, OneFlight, AboveHandlers, Contiguous
  <1>5. HeadIs(K, x, q.caught) /\ NextIs(K, x, g)
    BY <1>3 DEF HeadIs, NextIs
  <1>6. CountIs(K, U, x, g)
    <2>1. \A i \in U : x[i] \in Objs => x[i] # x[p]
      BY <1>1, ExceptionsAssumption
    <2> QED BY <1>2, <1>3, <2>1 DEF Linked, CountIs
  <1>7. UncaughtIs(U, x, q.uncaught)
    BY DEF Linked, UncaughtIs
  <1>8. ForeignIs(K, U, x, q)
    <2>1. \A i, j \in U : x[i] = x[j] => i = j
      BY <1>1 DEF Linked, ForeignIs, AboveHandlers
    <2> QED BY <1>3, <2>1 DEF ForeignIs
  <1> QED BY <1>2, <1>4, <1>5, <1>6, <1>7, <1>8 DEF Linked

\* __cxa_end_catch of a handler inside another handler of the same exception.
LEMMA LinkedEndInner ==
    ASSUME NEW H, NEW U, NEW x, NEW h, NEW r \in ThreadInfo, Linked(H, U, x, h, r),
           NEW p \in H, \A j \in H : j <= p, NEW e \in Objs, x[p] = e,
           NEW g,
           g[e].handlerCount = IF h[e].handlerCount < 0 THEN h[e].handlerCount + 1
                               ELSE h[e].handlerCount - 1,
           g[e].handlerCount # 0, g[e].nextException = h[e].nextException,
           \A i \in H \cup U : x[i] \in Objs /\ x[i] # e =>
                      /\ g[x[i]].handlerCount = h[x[i]].handlerCount
                      /\ g[x[i]].nextException = h[x[i]].nextException
    PROVE  Linked(Minus(H, p), U, x, g, r)
  <1> DEFINE K == Minus(H, p)
             n == Cardinality(Handling(H, x, e))
  <1>p. Positions(H, U, x)
    BY DEF Linked
  <1>0. e \notin ForeignObjs
    BY ExceptionsAssumption
  <1>1. H \subseteq Nat /\ U \subseteq Nat
    BY <1>p, PositionsFinite
  <1>2. /\ Positions(K, U, x)
        /\ \A f : f # e => Handling(K, x, f) = Handling(H, x, f)
        /\ Cardinality(Handling(K, x, e)) = n - 1
    BY <1>p, PositionsEnd
  <1>3. n \in Nat
    BY <1>p, HandlingFinite
  <1>4. /\ h[e].handlerCount = IF \E j \in U : x[j] = e THEN -n ELSE n
        /\ g[e].handlerCount = IF \E j \in U : x[j] = e THEN -(n - 1) ELSE n - 1
    <2>1. h[e].handlerCount = IF \E j \in U : x[j] = e THEN -n ELSE n
      BY DEF Linked, CountIs
    <2>2. n # 0
      BY <1>p, HandlingFinite
    <2> QED BY <1>3, <2>1, <2>2
  <1>5. \E i \in K : x[i] = e
    <2>1. Cardinality(Handling(K, x, e)) # 0
      BY <1>2, <1>3, <1>4
    <2>2. Positions(K, U, x)
      BY <1>2
    <2> HIDE DEF K
    <2> QED BY <2>1, <2>2, HandlingFinite
  <1> USE DEF Minus
  <1>6. OneFlight(U, x) /\ AboveHandlers(K, U, x) /\ Contiguous(K, U, x)
    BY DEF Linked, OneFlight, AboveHandlers, Contiguous
  <1>7. HeadIs(K, x, r.caught)
    <2>1. r.caught = e
      BY DEF Linked, HeadIs
    <2>2. ASSUME NEW m \in K, \A j \in K : j <= m PROVE x[m] = e
      <3>1. PICK i \in K : x[i] = e
        BY <1>5
      <3>2. i = m \/ (i < m /\ m < p)
        BY <1>1, <2>2
      <3> QED BY <3>1, <3>2 DEF Linked, Contiguous
    <2> QED BY <1>5, <2>1, <2>2 DEF HeadIs
  <1>8. NextIs(K, x, g)
    <2>1. \A i \in K : x[i] \in Objs => g[x[i]].nextException = h[x[i]].nextException
      OBVIOUS
    <2>2. \A i \in K : (\A j \in K : i <= j) => \A j \in H : i <= j
      OBVIOUS
    <2>3. \A i, k \in K : (\A j \in K : j <= k \/ i <= j) => \A j \in H : j <= k \/ i <= j
      OBVIOUS
    <2> QED BY <2>1, <2>2, <2>3 DEF Linked, NextIs
  <1>9. CountIs(K, U, x, g)
    <2>1. ASSUME NEW i \in K \cup U, x[i] \in Objs, x[i] # e
          PROVE  g[x[i]].handlerCount = IF \E j \in U : x[j] = x[i]
                                        THEN -Cardinality(Handling(K, x, x[i]))
                                        ELSE Cardinality(Handling(K, x, x[i]))
      <3>1. Handling(K, x, x[i]) = Handling(H, x, x[i]) /\ i \in H \cup U
        BY <1>2, <2>1
      <3>2. g[x[i]].handlerCount = h[x[i]].handlerCount
        BY <2>1
      <3> QED BY <2>1, <3>1, <3>2 DEF Linked, CountIs
    <2>2. ASSUME NEW i \in K \cup U, x[i] = e
          PROVE  g[x[i]].handlerCount = IF \E j \in U : x[j] = x[i]
                                        THEN -Cardinality(Handling(K, x, x[i]))
                                        ELSE Cardinality(Handling(K, x, x[i]))
      BY <1>2, <1>4, <2>2
    <2> QED BY <2>1, <2>2 DEF CountIs
  <1>10. UncaughtIs(U, x, r.uncaught)
    BY DEF Linked
  <1>11. ForeignIs(K, U, x, r)
    <2>1. r.foreign = "none"
      BY <1>0 DEF Linked, ForeignIs
    <2> QED BY <2>1 DEF Linked, ForeignIs, OneFlight
  <1> QED BY <1>2, <1>6, <1>7, <1>8, <1>9, <1>10, <1>11 DEF Linked

\* __cxa_end_catch of the only handler of a C++ exception.
LEMMA LinkedEndLast ==
    ASSUME NEW H, NEW U, NEW x, NEW h, NEW r \in ThreadInfo, Linked(H, U, x, h, r),
           NEW p \in H, \A j \in H : j <= p, NEW e \in Objs, x[p] = e,
           h[e].handlerCount \in Int, h[e].handlerCount = 1 \/ h[e].handlerCount + 1 = 0,
           NEW g, h[e].handlerCount < 0 => g[e].handlerCount = 0,
           \A i \in H \cup U : x[i] \in Objs /\ x[i] # e =>
                      /\ g[x[i]].handlerCount = h[x[i]].handlerCount
                      /\ g[x[i]].nextException = h[x[i]].nextException,
           NEW q, q.caught = h[e].nextException, q.foreign = r.foreign, q.uncaught = r.uncaught
    PROVE  /\ Linked(Minus(H, p), U, x, g, q)
           /\ h[e].handlerCount < 0 <=> \E j \in U : x[j] = e
           /\ \A i \in Minus(H, p) : x[i] # e
  <1> DEFINE K == Minus(H, p)
             n == Cardinality(Handling(H, x, e))
  <1>c. h[e].handlerCount \in {-1, 1}
    OBVIOUS
  <1>p. Positions(H, U, x)
    BY DEF Linked
  <1>0. e \notin ForeignObjs
    BY ExceptionsAssumption
  <1>1. H \subseteq Nat /\ U \subseteq Nat
    BY <1>p, PositionsFinite
  <1>2. /\ Positions(K, U, x)
        /\ \A f : f # e => Handling(K, x, f) = Handling(H, x, f)
        /\ Cardinality(Handling(K, x, e)) = n - 1
    BY <1>p, PositionsEnd
  <1>3. n \in Nat
    BY <1>p, HandlingFinite
  <1>4. h[e].handlerCount = IF \E j \in U : x[j] = e THEN -n ELSE n
    BY DEF Linked, CountIs
  <1>5. n = 1 /\ (h[e].handlerCount < 0 <=> \E j \in U : x[j] = e)
    BY <1>3, <1>4
  <1>6. \A i \in K : x[i] # e
    <2>1. Cardinality(Handling(K, x, e)) = 0
      BY <1>2, <1>5
    <2>2. Positions(K, U, x)
      BY <1>2
    <2> HIDE DEF K
    <2> QED BY <2>1, <2>2, HandlingFinite
  <1>d. \A f : f = e => -Cardinality(Handling(K, x, f)) = 0
    <2>1. Cardinality(Handling(K, x, e)) = 0
      BY <1>2, <1>5
    <2> QED BY <2>1, MinusZero, Zenon
  <1> USE DEF Minus
  <1>7. OneFlight(U, x) /\ AboveHandlers(K, U, x) /\ Contiguous(K, U, x)
    BY DEF Linked, OneFlight, AboveHandlers, Contiguous
  <1>8. HeadIs(K, x, q.caught)
    <2>1. ASSUME K = {} PROVE h[e].nextException = Null
      <3>1. \A j \in H : p <= j
        BY <1>1, <2>1
      <3> QED BY <3>1 DEF Linked, NextIs
    <2>2. ASSUME NEW m \in K, \A j \in K : j <= m PROVE h[e].nextException = x[m]
      <3>1. m < p /\ x[m] # e /\ \A j \in H : j <= m \/ p <= j
        BY <1>1, <1>6, <2>2
      <3> QED BY <3>1 DEF Linked, NextIs
    <2> QED BY <2>1, <2>2 DEF HeadIs
  <1>9. NextIs(K, x, g)
    <2>1. \A i \in K : x[i] \in Objs => g[x[i]].nextException = h[x[i]].nextException
      BY <1>6
    <2>2. \A i \in K : (\A j \in K : i <= j) => \A j \in H : i <= j
      OBVIOUS
    <2>3. \A i, k \in K : (\A j \in K : j <= k \/ i <= j) => \A j \in H : j <= k \/ i <= j
      OBVIOUS
    <2> QED BY <2>1, <2>2, <2>3 DEF Linked, NextIs
  <1>10. CountIs(K, U, x, g)
    <2>1. ASSUME NEW i \in K \cup U, x[i] \in Objs, x[i] # e
          PROVE  g[x[i]].handlerCount = IF \E j \in U : x[j] = x[i]
                                        THEN -Cardinality(Handling(K, x, x[i]))
                                        ELSE Cardinality(Handling(K, x, x[i]))
      <3>1. Handling(K, x, x[i]) = Handling(H, x, x[i]) /\ i \in H \cup U
        BY <1>2, <2>1
      <3>2. g[x[i]].handlerCount = h[x[i]].handlerCount
        BY <2>1
      <3> QED BY <2>1, <3>1, <3>2 DEF Linked, CountIs
    <2>2. ASSUME NEW i \in K \cup U, x[i] = e
          PROVE  g[x[i]].handlerCount = IF \E j \in U : x[j] = x[i]
                                        THEN -Cardinality(Handling(K, x, x[i]))
                                        ELSE Cardinality(Handling(K, x, x[i]))
      <3>1. i \in U /\ g[e].handlerCount = 0
        BY <1>5, <1>6, <2>2
      <3>2. -Cardinality(Handling(K, x, x[i])) = 0
        BY <1>d, <2>2, Zenon
      <3>3. g[x[i]].handlerCount = 0 /\ \E j \in U : x[j] = x[i]
        BY <2>2, <3>1
      <3> QED BY <3>2, <3>3
    <2> QED BY <2>1, <2>2 DEF CountIs
  <1>11. UncaughtIs(U, x, q.uncaught)
    BY DEF Linked
  <1>12. ForeignIs(K, U, x, q)
    <2>1. r.foreign = "none"
      BY <1>0 DEF Linked, ForeignIs
    <2> QED BY <2>1 DEF Linked, ForeignIs, OneFlight
  <1>13. Linked(K, U, x, g, q)
    BY <1>2, <1>7, <1>8, <1>9, <1>10, <1>11, <1>12 DEF Linked
  <1> QED BY <1>5, <1>6, <1>13

\* The exception in flight on top leaves a scope that is no handler.
LEMMA LinkedMove ==
    ASSUME NEW H, NEW U, NEW x, NEW h, NEW r, Linked(H, U, x, h, r),
           NEW q \in U, NEW p \in Nat \ {0}, p \notin H \cup U, p < q,
           \A i \in (H \cup U) \ {q} : i < p,
           NEW y, \A i \in (H \cup U) \ {q} : y[i] = x[i], y[p] = x[q]
    PROVE  Linked(H, Plus(Minus(U, q), p), y, h, r)
  <1> DEFINE V == Plus(Minus(U, q), p)
             old == [i \in V |-> IF i = p THEN q ELSE i]
  <1>1. PICK n \in Nat : H \cup U \subseteq 1 .. n
    BY DEF Linked, Positions
  <1>2. q \notin H
    BY DEF Linked, Positions
  <1> USE DEF Plus, Minus
  <1>3. Positions(H, V, y)
    <2>1. H \cap V = {} /\ H \cup V \subseteq 1 .. n
      BY <1>1 DEF Linked, Positions
    <2>2. \A i \in H \cup V : y[i] \in Blocks
      BY <1>2 DEF Linked, Positions
    <2> QED BY <2>1, <2>2 DEF Positions
  <1>4. \A i \in V : old[i] \in U /\ y[i] = x[old[i]] /\ (i = p \/ old[i] = i)
    OBVIOUS
  <1>5. \A i \in H : y[i] = x[i]
    BY <1>2
  <1>6. \A i \in U : \E j \in V : old[j] = i
    OBVIOUS
  <1>7. \A i, j \in V : old[i] = old[j] => i = j
    OBVIOUS
  <1>8. \A i \in H, j \in V : (i < old[j] => i < j)
    BY <1>1, <1>2
  <1>9. \A e : Handling(H, y, e) = Handling(H, x, e)
    BY <1>5 DEF Handling
  <1> HIDE DEF old
  <1>10. OneFlight(V, y)
    BY <1>4, <1>7 DEF Linked, OneFlight
  <1>11. AboveHandlers(H, V, y)
    BY <1>4, <1>5, <1>8 DEF Linked, AboveHandlers
  <1>12. Contiguous(H, V, y)
    <2>1. ASSUME NEW i \in H, NEW j \in H, NEW k \in V, i < j, j < k, y[i] = y[k]
          PROVE  y[j] = y[i]
      <3>1. j < old[k]
        <4>1. k \in Nat /\ j \in Nat /\ q \in Nat
          BY <1>1
        <4> QED BY <2>1, <4>1 DEF old
      <3> QED BY <1>4, <1>5, <2>1, <3>1 DEF Linked, Contiguous
    <2> QED BY <1>5, <2>1 DEF Linked, Contiguous
  <1>13. HeadIs(H, y, r.caught) /\ NextIs(H, y, h)
    BY <1>5 DEF Linked, HeadIs, NextIs
  <1>14. CountIs(H, V, y, h)
    <2>1. ASSUME NEW i \in H \cup U, NEW j \in H \cup V, x[i] \in Objs, y[j] = x[i]
          PROVE  h[y[j]].handlerCount = IF \E k \in V : y[k] = y[j]
                                        THEN -Cardinality(Handling(H, y, y[j]))
                                        ELSE Cardinality(Handling(H, y, y[j]))
      <3>1. (\E k \in V : y[k] = y[j]) <=> \E k \in U : x[k] = x[i]
        BY <1>4, <1>6, <2>1
      <3> QED BY <1>9, <2>1, <3>1 DEF Linked, CountIs
    <2>2. \A j \in H \cup V : \E i \in H \cup U : y[j] = x[i]
      BY <1>4, <1>5
    <2> QED BY <2>1, <2>2 DEF CountIs
  <1>15. UncaughtIs(V, y, r.uncaught)
    <2>1. Cardinality(InFlight(V, y)) = Cardinality(InFlight(U, x))
      <3>1. IsFiniteSet(InFlight(U, x))
        BY PositionsFinite DEF Linked
      <3>2. CASE x[q] \in ForeignObjs
        <4>1. InFlight(V, y) = InFlight(U, x)
          BY <3>2 DEF InFlight
        <4> QED BY <4>1
      <3>3. CASE x[q] \notin ForeignObjs
        <4>1. /\ InFlight(V, y) = (InFlight(U, x) \ {q}) \cup {p}
              /\ q \in InFlight(U, x) /\ p \notin InFlight(U, x)
          BY <3>3 DEF InFlight
        <4>2. IsFiniteSet(InFlight(U, x) \ {q})
              /\ Cardinality(InFlight(U, x) \ {q}) = Cardinality(InFlight(U, x)) - 1
          BY <3>1, <4>1, FS_RemoveElement
        <4>3. Cardinality((InFlight(U, x) \ {q}) \cup {p}) = Cardinality(InFlight(U, x) \ {q}) + 1
          BY <4>1, <4>2, FS_AddElement
        <4>4. Cardinality(InFlight(U, x)) \in Nat
          BY <3>1, FS_CardinalityType
        <4>5. Cardinality(InFlight(V, y)) = Cardinality((InFlight(U, x) \ {q}) \cup {p})
          BY <4>1, Zenon
        <4> QED BY <4>2, <4>3, <4>4, <4>5
      <3> QED BY <3>2, <3>3
    <2> QED BY <2>1 DEF Linked, UncaughtIs
  <1>16. ForeignIs(H, V, y, r)
    <2>1. \A i \in H : y[i] \in ForeignObjs => r.foreign # "none" /\ \A j \in H : j = i
      BY <1>5 DEF Linked, ForeignIs
    <2>2. r.foreign # "none" => \E i \in H : y[i] \in ForeignObjs
      BY <1>5 DEF Linked, ForeignIs
    <2>3. r.foreign = "caught" => \A j \in V : y[j] # r.caught
      BY <1>4 DEF Linked, ForeignIs
    <2>4. r.foreign = "rethrown" => \E j \in V : y[j] = r.caught
      BY <1>4, <1>6 DEF Linked, ForeignIs
    <2>5. \A i, j \in V : i # j /\ y[i] = y[j] => \E k \in H : y[k] = y[i]
      BY <1>4, <1>5, <1>7 DEF Linked, ForeignIs
    <2> QED BY <2>1, <2>2, <2>3, <2>4, <2>5 DEF ForeignIs
  <1> QED BY <1>3, <1>10, <1>11, <1>12, <1>13, <1>14, <1>15, <1>16 DEF Linked

\* Another language catches a C++ exception that is not handled anywhere.
LEMMA LinkedForeignCatch ==
    ASSUME NEW H, NEW U, NEW x, NEW h, NEW r, Linked(H, U, x, h, r),
           NEW p \in U, NEW e \in Objs, x[p] = e, h[e].handlerCount = 0, "foreignCatch" \in Habits,
           NEW g, \A i \in H \cup U : x[i] \in Objs /\ x[i] # e =>
                      /\ g[x[i]].handlerCount = h[x[i]].handlerCount
                      /\ g[x[i]].nextException = h[x[i]].nextException
    PROVE  Linked(H, Minus(U, p), x, g, r) /\ \A i \in H \cup Minus(U, p) : x[i] # e
  <1> DEFINE V == Minus(U, p)
  <1>p. Positions(H, U, x)
    BY DEF Linked
  <1>0. e \notin ForeignObjs
    BY ExceptionsAssumption
  <1>1. \A i \in H : x[i] # e
    <2>1. /\ Cardinality(Handling(H, x, e)) \in Nat
          /\ Cardinality(Handling(H, x, e)) = 0 <=> \A i \in H : x[i] # e
      BY <1>p, HandlingFinite
    <2>2. h[e].handlerCount = -Cardinality(Handling(H, x, e))
      BY DEF Linked, CountIs
    <2> QED BY <2>1, <2>2
  <1>2. \A i \in V : x[i] # e
    BY DEF Linked, OneFlight, Minus
  <1>3. Positions(H, V, x)
    BY DEF Linked, Positions, Minus
  <1>4. OneFlight(V, x) /\ AboveHandlers(H, V, x) /\ Contiguous(H, V, x)
    BY DEF Linked, OneFlight, AboveHandlers, Contiguous, Minus
  <1>5. HeadIs(H, x, r.caught) /\ NextIs(H, x, g)
    BY <1>1 DEF Linked, HeadIs, NextIs
  <1>6. CountIs(H, V, x, g)
    <2>1. ASSUME NEW i \in H \cup V, x[i] \in Objs
          PROVE  g[x[i]].handlerCount = IF \E j \in V : x[j] = x[i]
                                        THEN -Cardinality(Handling(H, x, x[i]))
                                        ELSE Cardinality(Handling(H, x, x[i]))
      <3>1. x[i] # e /\ i \in H \cup U
        BY <1>1, <1>2 DEF Minus
      <3>2. (\E j \in V : x[j] = x[i]) <=> \E j \in U : x[j] = x[i]
        BY <3>1 DEF Minus
      <3> QED BY <2>1, <3>1, <3>2 DEF Linked, CountIs
    <2> QED BY <2>1 DEF CountIs
  <1>7. UncaughtIs(V, x, r.uncaught)
    BY DEF UncaughtIs
  <1>8. ForeignIs(H, V, x, r)
    <2>1. r.foreign # "none" => r.caught # e
      BY <1>0, ForeignCurrent
    <2> QED BY <2>1 DEF Linked, ForeignIs, Minus
  <1> QED BY <1>1, <1>2, <1>3, <1>4, <1>5, <1>6, <1>7, <1>8 DEF Linked

\* A handlerCount other than 1 and -1 means that the exception has another
\* handler.
LEMMA OtherHandler ==
    ASSUME NEW H, NEW U, NEW x, NEW h, NEW r, Linked(H, U, x, h, r),
           NEW p \in H, NEW e \in Objs, x[p] = e, h[e].handlerCount \notin {-1, 1}
    PROVE  \E i \in Minus(H, p) : x[i] = e
  <1> DEFINE n == Cardinality(Handling(H, x, e))
             k == Cardinality(Handling(Minus(H, p), x, e))
  <1>1. Positions(H, U, x) /\ CountIs(H, U, x, h)
    BY DEF Linked
  <1>2. Positions(Minus(H, p), U, x) /\ k = n - 1
    BY <1>1, PositionsEnd
  <1>3. n \in Nat
    BY <1>1, HandlingFinite
  <1>4. h[e].handlerCount = -n \/ h[e].handlerCount = n
    BY <1>1 DEF CountIs
  <1>5. k = 0 <=> \A i \in Minus(H, p) : x[i] # e
    <2> DEFINE K == Minus(H, p)
    <2>1. Positions(K, U, x)
      BY <1>2
    <2> HIDE DEF K
    <2>2. Cardinality(Handling(K, x, e)) = 0 <=> \A i \in K : x[i] # e
      BY <2>1, HandlingFinite
    <2> QED BY <2>2 DEF K
  <1> HIDE DEF n, k
  <1>6. n # 1
    <2>1. n = 1 => h[e].handlerCount = -1 \/ h[e].handlerCount = 1
      BY <1>4, Zenon
    <2> QED BY <2>1
  <1>7. k # 0
    BY <1>2, <1>3, <1>6
  <1> QED BY <1>5, <1>7

-----------------------------------------------------------------------------
(***************************************************************************)
(* The inductive invariant.                                                *)
(***************************************************************************)
\* The program does not use C++ handlers inside a foreign one, no other
\* language catches an exception that is still referred to, and no thread
\* ends inside the handlers of one.
ProperUse == Habits \cap {"useInForeign", "foreignCatchShared", "exitInCatchShared"} = {}

Pos(t) == 1 .. Depth(t)
LiveKinds == {"unwind", "catch", "unexpected"}
Flights(t) == {i \in Pos(t) : stack[t][i].kind = "unwind"}
Exs(t) == [i \in Pos(t) |-> stack[t][i].ex]

Classes == {"free", "raw", "primary", "dependent", "foreign", "dying"}
HeaderType ==
    [class : Classes,
     referenceCount : Int, handlerCount : Int, nextException : Blocks \cup {Null},
     primaryException : Objs \cup {Null}, exceptionType : Blocks \cup {Null, "T"},
     exceptionDestructor : BOOLEAN, object : {"none", "built"}]
ScopeType ==
    [kind : LiveKinds \cup {"construct", "cleanup", "destroy"}, ex : Blocks \cup {Null},
     aux : Blocks \cup {Null, "throw", "ptr", "search", "found"}]

TypeOK ==
    /\ header \in [Blocks -> HeaderType]
    /\ eh \in [Threads -> ThreadInfo]
    /\ stack \in [Threads -> Seq(ScopeType)]
    /\ ptr \in [Slots -> Objs \cup {Null}]

\* The positions of the scopes in which an exception is constructed, destroyed,
\* and thrown or handled.
InConstruct(e) ==
    \E t \in Threads : \E i \in Pos(t) : stack[t][i].kind = "construct" /\ stack[t][i].ex = e
InDestroy(e) ==
    \E t \in Threads : \E i \in Pos(t) :
        stack[t][i].kind = "destroy" /\ (stack[t][i].ex = e \/ stack[t][i].aux = e)
Live(e) ==
    \E t \in Threads : \E i \in Pos(t) : stack[t][i].kind \in LiveKinds /\ stack[t][i].ex = e
Built(e) == e \in Objs /\ header[e].class = "primary" /\ header[e].object = "built"

\* An exception under construction, once, has a header as it was allocated or
\* as __cxa_init_primary_exception left it.
Raw == [Freed EXCEPT !.class = "raw"]
ConstructOK(f) ==
    /\ f.ex \in Objs /\ f.aux \in {"throw", "ptr"}
    /\ header[f.ex] = IF f.aux = "throw" THEN Raw ELSE InitPrimary(Raw)
ConstructsOK ==
    /\ \A t \in Threads : \A i \in Pos(t) :
          stack[t][i].kind = "construct" => ConstructOK(stack[t][i])
    /\ \A t, u \in Threads : \A i \in Pos(t), j \in Pos(u) :
          /\ stack[t][i].kind = "construct" /\ stack[u][j].kind = "construct"
          /\ stack[t][i].ex = stack[u][j].ex
          => t = u /\ i = j

\* An exception whose destructor runs, once, and the dependent exception freed
\* with it are dying.
DestroyOK(f) ==
    /\ f.ex \in Objs /\ header[f.ex].class = "dying"
    /\ f.aux # Null => f.aux \in Objs /\ header[f.aux].class = "dying" /\ f.aux # f.ex
    /\ "makePtrThrows" \notin Habits => header[f.ex].object = "built"
DestroysOK ==
    /\ \A t \in Threads : \A i \in Pos(t) :
          stack[t][i].kind = "destroy" => DestroyOK(stack[t][i])
    /\ \A t, u \in Threads : \A i \in Pos(t), j \in Pos(u) :
          /\ stack[t][i].kind = "destroy" /\ stack[u][j].kind = "destroy"
          /\ \/ stack[t][i].ex = stack[u][j].ex \/ stack[t][i].ex = stack[u][j].aux
             \/ stack[t][i].aux = stack[u][j].aux /\ stack[t][i].aux # Null
          => t = u /\ i = j

\* What is thrown or handled, in one thread, is a constructed primary, a
\* dependent or a foreign exception.
LiveOK ==
    \A e : Live(e) =>
        \/ Built(e)
        \/ e \in Objs /\ header[e].class = "dependent"
        \/ e \in ForeignObjs /\ header[e].class = "foreign"
OneThread ==
    \A t, u \in Threads : \A i \in Pos(t), j \in Pos(u) :
        /\ stack[t][i].kind \in LiveKinds /\ stack[u][j].kind \in LiveKinds
        /\ stack[t][i].ex = stack[u][j].ex
        => t = u

ThreadLinked(t) == Linked(AllHandlers(t), Flights(t), Exs(t), header, eh[t])
ThreadsLinked == \A t \in Threads : ThreadLinked(t)

\* Something is going to free, or to go on with, every block in use.
HeaderOK(e) ==
    /\ header[e].class = "free" => header[e] = Freed
    /\ header[e].class = "raw" => e \in Objs /\ InConstruct(e)
    /\ header[e].class = "primary" =>
          e \in Objs /\ header[e].exceptionDestructor /\ (header[e].object = "built" \/ InConstruct(e))
    /\ header[e].class = "dependent" =>
          e \in Objs /\ Live(e) /\ Built(header[e].primaryException) /\ header[e].object = "none"
    /\ header[e].class = "foreign" => e \in ForeignObjs /\ Live(e)
    /\ header[e].class = "dying" => e \in Objs /\ InDestroy(e)
HeadersOK == \A e \in Blocks : HeaderOK(e)
PtrsOK == \A s \in Slots : ptr[s] # Null => Built(ptr[s])

\* RefCountExact, one exception at a time.
RefOK(e) ==
    header[e].class = "primary" =>
        /\ header[e].referenceCount = Cardinality(Holders(e))
        /\ header[e].object = "built" => header[e].referenceCount > 0
RefsOK == \A e \in Objs : RefOK(e)

IInv == /\ TypeOK /\ ConstructsOK /\ DestroysOK /\ LiveOK /\ OneThread
        /\ ThreadsLinked /\ HeadersOK /\ PtrsOK /\ RefsOK
-----------------------------------------------------------------------------
LEMMA ThrownIsLive == \A e : Thrown(e) <=> Live(e)
  BY DEF Thrown, Live, Scopes, Pos, LiveKinds

LEMMA ReplaceStack ==
    ASSUME TypeOK, NEW t \in Threads, NEW n \in 0 .. Depth(t), NEW new \in Seq(ScopeType),
           stack' = Replace(t, n, new)
    PROVE  /\ stack' \in [Threads -> Seq(ScopeType)]
           /\ \A u \in Threads : u # t => stack'[u] = stack[u]
           /\ Len(stack'[t]) = Depth(t) - n + Len(new)
           /\ \A i \in 1 .. Depth(t) - n : stack'[t][i] = stack[t][i]
           /\ \A i \in 1 .. Len(new) : stack'[t][Depth(t) - n + i] = new[i]
  <1>1. stack[t] \in Seq(ScopeType) /\ Depth(t) \in Nat /\ Depth(t) = Len(stack[t])
    BY DEF TypeOK, Depth
  <1> DEFINE m == Depth(t) - n
             base == SubSeq(stack[t], 1, m)
  <1>2. m \in Nat /\ m <= Len(stack[t])
    BY <1>1
  <1>3. base \in Seq(ScopeType) /\ Len(base) = m /\ \A i \in 1 .. m : base[i] = stack[t][i]
    BY <1>1, <1>2, SubSeqProperties
  <1>4. stack' = [stack EXCEPT ![t] = base \o new]
    BY DEF Replace
  <1>5. stack'[t] = base \o new /\ \A u \in Threads : u # t => stack'[u] = stack[u]
    BY <1>4 DEF TypeOK
  <1> HIDE DEF base
  <1>6. /\ base \o new \in Seq(ScopeType) /\ Len(base \o new) = m + Len(new)
        /\ \A i \in 1 .. m : (base \o new)[i] = base[i]
        /\ \A i \in 1 .. Len(new) : (base \o new)[m + i] = new[i]
    <2>1. /\ base \o new \in Seq(ScopeType) /\ Len(base \o new) = Len(base) + Len(new)
          /\ \A i \in 1 .. Len(base) + Len(new) :
                (base \o new)[i] = IF i <= Len(base) THEN base[i] ELSE new[i - Len(base)]
      BY <1>3, ConcatProperties
    <2>2. Len(base) = m /\ Len(new) \in Nat
      BY <1>3
    <2>3. ASSUME NEW i \in 1 .. Len(new) PROVE (base \o new)[m + i] = new[i]
      <3>1. m + i \in 1 .. m + Len(new) /\ ~(m + i <= m) /\ m + i - m = i
        BY <1>2, <2>2
      <3> QED BY <2>1, <2>2, <3>1
    <2>4. ASSUME NEW i \in 1 .. m PROVE (base \o new)[i] = base[i]
      BY <1>2, <2>1, <2>2
    <2> QED BY <2>1, <2>2, <2>3, <2>4
  <1>7. stack' \in [Threads -> Seq(ScopeType)]
    BY <1>4, <1>6 DEF TypeOK
  <1> QED BY <1>3, <1>5, <1>6, <1>7

\* The scopes of t up to m, and those of the other threads, stay.
Kept(t, m) ==
    \A u \in Threads : \A j \in Nat : u # t \/ j <= m =>
        /\ j \in Pos(u)' <=> j \in Pos(u)
        /\ j \in Pos(u) => stack'[u][j] = stack[u][j]

LEMMA ReplaceKeeps ==
    ASSUME TypeOK, NEW t \in Threads, NEW n \in 0 .. Depth(t), NEW new \in Seq(ScopeType),
           stack' = Replace(t, n, new)
    PROVE  /\ stack' \in [Threads -> Seq(ScopeType)]
           /\ Kept(t, Depth(t) - n)
           /\ Depth(t) \in Nat
  <1>1. /\ stack' \in [Threads -> Seq(ScopeType)]
        /\ \A u \in Threads : u # t => stack'[u] = stack[u]
        /\ Len(stack'[t]) = Depth(t) - n + Len(new)
        /\ \A i \in 1 .. Depth(t) - n : stack'[t][i] = stack[t][i]
    BY ReplaceStack
  <1>2. Len(new) \in Nat /\ Depth(t) \in Nat
    BY DEF TypeOK, Depth
  <1> QED BY <1>1, <1>2 DEF Kept, Pos, Depth

\* The last n scopes are replaced by none, by f, or by f and g.
LEMMA Replace0 ==
    ASSUME TypeOK, NEW t \in Threads, NEW n \in 0 .. Depth(t),
           stack' = Replace(t, n, << >>)
    PROVE  /\ stack' \in [Threads -> Seq(ScopeType)] /\ Kept(t, Depth(t) - n)
           /\ Depth(t) \in Nat /\ Depth(t)' = Depth(t) - n
  <1> DEFINE new == << >>
  <1>1. new \in Seq(ScopeType) /\ Len(new) = 0
    OBVIOUS
  <1>2. Depth(t) \in Nat
    BY DEF TypeOK, Depth
  <1> HIDE DEF new
  <1>3. stack' = Replace(t, n, new)
    BY DEF new
  <1>4. stack' \in [Threads -> Seq(ScopeType)] /\ Kept(t, Depth(t) - n)
    <2>1. new \in Seq(ScopeType)
      BY <1>1
    <2> QED BY <1>3, <2>1, ReplaceKeeps
  <1>5. Len(stack'[t]) = Depth(t) - n + Len(new)
    <2>1. new \in Seq(ScopeType)
      BY <1>1
    <2> QED BY <1>3, <2>1, ReplaceStack
  <1> QED BY <1>1, <1>2, <1>4, <1>5 DEF Depth

LEMMA Replace1 ==
    ASSUME TypeOK, NEW t \in Threads, NEW n \in 0 .. Depth(t),
           NEW f \in ScopeType,
           stack' = Replace(t, n, << f >>)
    PROVE  /\ stack' \in [Threads -> Seq(ScopeType)] /\ Kept(t, Depth(t) - n)
           /\ Depth(t) \in Nat /\ Depth(t)' = Depth(t) - n + 1
           /\ stack'[t][Depth(t) - n + 1] = f
  <1> DEFINE new == << f >>
  <1>1. new \in Seq(ScopeType) /\ Len(new) = 1 /\ new[1] = f
    OBVIOUS
  <1>2. Depth(t) \in Nat
    BY DEF TypeOK, Depth
  <1> HIDE DEF new
  <1>3. stack' = Replace(t, n, new)
    BY DEF new
  <1>4. stack' \in [Threads -> Seq(ScopeType)] /\ Kept(t, Depth(t) - n)
    BY <1>1, <1>3, ReplaceKeeps
  <1>5. /\ Len(stack'[t]) = Depth(t) - n + Len(new)
        /\ \A i \in 1 .. Len(new) : stack'[t][Depth(t) - n + i] = new[i]
    BY <1>1, <1>3, ReplaceStack
  <1> QED BY <1>1, <1>2, <1>4, <1>5 DEF Depth

LEMMA Replace2 ==
    ASSUME TypeOK, NEW t \in Threads, NEW n \in 0 .. Depth(t),
           NEW f \in ScopeType,
           NEW g \in ScopeType,
           stack' = Replace(t, n, << f, g >>)
    PROVE  /\ stack' \in [Threads -> Seq(ScopeType)] /\ Kept(t, Depth(t) - n)
           /\ Depth(t) \in Nat /\ Depth(t)' = Depth(t) - n + 2
           /\ stack'[t][Depth(t) - n + 1] = f /\ stack'[t][Depth(t) - n + 2] = g
  <1> DEFINE new == << f, g >>
  <1>1. new \in Seq(ScopeType) /\ Len(new) = 2 /\ new[1] = f /\ new[2] = g
    OBVIOUS
  <1>2. Depth(t) \in Nat
    BY DEF TypeOK, Depth
  <1> HIDE DEF new
  <1>3. stack' = Replace(t, n, new)
    BY DEF new
  <1>4. stack' \in [Threads -> Seq(ScopeType)] /\ Kept(t, Depth(t) - n)
    BY <1>1, <1>3, ReplaceKeeps
  <1>5. /\ Len(stack'[t]) = Depth(t) - n + Len(new)
        /\ \A i \in 1 .. Len(new) : stack'[t][Depth(t) - n + i] = new[i]
    BY <1>1, <1>3, ReplaceStack
  <1>6. 1 \in 1 .. Len(new) /\ 2 \in 1 .. Len(new)
    BY <1>1
  <1>7. stack'[t][Depth(t) - n + 1] = f /\ stack'[t][Depth(t) - n + 2] = g
    BY <1>1, <1>5, <1>6
  <1>8. Depth(t)' = Depth(t) - n + 2
    BY <1>1, <1>5 DEF Depth
  <1> QED BY <1>2, <1>4, <1>7, <1>8

\* Nothing that matters to thread u changes.
LEMMA SameLinked ==
    ASSUME NEW u \in Threads, ThreadLinked(u), eh'[u] = eh[u],
           AllHandlers(u)' = AllHandlers(u), Flights(u)' = Flights(u),
           \A i \in AllHandlers(u) \cup Flights(u) :
              /\ Exs(u)'[i] = Exs(u)[i]
              /\ Exs(u)[i] \in Objs =>
                    /\ header'[Exs(u)[i]].handlerCount = header[Exs(u)[i]].handlerCount
                    /\ header'[Exs(u)[i]].nextException = header[Exs(u)[i]].nextException
    PROVE  ThreadLinked(u)'
  <1> DEFINE H == AllHandlers(u)
             U == Flights(u)
             x == Exs(u)
             y == Exs(u)'
  <1>1. Linked(H, U, x, header, eh[u])
    BY DEF ThreadLinked
  <1>2. Linked(H, U, y, header', eh[u])
    <2>1. \A i \in H \cup U : y[i] = x[i]
      OBVIOUS
    <2>2. \A i \in H \cup U : x[i] \in Objs =>
              /\ header'[x[i]].handlerCount = header[x[i]].handlerCount
              /\ header'[x[i]].nextException = header[x[i]].nextException
      OBVIOUS
    <2> HIDE DEF H, U, x, y
    <2> QED BY <1>1, <2>1, <2>2, LinkedFrame
  <1> QED BY <1>2 DEF ThreadLinked

\* The exceptions thrown or handled, and where, stay the same.
SameLive ==
    \A u \in Threads : \A j \in Nat :
        /\ (j \in Pos(u) /\ stack[u][j].kind \in LiveKinds) <=>
              (j \in Pos(u)' /\ stack'[u][j].kind \in LiveKinds)
        /\ j \in Pos(u) /\ stack[u][j].kind \in LiveKinds =>
              stack'[u][j].kind = stack[u][j].kind /\ stack'[u][j].ex = stack[u][j].ex

LEMMA SameLiveStep ==
    ASSUME TypeOK, ThreadsLinked, OneThread, SameLive, eh' = eh,
           \A e \in Objs : Live(e) =>
               /\ header'[e].handlerCount = header[e].handlerCount
               /\ header'[e].nextException = header[e].nextException
    PROVE  ThreadsLinked' /\ OneThread' /\ \A e : Live(e)' <=> Live(e)
  <1>1. \A u \in Threads : Pos(u) \subseteq Nat /\ Pos(u)' \subseteq Nat
    BY DEF Pos
  <1>2. OneThread'
    BY <1>1 DEF OneThread, SameLive
  <1>3. \A e : Live(e)' <=> Live(e)
    BY <1>1 DEF Live, SameLive
  <1>4. ASSUME NEW u \in Threads PROVE ThreadLinked(u)'
    <2>1. AllHandlers(u)' = AllHandlers(u)
      BY <1>1 DEF SameLive, AllHandlers, LiveKinds, Pos
    <2>2. Flights(u)' = Flights(u)
      BY <1>1 DEF SameLive, Flights, LiveKinds, Pos
    <2>3. ASSUME NEW i \in AllHandlers(u) \cup Flights(u)
          PROVE  /\ Exs(u)'[i] = Exs(u)[i]
                 /\ Exs(u)[i] \in Objs => Live(Exs(u)[i])
      <3>1. i \in Pos(u) /\ stack[u][i].kind \in LiveKinds
        BY DEF AllHandlers, Flights, Pos, LiveKinds
      <3>2. i \in Pos(u)' /\ stack'[u][i].ex = stack[u][i].ex
        BY <1>1, <3>1 DEF SameLive
      <3> QED BY <3>1, <3>2 DEF Exs, Live
    <2>4. ThreadLinked(u)
      BY DEF ThreadsLinked
    <2> QED BY <2>1, <2>2, <2>3, <2>4, SameLinked
  <1> QED BY <1>2, <1>3, <1>4 DEF ThreadsLinked

LEMMA HoldersFinite ==
    ASSUME NEW e \in Objs
    PROVE  IsFiniteSet(Holders(e)) /\ Cardinality(Holders(e)) \in Nat
  <1>1. IsFiniteSet(Objs \cup Slots)
    BY ExceptionsAssumption, FS_Union
  <1>2. Holders(e) \in SUBSET (Objs \cup Slots)
    BY DEF Holders
  <1> QED BY <1>1, <1>2, FS_Subset, FS_CardinalityType

LEMMA HoldersSame ==
    ASSUME NEW e, Live(e)' <=> Live(e),
           \A s \in Slots : ptr'[s] = e <=> ptr[s] = e,
           \A d \in Objs : header'[d].class = "dependent" /\ header'[d].primaryException = e <=>
                           header[d].class = "dependent" /\ header[d].primaryException = e
    PROVE  Holders(e)' = Holders(e)
  <1>1. Thrown(e)' <=> Thrown(e)
    BY DEF Thrown, Live, Scopes, Pos, LiveKinds
  <1> QED BY <1>1 DEF Holders, isDependent

\* Headers stay headers when a field is written.
LEMMA HeaderUpdates ==
    /\ Freed \in HeaderType
    /\ \A r \in HeaderType : \A v \in Classes : [r EXCEPT !.class = v] \in HeaderType
    /\ \A r \in HeaderType : \A v \in Int : [r EXCEPT !.referenceCount = v] \in HeaderType
    /\ \A r \in HeaderType : \A v \in Int : [r EXCEPT !.handlerCount = v] \in HeaderType
    /\ \A r \in HeaderType : \A v \in Blocks \cup {Null} :
          [r EXCEPT !.nextException = v] \in HeaderType
    /\ \A r \in HeaderType : \A v \in Objs \cup {Null} :
          [r EXCEPT !.primaryException = v] \in HeaderType
    /\ \A r \in HeaderType : \A v \in Blocks \cup {Null, "T"} :
          [r EXCEPT !.exceptionType = v] \in HeaderType
    /\ \A r \in HeaderType : \A v \in BOOLEAN :
          [r EXCEPT !.exceptionDestructor = v] \in HeaderType
    /\ \A r \in HeaderType : \A v \in {"none", "built"} : [r EXCEPT !.object = v] \in HeaderType
    /\ 0 \in Int /\ 1 \in Int /\ TRUE \in BOOLEAN /\ "T" \in Blocks \cup {Null, "T"}
    /\ Classes = {"free", "raw", "primary", "dependent", "foreign", "dying"}
  <1>1. Freed \in HeaderType
    BY DEF Freed, HeaderType, Classes
  <1>2. \A r \in HeaderType : \A v \in Classes : [r EXCEPT !.class = v] \in HeaderType
    BY DEF HeaderType
  <1>3. \A r \in HeaderType : \A v \in Int : [r EXCEPT !.referenceCount = v] \in HeaderType
    BY DEF HeaderType
  <1>4. \A r \in HeaderType : \A v \in Int : [r EXCEPT !.handlerCount = v] \in HeaderType
    BY DEF HeaderType
  <1>5. \A r \in HeaderType : \A v \in Blocks \cup {Null} :
          [r EXCEPT !.nextException = v] \in HeaderType
    BY DEF HeaderType
  <1>6. \A r \in HeaderType : \A v \in Objs \cup {Null} :
          [r EXCEPT !.primaryException = v] \in HeaderType
    BY DEF HeaderType
  <1>7. \A r \in HeaderType : \A v \in Blocks \cup {Null, "T"} :
          [r EXCEPT !.exceptionType = v] \in HeaderType
    BY DEF HeaderType
  <1>8. \A r \in HeaderType : \A v \in BOOLEAN :
          [r EXCEPT !.exceptionDestructor = v] \in HeaderType
    BY DEF HeaderType
  <1>9. \A r \in HeaderType : \A v \in {"none", "built"} : [r EXCEPT !.object = v] \in HeaderType
    BY DEF HeaderType
  <1>10. 0 \in Int /\ 1 \in Int /\ TRUE \in BOOLEAN /\ "T" \in Blocks \cup {Null, "T"}
    OBVIOUS
  <1> QED BY <1>1, <1>2, <1>3, <1>4, <1>5, <1>6, <1>7, <1>8, <1>9, <1>10 DEF Classes

LEMMA InitPrimaryHeader ==
    ASSUME NEW r \in HeaderType
    PROVE  /\ InitPrimary(r) \in HeaderType
           /\ InitPrimary(r).class = "primary" /\ InitPrimary(r).referenceCount = 0
           /\ InitPrimary(r).exceptionDestructor
           /\ InitPrimary(r).object = r.object /\ InitPrimary(r).handlerCount = r.handlerCount
           /\ InitPrimary(r).nextException = r.nextException
  <1>1. InitPrimary(r) \in HeaderType
    <2>1. "primary" \in Classes
      BY DEF Classes
    <2> QED BY <2>1, HeaderUpdates, Zenon DEF InitPrimary
  <1> QED BY <1>1 DEF InitPrimary, HeaderType

LEMMA RawHeader ==
    /\ Raw \in HeaderType /\ Raw.class = "raw" /\ ~Raw.exceptionDestructor
    /\ Raw.object = "none" /\ Raw.handlerCount = 0 /\ Raw.nextException = Null
    /\ Raw.referenceCount = 0
  <1>1. Raw \in HeaderType
    <2>1. "raw" \in Classes
      BY DEF Classes
    <2> QED BY <2>1, HeaderUpdates, Zenon DEF Raw
  <1> QED BY <1>1 DEF Raw, Freed

\* What the scopes an exception is in say about its header.
LEMMA ConstructHeader ==
    ASSUME NEW f, ConstructOK(f)
    PROVE  /\ f.ex \in Objs /\ header[f.ex].class \in {"raw", "primary"}
           /\ header[f.ex].object = "none" /\ header[f.ex].handlerCount = 0
           /\ header[f.ex].referenceCount = 0 /\ header[f.ex].nextException = Null
           /\ header[f.ex].exceptionDestructor <=> f.aux # "throw"
           /\ header[f.ex].class = "raw" <=> f.aux = "throw"
  <1>1. CASE f.aux = "throw"
    BY <1>1, RawHeader DEF ConstructOK
  <1>2. CASE f.aux # "throw"
    <2>1. f.ex \in Objs /\ header[f.ex] = InitPrimary(Raw)
      BY <1>2 DEF ConstructOK
    <2> QED BY <1>2, <2>1, RawHeader, InitPrimaryHeader
  <1> QED BY <1>1, <1>2

LEMMA ScopeClasses ==
    ASSUME IInv, NEW e
    PROVE  /\ InConstruct(e) => e \in Objs /\ ~Built(e) /\ header[e].class \in {"raw", "primary"}
           /\ InDestroy(e) => e = Null \/ (e \in Objs /\ header[e].class = "dying")
           /\ Live(e) => e \in Blocks
           /\ Live(e) /\ e \in Objs => Built(e) \/ header[e].class = "dependent"
           /\ Live(e) /\ e \in ForeignObjs => header[e].class = "foreign"
  <1>1. InConstruct(e) => e \in Objs /\ ~Built(e) /\ header[e].class \in {"raw", "primary"}
    <2>1. SUFFICES ASSUME NEW t \in Threads, NEW i \in Pos(t),
                          stack[t][i].kind = "construct", stack[t][i].ex = e
                   PROVE  e \in Objs /\ ~Built(e) /\ header[e].class \in {"raw", "primary"}
      BY DEF InConstruct
    <2>2. ConstructOK(stack[t][i])
      BY <2>1 DEF IInv, ConstructsOK
    <2> QED BY <2>1, <2>2, ConstructHeader DEF Built
  <1>2. InDestroy(e) => e = Null \/ (e \in Objs /\ header[e].class = "dying")
    <2>1. SUFFICES ASSUME NEW t \in Threads, NEW i \in Pos(t), stack[t][i].kind = "destroy",
                          stack[t][i].ex = e \/ stack[t][i].aux = e
                   PROVE  e = Null \/ (e \in Objs /\ header[e].class = "dying")
      BY DEF InDestroy
    <2>2. DestroyOK(stack[t][i])
      BY <2>1 DEF IInv, DestroysOK
    <2> QED BY <2>1, <2>2 DEF DestroyOK
  <1>3. LiveOK
    BY DEF IInv
  <1> QED BY <1>1, <1>2, <1>3, ExceptionsAssumption DEF LiveOK, Built, Blocks

-----------------------------------------------------------------------------
(***************************************************************************)
(* Each part of the invariant, when a step does not disturb it.            *)
(***************************************************************************)
\* The scopes of the kinds K stay as they are.
SameScopes(K) ==
    \A u \in Threads : \A j \in Nat :
        /\ (j \in Pos(u) /\ stack[u][j].kind \in K) <=> (j \in Pos(u)' /\ stack'[u][j].kind \in K)
        /\ j \in Pos(u) /\ stack[u][j].kind \in K => stack'[u][j] = stack[u][j]

LEMMA ConstructFrame ==
    ASSUME ConstructsOK, SameScopes({"construct"}),
           \A e \in Objs : InConstruct(e) => header'[e] = header[e]
    PROVE  ConstructsOK' /\ \A e : InConstruct(e)' <=> InConstruct(e)
  <1>1. \A u \in Threads : Pos(u) \subseteq Nat /\ Pos(u)' \subseteq Nat
    BY DEF Pos
  <1>2. \A u \in Threads : \A j \in Pos(u)' : stack'[u][j].kind = "construct" =>
            j \in Pos(u) /\ stack'[u][j] = stack[u][j] /\ stack[u][j].kind = "construct"
    BY <1>1 DEF SameScopes
  <1>3. ASSUME NEW u \in Threads, NEW j \in Pos(u)', stack'[u][j].kind = "construct"
        PROVE  ConstructOK(stack[u][j])'
    <2>1. j \in Pos(u) /\ stack'[u][j] = stack[u][j] /\ stack[u][j].kind = "construct"
      BY <1>2, <1>3
    <2>2. ConstructOK(stack[u][j]) /\ InConstruct(stack[u][j].ex)
      BY <2>1 DEF ConstructsOK, InConstruct
    <2> QED BY <2>1, <2>2 DEF ConstructOK
  <1>4. ConstructsOK'
    BY <1>2, <1>3 DEF ConstructsOK
  <1>5. \A e : InConstruct(e)' <=> InConstruct(e)
    BY <1>1 DEF SameScopes, InConstruct
  <1> QED BY <1>4, <1>5

LEMMA DestroyFrame ==
    ASSUME DestroysOK, SameScopes({"destroy"}),
           \A e \in Objs : InDestroy(e) =>
               header'[e].class = header[e].class /\ header'[e].object = header[e].object
    PROVE  DestroysOK' /\ \A e : InDestroy(e)' <=> InDestroy(e)
  <1>1. \A u \in Threads : Pos(u) \subseteq Nat /\ Pos(u)' \subseteq Nat
    BY DEF Pos
  <1>2. \A u \in Threads : \A j \in Pos(u)' : stack'[u][j].kind = "destroy" =>
            j \in Pos(u) /\ stack'[u][j] = stack[u][j] /\ stack[u][j].kind = "destroy"
    BY <1>1 DEF SameScopes
  <1>3. ASSUME NEW u \in Threads, NEW j \in Pos(u)', stack'[u][j].kind = "destroy"
        PROVE  DestroyOK(stack[u][j])'
    <2>1. j \in Pos(u) /\ stack'[u][j] = stack[u][j] /\ stack[u][j].kind = "destroy"
      BY <1>2, <1>3
    <2>2. /\ DestroyOK(stack[u][j]) /\ InDestroy(stack[u][j].ex)
          /\ stack[u][j].aux # Null => InDestroy(stack[u][j].aux)
      BY <2>1 DEF DestroysOK, InDestroy
    <2> QED BY <2>1, <2>2 DEF DestroyOK
  <1>4. DestroysOK'
    BY <1>2, <1>3 DEF DestroysOK
  <1>5. \A e : InDestroy(e)' <=> InDestroy(e)
    BY <1>1 DEF SameScopes, InDestroy
  <1> QED BY <1>4, <1>5

LEMMA HeaderFrame ==
    ASSUME NEW d, HeaderOK(d), header'[d] = header[d],
           InConstruct(d) => InConstruct(d)', InDestroy(d) => InDestroy(d)',
           Live(d) => Live(d)',
           \A p \in Objs : Built(p) => Built(p)'
    PROVE  HeaderOK(d)'
  BY DEF HeaderOK, Built

(***************************************************************************)
(* The step of SharedOwnership that the object of e takes.                 *)
(***************************************************************************)
OwnStep(e) ==
    \/ Life(e)' = Life(e) /\ OwnersOf(e)' = OwnersOf(e)
    \/ /\ Life(e) = "none" /\ Life(e)' = "live"
       /\ \E x \in Objs \cup Slots : OwnersOf(e)' = {x}
    \/ /\ Life(e) = "live" /\ Life(e)' = "live"
       /\ \E x \in (Objs \cup Slots) \ OwnersOf(e) : OwnersOf(e)' = OwnersOf(e) \cup {x}
    \/ /\ Life(e) = "live" /\ Life(e)' = "live"
       /\ \E x \in OwnersOf(e) : OwnersOf(e) # {x} /\ OwnersOf(e)' = OwnersOf(e) \ {x}
    \/ /\ Life(e) = "live" /\ Life(e)' \in {"dying", "none"} /\ OwnersOf(e)' = {}
       /\ \E x \in Objs \cup Slots : OwnersOf(e) = {x}
    \/ Life(e) = "dying" /\ Life(e)' = "none" /\ OwnersOf(e)' = {}
OwnersStep == \A e \in Objs : OwnStep(e)

LEMMA LifeIs ==
    ASSUME NEW e \in Objs
    PROVE  /\ Life(e) = "live" <=> Built(e)
           /\ Life(e) = "dying" <=> header[e].class = "dying" /\ header[e].object = "built"
           /\ Life(e) \in {"none", "live", "dying"}
           /\ Built(e) => OwnersOf(e) = Holders(e)
           /\ ~Built(e) => OwnersOf(e) = {}
  BY DEF Life, Built, OwnersOf

LEMMA LifeIsNext ==
    ASSUME NEW e \in Objs
    PROVE  /\ Life(e)' = "live" <=> Built(e)'
           /\ Life(e)' = "dying" <=> header'[e].class = "dying" /\ header'[e].object = "built"
           /\ Life(e)' \in {"none", "live", "dying"}
           /\ Built(e)' => OwnersOf(e)' = Holders(e)'
           /\ ~Built(e)' => OwnersOf(e)' = {}
  BY DEF Life, Built, OwnersOf

LEMMA OwnStays ==
    ASSUME NEW e \in Objs, Built(e) => Holders(e)' = Holders(e),
           header'[e].class = header[e].class, header'[e].object = header[e].object
    PROVE  OwnStep(e)
  <1>1. Built(e)' <=> Built(e)
    BY DEF Built
  <1>2. Life(e)' = Life(e)
    BY DEF Life
  <1>3. OwnersOf(e)' = OwnersOf(e)
    BY <1>1, LifeIs, LifeIsNext
  <1> QED BY <1>2, <1>3 DEF OwnStep

\* There is no object before and after the step.
LEMMA OwnNone ==
    ASSUME NEW e \in Objs, header[e].object # "built" \/ header[e].class \notin {"primary", "dying"},
           header'[e].object # "built" \/ header'[e].class \notin {"primary", "dying"}
    PROVE  OwnStep(e)
  <1>1. Life(e) = "none" /\ Life(e)' = "none"
    BY DEF Life
  <1> QED BY <1>1 DEF OwnStep, OwnersOf

LEMMA OwnCreate ==
    ASSUME NEW e \in Objs, header[e].object # "built", Built(e)', NEW x \in Objs \cup Slots, Holders(e)' = {x}
    PROVE  OwnStep(e)
  <1>1. Life(e) = "none"
    BY DEF Life
  <1>2. Life(e)' = "live" /\ OwnersOf(e)' = {x}
    BY LifeIsNext
  <1> QED BY <1>1, <1>2 DEF OwnStep

LEMMA OwnJoin ==
    ASSUME NEW e \in Objs, Built(e), Built(e)', NEW x \in Objs \cup Slots, x \notin Holders(e),
           Holders(e)' = Plus(Holders(e), x)
    PROVE  OwnStep(e)
  <1>1. Life(e) = "live" /\ OwnersOf(e) = Holders(e)
    BY LifeIs
  <1>2. Life(e)' = "live" /\ OwnersOf(e)' = OwnersOf(e) \cup {x}
    BY <1>1, LifeIsNext DEF Plus
  <1> QED BY <1>1, <1>2 DEF OwnStep

LEMMA OwnLeave ==
    ASSUME NEW e \in Objs, Built(e), Built(e)', NEW x \in Holders(e), Holders(e) # {x},
           Holders(e)' = Minus(Holders(e), x)
    PROVE  OwnStep(e)
  <1>1. Life(e) = "live" /\ OwnersOf(e) = Holders(e)
    BY LifeIs
  <1>2. Life(e)' = "live" /\ OwnersOf(e)' = OwnersOf(e) \ {x}
    BY <1>1, LifeIsNext DEF Minus
  <1> QED BY <1>1, <1>2 DEF OwnStep

LEMMA OwnLast ==
    ASSUME NEW e \in Objs, Built(e), ~Built(e)', NEW x, Holders(e) = {x}
    PROVE  OwnStep(e)
  <1>1. Life(e) = "live" /\ OwnersOf(e) = {x}
    BY LifeIs
  <1>2. Life(e)' \in {"dying", "none"} /\ OwnersOf(e)' = {}
    BY LifeIsNext
  <1>3. x \in Objs \cup Slots
    BY DEF Holders
  <1> QED BY <1>1, <1>2, <1>3 DEF OwnStep

\* An exception that only its own throw may own is destroyed or freed.
LEMMA OwnUnheld ==
    ASSUME IInv, NEW e \in Objs, header[e].class = "primary", ~Held(e),
           \/ header'[e].class = "dying" /\ header'[e].object = header[e].object
           \/ header'[e].class = "free"
    PROVE  OwnStep(e)
  <1>1. CASE header[e].object # "built"
    BY <1>1, OwnNone
  <1>2. CASE header[e].object = "built"
    <2>1. Built(e) /\ ~Built(e)' /\ RefOK(e)
      BY <1>2 DEF Built, IInv, RefsOK
    <2>2. Cardinality(Holders(e)) > 0
      BY <2>1 DEF RefOK, Built
    <2>3. Holders(e) # {}
      BY <2>2, FS_EmptySet
    <2>4. Holders(e) = {e}
      BY <2>3 DEF Holders, Held
    <2> QED BY <2>1, <2>4, OwnLast
  <1> QED BY <1>1, <1>2

LEMMA OwnDestroyed ==
    ASSUME NEW e \in Objs, header[e].class = "dying", header'[e].class = "free"
    PROVE  OwnStep(e)
  <1>1. Life(e) \in {"dying", "none"} /\ Life(e)' = "none" /\ OwnersOf(e) = {} /\ OwnersOf(e)' = {}
    BY DEF Life, OwnersOf
  <1> QED BY <1>1 DEF OwnStep

LEMMA RefFrame ==
    ASSUME NEW e, RefOK(e), Holders(e)' = Holders(e),
           header'[e].class = header[e].class, header'[e].object = header[e].object,
           header'[e].referenceCount = header[e].referenceCount
    PROVE  RefOK(e)' /\ (e \in Objs => OwnStep(e))
  BY OwnStays DEF RefOK

\* Nothing refers to an exception that is neither constructed nor thrown.
LEMMA NoHolders ==
    ASSUME IInv, NEW e \in Objs, ~Built(e), ~Live(e)
    PROVE  Holders(e) = {}
  <1>1. \A s \in Slots : ptr[s] # e
    BY ExceptionsAssumption DEF IInv, PtrsOK
  <1>2. \A d \in Objs : header[d].class = "dependent" => header[d].primaryException # e
    BY DEF IInv, HeadersOK, HeaderOK, Blocks
  <1>3. ~Thrown(e)
    BY ThrownIsLive
  <1> QED BY <1>1, <1>2, <1>3 DEF Holders, isDependent

-----------------------------------------------------------------------------
(***************************************************************************)
(* What a step of thread t leaves to the other threads.                    *)
(***************************************************************************)
\* Thread t throws or handles e.
LiveIn(t, e) == \E i \in Pos(t) : stack[t][i].kind \in LiveKinds /\ stack[t][i].ex = e

LEMMA LiveInThread ==
    ASSUME OneThread, NEW e
    PROVE  /\ Live(e) <=> \E t \in Threads : LiveIn(t, e)
           /\ \A t, u \in Threads : LiveIn(t, e) /\ LiveIn(u, e) => t = u
  BY DEF OneThread, Live, LiveIn

\* Thread t only begins to throw what no thread has.
LEMMA OthersStep ==
    ASSUME ThreadsLinked, OneThread, NEW t \in Threads, NEW m, Kept(t, m),
           \A u \in Threads : u # t => eh'[u] = eh[u],
           \A e : LiveIn(t, e)' => LiveIn(t, e) \/ ~Live(e),
           \A e \in Objs : Live(e) /\ ~LiveIn(t, e) =>
               /\ header'[e].handlerCount = header[e].handlerCount
               /\ header'[e].nextException = header[e].nextException,
           ThreadLinked(t)'
    PROVE  /\ ThreadsLinked' /\ OneThread'
           /\ \A e : Live(e)' <=> LiveIn(t, e)' \/ (Live(e) /\ ~LiveIn(t, e))
  <1>1. \A u \in Threads : Pos(u) \subseteq Nat /\ Pos(u)' \subseteq Nat
    BY DEF Pos
  <1>2. \A u \in Threads : u # t =>
            Pos(u)' = Pos(u) /\ \A j \in Pos(u) : stack'[u][j] = stack[u][j]
    BY <1>1 DEF Kept
  <1>3. \A u \in Threads : u # t => \A e : LiveIn(u, e)' <=> LiveIn(u, e)
    BY <1>2 DEF LiveIn
  <1>4. \A e : Live(e)' <=> \E u \in Threads : LiveIn(u, e)'
    BY DEF Live, LiveIn
  <1>5. \A e : Live(e)' <=> LiveIn(t, e)' \/ (Live(e) /\ ~LiveIn(t, e))
    BY <1>3, <1>4, LiveInThread
  <1>6. \A e : \A u, v \in Threads : LiveIn(u, e)' /\ LiveIn(v, e)' => u = v
    BY <1>3, LiveInThread
  <1>7. OneThread'
    BY <1>6 DEF OneThread, LiveIn
  <1>8. ASSUME NEW u \in Threads, u # t PROVE ThreadLinked(u)'
    <2>1. AllHandlers(u)' = AllHandlers(u)
      BY <1>2, <1>8 DEF AllHandlers, Pos
    <2>2. Flights(u)' = Flights(u)
      BY <1>2, <1>8 DEF Flights
    <2>3. ASSUME NEW i \in AllHandlers(u) \cup Flights(u)
          PROVE  /\ Exs(u)'[i] = Exs(u)[i]
                 /\ Exs(u)[i] \in Objs => Live(Exs(u)[i]) /\ ~LiveIn(t, Exs(u)[i])
      <3>1. i \in Pos(u) /\ stack[u][i].kind \in LiveKinds
        BY DEF AllHandlers, Flights, Pos, LiveKinds
      <3>2. Exs(u)'[i] = Exs(u)[i] /\ LiveIn(u, Exs(u)[i])
        BY <1>2, <1>8, <3>1 DEF Exs, LiveIn
      <3> QED BY <1>8, <3>2, LiveInThread
    <2>4. ThreadLinked(u)
      BY DEF ThreadsLinked
    <2>5. eh'[u] = eh[u]
      BY <1>8
    <2> QED BY <2>1, <2>2, <2>3, <2>4, <2>5, SameLinked
  <1>9. ThreadsLinked'
    BY <1>8 DEF ThreadsLinked
  <1> QED BY <1>5, <1>7, <1>9

\* The positions that matter in the stack of t, seen by Linked.
LEMMA PositionsHere ==
    ASSUME TypeOK, NEW t \in Threads
    PROVE  /\ Depth(t) \in Nat
           /\ \A i \in AllHandlers(t) \cup Flights(t) :
                 i \in Pos(t) /\ i \in Nat /\ i <= Depth(t) /\ 1 <= i
                 /\ stack[t][i].kind \in LiveKinds /\ Exs(t)[i] = stack[t][i].ex
           /\ \A e : LiveIn(t, e) <=> \E i \in AllHandlers(t) \cup Flights(t) : Exs(t)[i] = e
  <1>1. Depth(t) \in Nat
    BY DEF TypeOK, Depth
  <1>2. ASSUME NEW i \in AllHandlers(t) \cup Flights(t)
        PROVE  /\ i \in Pos(t) /\ i \in Nat /\ i <= Depth(t) /\ 1 <= i
               /\ stack[t][i].kind \in LiveKinds /\ Exs(t)[i] = stack[t][i].ex
    <2>1. i \in 1 .. Depth(t) /\ stack[t][i].kind \in LiveKinds
      BY DEF AllHandlers, Flights, Pos, LiveKinds
    <2> QED BY <1>1, <2>1 DEF Pos, Exs
  <1>3. \A i \in Pos(t) : stack[t][i].kind \in LiveKinds => i \in AllHandlers(t) \cup Flights(t)
    BY DEF AllHandlers, Flights, Pos, LiveKinds
  <1> QED BY <1>1, <1>2, <1>3 DEF LiveIn

\* Only counts and links of exceptions that are thrown, handled or referred to
\* change, and what is thrown and handled stays.
Counted(d) ==
    \/ header'[d] = header[d]
    \/ /\ header'[d].class = header[d].class /\ header[d].class \in {"primary", "dependent"}
       /\ header'[d].object = header[d].object
       /\ header'[d].exceptionDestructor = header[d].exceptionDestructor
       /\ header'[d].primaryException = header[d].primaryException
       /\ ~InConstruct(d)

LEMMA CountingStep ==
    ASSUME IInv, SameScopes({"construct"}), SameScopes({"destroy"}),
           \A d \in Blocks : Counted(d), \A e : Live(e)' <=> Live(e)
    PROVE  /\ ConstructsOK' /\ DestroysOK' /\ LiveOK' /\ HeadersOK'
           /\ \A e : Built(e)' <=> Built(e)
  <1>i. ConstructsOK /\ DestroysOK /\ LiveOK /\ HeadersOK
    BY DEF IInv
  <1>1. Objs \subseteq Blocks /\ ForeignObjs \subseteq Blocks
    BY DEF Blocks
  <1>2. ConstructsOK' /\ \A e : InConstruct(e)' <=> InConstruct(e)
    BY <1>i, <1>1, ConstructFrame DEF Counted
  <1>3. DestroysOK' /\ \A e : InDestroy(e)' <=> InDestroy(e)
    BY <1>i, <1>1, DestroyFrame DEF Counted
  <1>4. \A e : Built(e)' <=> Built(e)
    BY <1>1 DEF Built, Counted
  <1>5. LiveOK'
    BY <1>i, <1>1, <1>4 DEF LiveOK, Counted
  <1>6. ASSUME NEW d \in Blocks PROVE HeaderOK(d)'
    <2>1. HeaderOK(d) /\ Counted(d)
      BY <1>i DEF HeadersOK
    <2>2. CASE header'[d] = header[d]
      BY <1>2, <1>3, <1>4, <2>1, <2>2, HeaderFrame
    <2>3. CASE header'[d] # header[d]
      BY <1>2, <1>3, <1>4, <2>1, <2>3 DEF Counted, HeaderOK
    <2> QED BY <2>2, <2>3
  <1> QED BY <1>2, <1>3, <1>4, <1>5, <1>6 DEF HeadersOK

\* One holder more, and one less.
LEMMA RefAdd ==
    ASSUME NEW e \in Objs, RefOK(e), header[e].class = "primary", NEW x, x \notin Holders(e),
           Holders(e)' = Plus(Holders(e), x), header'[e].referenceCount = header[e].referenceCount + 1
    PROVE  RefOK(e)' /\ (Built(e) /\ Built(e)' /\ x \in Objs \cup Slots => OwnStep(e))
  <1>1. Cardinality(Holders(e)) \in Nat /\ Cardinality(Plus(Holders(e), x)) = Cardinality(Holders(e)) + 1
    BY HoldersFinite, FS_AddElement DEF Plus
  <1>2. RefOK(e)'
    BY <1>1 DEF RefOK
  <1> QED BY <1>2, OwnJoin

LEMMA RefRemove ==
    ASSUME NEW e \in Objs, RefOK(e), Built(e), NEW x \in Holders(e)
    PROVE  /\ header[e].referenceCount \in Nat
           /\ header[e].referenceCount - 1 = 0 <=> Holders(e) = {x}
           /\ /\ header'[e].referenceCount = header[e].referenceCount - 1
              /\ Holders(e)' = Minus(Holders(e), x)
              /\ header[e].referenceCount - 1 # 0
              => RefOK(e)' /\ (Built(e)' => OwnStep(e))
           /\ header[e].referenceCount - 1 = 0 /\ ~Built(e)' => OwnStep(e)
  <1>1. /\ IsFiniteSet(Holders(e)) /\ Cardinality(Holders(e)) \in Nat
        /\ IsFiniteSet(Minus(Holders(e), x))
        /\ Cardinality(Minus(Holders(e), x)) = Cardinality(Holders(e)) - 1
    BY HoldersFinite, FS_RemoveElement DEF Minus
  <1>2. header[e].referenceCount = Cardinality(Holders(e))
    BY DEF RefOK, Built
  <1>3. Cardinality(Minus(Holders(e), x)) = 0 <=> Minus(Holders(e), x) = {}
    BY <1>1, FS_EmptySet
  <1>4. Minus(Holders(e), x) = {} <=> Holders(e) = {x}
    BY DEF Minus
  <1>5. header[e].referenceCount > 0
    BY DEF RefOK, Built
  <1>6. /\ header[e].referenceCount \in Nat
        /\ header[e].referenceCount - 1 = 0 <=> Holders(e) = {x}
        /\ /\ header'[e].referenceCount = header[e].referenceCount - 1
           /\ Holders(e)' = Minus(Holders(e), x)
           /\ header[e].referenceCount - 1 # 0
           => RefOK(e)'
    BY <1>1, <1>2, <1>3, <1>4, <1>5 DEF RefOK
  <1>7. Holders(e) # {x} /\ Holders(e)' = Minus(Holders(e), x) /\ Built(e)' => OwnStep(e)
    BY OwnLeave
  <1>8. Holders(e) = {x} /\ ~Built(e)' => OwnStep(e)
    BY OwnLast
  <1> QED BY <1>6, <1>7, <1>8

\* Such a step that leaves the references alone.
LEMMA QuietStep ==
    ASSUME IInv, SameScopes({"construct"}), SameScopes({"destroy"}),
           \A d \in Blocks : Counted(d), \A e : Live(e)' <=> Live(e), ptr' = ptr,
           \A d \in Objs : header'[d].referenceCount = header[d].referenceCount,
           TypeOK', OneThread', ThreadsLinked'
    PROVE  IInv' /\ OwnersStep
  <1>1. /\ ConstructsOK' /\ DestroysOK' /\ LiveOK' /\ HeadersOK'
        /\ \A e : Built(e)' <=> Built(e)
    BY CountingStep
  <1>2. PtrsOK'
    BY <1>1 DEF IInv, PtrsOK
  <1>3. \A d \in Objs : /\ header'[d].class = header[d].class /\ header'[d].object = header[d].object
                        /\ header'[d].primaryException = header[d].primaryException
    BY DEF Counted, Blocks
  <1>4. ASSUME NEW e \in Objs PROVE RefOK(e)' /\ OwnStep(e)
    <2>1. Holders(e)' = Holders(e)
      BY <1>3, HoldersSame
    <2>2. RefOK(e)
      BY DEF IInv, RefsOK
    <2>3. RefOK(e)'
      BY <1>3, <2>1, <2>2, RefFrame
    <2>4. OwnStep(e)
      BY <1>3, <2>1, OwnStays
    <2> QED BY <2>3, <2>4
  <1> QED BY <1>1, <1>2, <1>4 DEF IInv, RefsOK, OwnersStep

\* The innermost scope.
LEMMA TopScope ==
    ASSUME TypeOK, NEW t \in Threads, NEW k, In(t, k)
    PROVE  /\ Depth(t) \in Nat /\ Depth(t) >= 1 /\ Depth(t) \in Pos(t) /\ 1 \in 0 .. Depth(t)
           /\ stack[t][Depth(t)] = Top(t) /\ Top(t) \in ScopeType /\ Top(t).kind = k
  <1>1. stack[t] \in Seq(ScopeType) /\ stack[t] # << >> /\ Depth(t) = Len(stack[t])
    BY DEF TypeOK, In, Depth
  <1>2. Len(stack[t]) \in Nat /\ Len(stack[t]) >= 1
    BY <1>1, EmptySeq
  <1> QED BY <1>1, <1>2 DEF Pos, Top, In

\* Nobody has a block that is free.
LEMMA FreeBlock ==
    ASSUME IInv, NEW e \in Blocks, header[e].class = "free"
    PROVE  ~InConstruct(e) /\ ~InDestroy(e) /\ ~Live(e) /\ ~Built(e)
  <1>1. ~Built(e)
    BY DEF Built
  <1>2. e # Null
    BY ExceptionsAssumption DEF Blocks
  <1>3. ~InConstruct(e)
    BY ScopeClasses
  <1>4. ~InDestroy(e)
    BY <1>2, ScopeClasses
  <1>5. ~Live(e)
    BY <1>1, ScopeClasses DEF Blocks
  <1> QED BY <1>1, <1>3, <1>4, <1>5

-----------------------------------------------------------------------------
(***************************************************************************)
(* Scopes that come and go.                                                *)
(***************************************************************************)
LEMMA ConstructSub ==
    ASSUME ConstructsOK,
           \A u \in Threads : \A j \in Pos(u)' : stack'[u][j].kind = "construct" =>
               /\ j \in Pos(u) /\ stack'[u][j] = stack[u][j]
               /\ header'[stack[u][j].ex] = header[stack[u][j].ex]
    PROVE  ConstructsOK'
  <1>1. ASSUME NEW u \in Threads, NEW j \in Pos(u)', stack'[u][j].kind = "construct"
        PROVE  ConstructOK(stack[u][j])'
    <2>1. ConstructOK(stack[u][j])
      BY <1>1 DEF ConstructsOK
    <2> QED BY <1>1, <2>1 DEF ConstructOK
  <1> QED BY <1>1 DEF ConstructsOK

\* The header of what is destroyed in scope f stays.
DestroyKept(f) ==
    /\ header'[f.ex].class = header[f.ex].class /\ header'[f.ex].object = header[f.ex].object
    /\ f.aux # Null => header'[f.aux].class = header[f.aux].class

LEMMA DestroySub ==
    ASSUME DestroysOK,
           \A u \in Threads : \A j \in Pos(u)' : stack'[u][j].kind = "destroy" =>
               j \in Pos(u) /\ stack'[u][j] = stack[u][j] /\ DestroyKept(stack[u][j])
    PROVE  DestroysOK'
  <1>1. ASSUME NEW u \in Threads, NEW j \in Pos(u)', stack'[u][j].kind = "destroy"
        PROVE  DestroyOK(stack[u][j])'
    <2>1. DestroyOK(stack[u][j])
      BY <1>1 DEF DestroysOK
    <2> QED BY <1>1, <2>1 DEF DestroyOK, DestroyKept
  <1> QED BY <1>1 DEF DestroysOK

\* A destructor is called, for what nobody destroys yet.
LEMMA DestroyAdd ==
    ASSUME DestroysOK, NEW t \in Threads, NEW p \in Pos(t)', NEW g, stack'[t][p] = g,
           \A u \in Threads : \A j \in Pos(u)' :
               stack'[u][j].kind = "destroy" /\ ~(u = t /\ j = p) =>
                   j \in Pos(u) /\ stack'[u][j] = stack[u][j] /\ DestroyKept(stack[u][j]),
           DestroyOK(g)', ~InDestroy(g.ex), g.aux # Null => ~InDestroy(g.aux)
    PROVE  DestroysOK'
  <1>1. ASSUME NEW u \in Threads, NEW j \in Pos(u)', stack'[u][j].kind = "destroy",
               ~(u = t /\ j = p)
        PROVE  /\ DestroyOK(stack[u][j])' /\ DestroyOK(stack[u][j]) /\ stack'[u][j] = stack[u][j]
               /\ InDestroy(stack[u][j].ex) /\ InDestroy(stack[u][j].aux)
               /\ j \in Pos(u) /\ stack[u][j].kind = "destroy"
    <2>1. /\ j \in Pos(u) /\ stack'[u][j] = stack[u][j] /\ DestroyKept(stack[u][j])
          /\ stack[u][j].kind = "destroy"
      BY <1>1
    <2>2. DestroyOK(stack[u][j])
      BY <2>1 DEF DestroysOK
    <2>3. DestroyOK(stack[u][j])'
      BY <2>1, <2>2 DEF DestroyOK, DestroyKept
    <2> QED BY <2>1, <2>2, <2>3 DEF InDestroy
  <1>2. \A u \in Threads : \A j \in Pos(u)' : stack'[u][j].kind = "destroy" => DestroyOK(stack[u][j])'
    BY <1>1
  <1>3. ASSUME NEW u \in Threads, NEW v \in Threads, NEW i \in Pos(u)', NEW j \in Pos(v)',
               stack'[u][i].kind = "destroy", stack'[v][j].kind = "destroy",
               \/ stack'[u][i].ex = stack'[v][j].ex \/ stack'[u][i].ex = stack'[v][j].aux
               \/ stack'[u][i].aux = stack'[v][j].aux /\ stack'[u][i].aux # Null
        PROVE  u = v /\ i = j
    <2>1. CASE u = t /\ i = p /\ ~(v = t /\ j = p)
      BY <1>1, <1>3, <2>1
    <2>2. CASE v = t /\ j = p /\ ~(u = t /\ i = p)
      <3>1. DestroyOK(stack[u][i]) /\ stack[u][i].ex # Null
        BY <1>1, <1>3, <2>2, ExceptionsAssumption DEF DestroyOK
      <3> QED BY <1>1, <1>3, <2>2, <3>1
    <2>3. CASE ~(v = t /\ j = p) /\ ~(u = t /\ i = p)
      BY <1>1, <1>3, <2>3 DEF DestroysOK
    <2> QED BY <2>1, <2>2, <2>3
  <1> QED BY <1>2, <1>3 DEF DestroysOK

\* An exception takes off in thread t from above scope m.
LEMMA FlightPush ==
    ASSUME TypeOK, NEW t \in Threads, NEW m \in Nat, m <= Depth(t), Kept(t, m),
           Depth(t)' = m + 1, stack'[t][m + 1].kind = "unwind",
           \A i \in Pos(t) : i > m => stack[t][i].kind \notin LiveKinds
    PROVE  /\ AllHandlers(t)' = AllHandlers(t)
           /\ Flights(t)' = Flights(t) \cup {m + 1}
           /\ \A i \in AllHandlers(t) \cup Flights(t) : i < m + 1 /\ Exs(t)'[i] = Exs(t)[i]
           /\ Exs(t)'[m + 1] = stack'[t][m + 1].ex
           /\ \A d : LiveIn(t, d)' <=> LiveIn(t, d) \/ d = stack'[t][m + 1].ex
  <1>1. Depth(t) \in Nat
    BY DEF TypeOK, Depth
  <1>2. Pos(t)' = 1 .. m + 1 /\ Pos(t) = 1 .. Depth(t)
    BY DEF Pos
  <1>3. \A i \in 1 .. m : i \in Pos(t) /\ i \in Pos(t)' /\ stack'[t][i] = stack[t][i]
    BY <1>1, <1>2 DEF Kept
  <1>4. \A i \in Pos(t) : stack[t][i].kind \in LiveKinds => i \in 1 .. m
    BY <1>1, <1>2
  <1>5. \A i \in Pos(t)' : i \in 1 .. m \/ i = m + 1
    BY <1>2
  <1>6. AllHandlers(t)' = AllHandlers(t)
    <2>1. AllHandlers(t) = {i \in Pos(t) : stack[t][i].kind \in {"catch", "unexpected"}}
      BY DEF AllHandlers, Pos
    <2>2. AllHandlers(t)' = {i \in Pos(t)' : stack'[t][i].kind \in {"catch", "unexpected"}}
      BY DEF AllHandlers, Pos
    <2> QED BY <1>3, <1>4, <1>5, <2>1, <2>2 DEF LiveKinds
  <1>7. m + 1 \in Pos(t)'
    BY <1>2
  <1>8. Flights(t)' = Flights(t) \cup {m + 1}
    BY <1>3, <1>4, <1>5, <1>7 DEF Flights, LiveKinds
  <1>9. ASSUME NEW i \in AllHandlers(t) \cup Flights(t)
        PROVE  i < m + 1 /\ Exs(t)'[i] = Exs(t)[i]
    <2>1. i \in 1 .. m
      BY <1>4 DEF AllHandlers, Flights, Pos, LiveKinds
    <2> QED BY <1>3, <2>1 DEF Exs
  <1>10. Exs(t)'[m + 1] = stack'[t][m + 1].ex
    BY <1>7 DEF Exs
  <1>11. \A d : LiveIn(t, d)' <=> LiveIn(t, d) \/ d = stack'[t][m + 1].ex
    <2>1. "unwind" \in LiveKinds
      BY DEF LiveKinds
    <2> QED BY <1>3, <1>4, <1>5, <1>7, <2>1 DEF LiveIn
  <1> QED BY <1>6, <1>8, <1>9, <1>10, <1>11

\* It is one that nobody throws or handles.
LEMMA NewFlight ==
    ASSUME IInv, NEW t \in Threads, NEW m \in Nat, m <= Depth(t), Kept(t, m),
           Depth(t)' = m + 1, stack'[t][m + 1].kind = "unwind",
           \A i \in Pos(t) : i > m => stack[t][i].kind \notin LiveKinds,
           NEW e \in Blocks, stack'[t][m + 1].ex = e, ~Live(e),
           \A d \in Objs : Live(d) =>
               /\ header'[d].handlerCount = header[d].handlerCount
               /\ header'[d].nextException = header[d].nextException,
           e \in Objs => header'[e].handlerCount = 0,
           eh' = IF e \in ForeignObjs THEN eh ELSE [eh EXCEPT ![t].uncaught = @ + 1]
    PROVE  /\ ThreadsLinked' /\ OneThread' /\ eh' \in [Threads -> ThreadInfo]
           /\ \A d : Live(d)' <=> Live(d) \/ d = e
  <1> DEFINE H == AllHandlers(t)
             U == Flights(t)
             x == Exs(t)
             y == Exs(t)'
             p == m + 1
             r == eh[t]
             q == eh'[t]
  <1>i. TypeOK /\ ThreadsLinked /\ OneThread
    BY DEF IInv
  <1>1. /\ H' = H /\ Flights(t)' = U \cup {p}
        /\ \A i \in H \cup U : i < p /\ y[i] = x[i]
        /\ y[p] = e
        /\ \A d : LiveIn(t, d)' <=> LiveIn(t, d) \/ d = e
    BY <1>i, FlightPush
  <1>2. Linked(H, U, x, header, r)
    BY <1>i DEF ThreadsLinked, ThreadLinked
  <1>3. /\ r \in ThreadInfo /\ q.caught = r.caught /\ q.foreign = r.foreign
        /\ q.uncaught = IF e \in ForeignObjs THEN r.uncaught ELSE r.uncaught + 1
        /\ q \in ThreadInfo /\ eh' \in [Threads -> ThreadInfo]
        /\ \A u \in Threads : u # t => eh'[u] = eh[u]
    <2>1. eh \in [Threads -> ThreadInfo] /\ r \in ThreadInfo /\ r.uncaught \in Int
      BY <1>i DEF TypeOK, ThreadInfo
    <2>2. CASE e \in ForeignObjs
      BY <2>1, <2>2
    <2>3. CASE e \notin ForeignObjs
      <3>1. eh' = [eh EXCEPT ![t] = [r EXCEPT !.uncaught = r.uncaught + 1]]
        BY <2>3
      <3>2. [r EXCEPT !.uncaught = r.uncaught + 1] \in ThreadInfo
        BY <2>1 DEF ThreadInfo
      <3>3. q = [r EXCEPT !.uncaught = r.uncaught + 1] /\ \A u \in Threads : u # t => eh'[u] = eh[u]
        BY <2>1, <3>1
      <3>4. q.caught = r.caught /\ q.foreign = r.foreign /\ q.uncaught = r.uncaught + 1
        BY <2>1, <3>3 DEF ThreadInfo
      <3>5. eh' \in [Threads -> ThreadInfo]
        BY <2>1, <3>1, <3>2
      <3> QED BY <2>1, <2>3, <3>2, <3>3, <3>4, <3>5
    <2> QED BY <2>2, <2>3
  <1>4. \A i \in H \cup U : LiveIn(t, x[i])
    BY <1>i, PositionsHere
  <1>5. \A d : LiveIn(t, d) => Live(d)
    BY DEF Live, LiveIn
  <1>6. \A i \in H \cup U : x[i] # e /\
            (x[i] \in Objs => /\ header'[x[i]].handlerCount = header[x[i]].handlerCount
                              /\ header'[x[i]].nextException = header[x[i]].nextException)
    BY <1>4, <1>5
  <1>7. e # Null
    BY ExceptionsAssumption DEF Blocks
  <1> HIDE DEF H, U, x, y, r, q
  <1>8. e # r.caught
    <2>1. r.caught # Null => \E i \in H : x[i] = r.caught
      BY <1>2, InnermostHandler
    <2> QED BY <1>6, <1>7, <2>1
  <1>9. p \in Nat \ {0}
    OBVIOUS
  <1> HIDE DEF p
  <1>10. Linked(H, U \cup {p}, y, header', q)
    BY <1>1, <1>2, <1>3, <1>6, <1>8, <1>9, LinkedThrow
  <1>11. ThreadLinked(t)'
    BY <1>1, <1>10 DEF ThreadLinked, H, U, y, q
  <1>12. /\ ThreadsLinked' /\ OneThread'
         /\ \A d : Live(d)' <=> LiveIn(t, d)' \/ (Live(d) /\ ~LiveIn(t, d))
    BY <1>i, <1>1, <1>3, <1>11, OthersStep
  <1> QED BY <1>1, <1>3, <1>5, <1>12

\* The blocks in S are dealt with; the others do not change much.
LEMMA HeadersStep ==
    ASSUME HeadersOK, NEW S,
           \A d \in Blocks : d \notin S =>
               /\ Counted(d)
               /\ InConstruct(d) => InConstruct(d)'
               /\ InDestroy(d) => InDestroy(d)'
               /\ Live(d) => Live(d)'
               /\ header[d].class = "dependent" => Built(header[d].primaryException)',
           \A d \in Blocks : d \in S => HeaderOK(d)'
    PROVE  HeadersOK'
  <1>1. ASSUME NEW d \in Blocks, d \notin S PROVE HeaderOK(d)'
    <2>1. /\ HeaderOK(d) /\ Counted(d)
          /\ InConstruct(d) => InConstruct(d)'
          /\ InDestroy(d) => InDestroy(d)'
          /\ Live(d) => Live(d)'
          /\ header[d].class = "dependent" => Built(header[d].primaryException)'
      BY <1>1 DEF HeadersOK
    <2>2. CASE header'[d] = header[d]
      BY <2>1, <2>2 DEF HeaderOK
    <2>3. CASE header'[d] # header[d]
      <3>1. /\ header'[d].class = header[d].class /\ header[d].class \in {"primary", "dependent"}
            /\ header'[d].object = header[d].object
            /\ header'[d].exceptionDestructor = header[d].exceptionDestructor
            /\ header'[d].primaryException = header[d].primaryException
            /\ ~InConstruct(d)
        BY <2>1, <2>3 DEF Counted
      <3> QED BY <2>1, <3>1 DEF HeaderOK
    <2> QED BY <2>2, <2>3
  <1> QED BY <1>1 DEF HeadersOK

\* The scopes of the kinds K that are left were there.
SubScopes(K) ==
    \A u \in Threads : \A j \in Pos(u)' : stack'[u][j].kind \in K =>
        j \in Pos(u) /\ stack'[u][j] = stack[u][j]
=============================================================================
