-------------------------- MODULE CallbacksProofs --------------------------
(***************************************************************************)
(* The callbacks are called in the right order and the right ones are      *)
(* called, for any number of threads, handlers and shared objects and any  *)
(* depth of calls: an inductive invariant of Callbacks and what follows    *)
(* from it.                                                                *)
(***************************************************************************)
EXTENDS Callbacks, SequenceTheorems, NaturalsInduction, WellFoundedInduction, TLAPS

Handler == Fns \cup {"default", Null}
Entry == [id : Nat, d : Dsos]
Frame ==
    [f : {"main", "newHandler", "exitHandler", "nothrow"}]
      \cup [f : {"new"}, pc : {"malloc", "failed", "call"}]
      \cup [f : {"terminateHandler", "unexpectedHandler"}, ran : Handler, due : Handler]
      \cup [f : {"throw"}, class : {"primary", "dependent"}, unexpected : Handler, due : Handler]
      \cup [f : {"atexit"}, d : Dsos]
      \cup [f : {"finalize"}, d : Dsos \cup {0}, rest : Seq(Entry), pc : {"lock", "loop"}]

StackType == stack \in [Threads -> Seq(Frame)]
HandlersType ==
    /\ handler \in [Kinds -> Handler]
    /\ info \in [Threads -> [state : {"none", "live", "freed"}, h : [Kinds -> Fns \cup {Null}]]]
    /\ cache \in [{"set", "call"} \X Kinds -> Threads \cup {Null}]
    /\ own \in [Threads -> [Kinds -> Fns \cup {Null, "unset"}]]
    /\ stale \in BOOLEAN
ExitType ==
    /\ head \in Seq(Entry) /\ log \in Seq(Nat)
    /\ registered \in Seq([d : Dsos, after : Nat])
    /\ lock \in Threads \cup {Null}

\* Every stack ends in "main", and a new handler is called by operator new.
StackOK(s) ==
    /\ s # << >> => s[Len(s)].f = "main"
    /\ \A i \in 1 .. Len(s) : s[i].f = "newHandler" => i < Len(s) /\ s[i + 1].f = "new"
StacksOK == \A t \in Threads : StackOK(stack[t])

\* Only a thread that has ended has lost its info.
InfoOK == \A t \in Threads : info[t].state = "freed" => stack[t] = << >>

\* While no thread has set handlers of its own, no info holds any; the info of
\* the only thread that uses them holds what it has set; and what runs on such
\* a thread or is kept in an exception is what was in force.
DueOK(f) ==
    /\ f.f \in {"terminateHandler", "unexpectedHandler"} => f.ran = f.due
    /\ f.f = "throw" => f.unexpected = f.due
Settled(t) == OnlyGlobalHandlers \/ OnlyUser(t)
HoldsOwn(t) ==
    \A k \in Kinds : info[t].h[k] = IF own[t][k] = "unset" THEN Null ELSE own[t][k]
SettledOK ==
    /\ OnlyGlobalHandlers => \A t \in Threads : info[t].h = NoHandlers
    /\ \A t \in Threads : OnlyUser(t) => HoldsOwn(t)
    /\ \A t \in Threads : Settled(t) => \A i \in 1 .. Len(stack[t]) : DueOK(stack[t][i])

\* The thread whose info terminate() or unexpected() keeps is still in that
\* function.
Runs(u, k) == \E i \in 1 .. Len(stack[u]) : stack[u][i].f = HandlerFrame[k]
CachedOK ==
    OnlyGlobalHandlers /\ "leave" \notin program =>
        /\ ~stale
        /\ \A k \in Kinds, u \in Threads :
              cache[<<"call", k>>] = u => info[u].state = "live" /\ Runs(u, k)

\* Every registered exit handler is in the list, which has the later ones
\* first, or has run.
ListOK ==
    /\ \A i, j \in 1 .. Len(head) : i < j => head[j].id < head[i].id
    /\ \A i \in 1 .. Len(head) :
          head[i].id \in 1 .. Len(registered) /\ head[i].d = registered[head[i].id].d
    /\ \A i \in 1 .. Len(log) : log[i] \in 1 .. Len(registered)
    /\ \A i \in 1 .. Len(log), j \in 1 .. Len(head) : log[i] # head[j].id
    /\ \A b \in 1 .. Len(registered) :
          (\E i \in 1 .. Len(log) : log[i] = b) \/ (\E j \in 1 .. Len(head) : head[j].id = b)

\* A loop of __cxa_finalize holds the mutex and has passed only handlers of
\* other shared objects.
Loop(f) == f.f = "finalize" /\ f.pc = "loop"
LoopOK(f) ==
    \E k \in 0 .. Len(head) :
        /\ f.rest = SubSeq(head, k + 1, Len(head))
        /\ \A j \in 1 .. k : f.d \notin {0, head[j].d}
LoopsOK ==
    /\ \A t \in Threads : \A i \in 1 .. Len(stack[t]) :
          Loop(stack[t][i]) => lock = t /\ LoopOK(stack[t][i])
    /\ \A t \in Threads : \A i, j \in 1 .. Len(stack[t]) :
          Loop(stack[t][i]) /\ Loop(stack[t][j]) => i = j

HandlersInv == HandlersType /\ InfoOK /\ SettledOK /\ CachedOK
ExitInv == ExitType /\ ListOK /\ LoopsOK /\ ExitHandlersOnceInReverse
IInv == StackType /\ StacksOK /\ HandlersInv /\ ExitInv
-----------------------------------------------------------------------------
(***************************************************************************)
(* Stacks.                                                                 *)
(***************************************************************************)
LEMMA Least ==
    ASSUME NEW I, I \subseteq Nat, I # {}
    PROVE  \E i \in I : \A j \in I : i <= j
  <1>1. PICK i \in I : \A j \in I : ~(<<j, i>> \in OpToRel(<, Nat))
    BY NatLessThanWellFounded, WFMin
  <1>2. \A j \in I : ~(j < i)
    BY <1>1 DEF OpToRel
  <1> QED BY <1>2

\* The n innermost frames of t have been replaced by new.
Replaced(t, n, new) ==
    /\ n \in 0 .. Len(stack[t]) /\ new \in Seq(Frame)
    /\ stack' \in [Threads -> Seq(Frame)]
    /\ \A u \in Threads : u # t => stack'[u] = stack[u]
    /\ Len(stack'[t]) = Len(new) + (Len(stack[t]) - n)
    /\ \A i \in 1 .. Len(stack'[t]) :
          stack'[t][i] = IF i <= Len(new) THEN new[i] ELSE stack[t][i - Len(new) + n]

LEMMA SetStackReplaces ==
    ASSUME StackType, NEW t \in Threads, NEW n, n \in 0 .. Len(stack[t]), NEW new, new \in Seq(Frame),
           SetStack(t, n, new)
    PROVE  Replaced(t, n, new)
  <1> DEFINE s == stack[t]
             m == Len(s) - n
             base == SubSeq(s, n + 1, Len(s))
  <1>1. s \in Seq(Frame) /\ Len(s) \in Nat /\ m \in Nat /\ n \in Nat /\ n <= Len(s)
    BY DEF StackType
  <1>2. base \in Seq(Frame) /\ Len(base) = m /\ \A i \in 1 .. m : base[i] = s[n + i]
    <2>1. /\ base \in Seq(Frame)
          /\ Len(base) = IF n + 1 <= Len(s) THEN Len(s) - (n + 1) + 1 ELSE 0
          /\ \A i \in 1 .. Len(s) - (n + 1) + 1 : base[i] = s[n + 1 + i - 1]
      <3>1. n + 1 \in 1 .. Len(s) + 1 /\ Len(s) \in n + 1 - 1 .. Len(s)
        BY <1>1
      <3> QED BY <1>1, <3>1, SubSeqProperties
    <2> QED BY <1>1, <2>1
  <1>3. stack'[t] = new \o base /\ \A u \in Threads : u # t => stack'[u] = stack[u]
    BY DEF SetStack, StackType
  <1>4. stack' = [stack EXCEPT ![t] = new \o base]
    BY DEF SetStack
  <1> HIDE DEF base
  <1>5. /\ new \o base \in Seq(Frame) /\ Len(new \o base) = Len(new) + m
        /\ \A i \in 1 .. Len(new) + m :
              (new \o base)[i] = IF i <= Len(new) THEN new[i] ELSE base[i - Len(new)]
    <2>1. /\ new \o base \in Seq(Frame) /\ Len(new \o base) = Len(new) + Len(base)
          /\ \A i \in 1 .. Len(new) + Len(base) :
                (new \o base)[i] = IF i <= Len(new) THEN new[i] ELSE base[i - Len(new)]
      BY <1>2, ConcatProperties
    <2> QED BY <1>2, <2>1
  <1>6. stack' \in [Threads -> Seq(Frame)]
    BY <1>4, <1>5 DEF StackType
  <1>7. ASSUME NEW i \in 1 .. Len(stack'[t])
        PROVE  stack'[t][i] = IF i <= Len(new) THEN new[i] ELSE s[i - Len(new) + n]
    <2>1. Len(new) \in Nat /\ i \in 1 .. Len(new) + m
      BY <1>3, <1>5
    <2>2. CASE ~(i <= Len(new))
      <3>1. i - Len(new) \in 1 .. m /\ n + (i - Len(new)) = i - Len(new) + n
        BY <1>1, <2>1, <2>2
      <3> QED BY <1>2, <1>3, <1>5, <2>1, <2>2, <3>1
    <2> QED BY <1>3, <1>5, <2>1, <2>2
  <1> QED BY <1>1, <1>3, <1>5, <1>6, <1>7 DEF Replaced

\* Which frames there are after the step.
LEMMA FramesAfter ==
    ASSUME StackType, NEW t \in Threads, NEW n, NEW new, Replaced(t, n, new)
    PROVE  /\ n \in Nat /\ Len(new) \in Nat /\ Len(stack[t]) \in Nat /\ Len(stack'[t]) \in Nat
           /\ \A i \in 1 .. Len(new) : i \in 1 .. Len(stack'[t]) /\ stack'[t][i] = new[i]
           /\ \A i \in 1 .. Len(stack'[t]) :
                 \/ i <= Len(new) /\ stack'[t][i] = new[i]
                 \/ /\ i > Len(new)
                    /\ i - Len(new) + n \in n + 1 .. Len(stack[t])
                    /\ stack'[t][i] = stack[t][i - Len(new) + n]
           /\ \A j \in n + 1 .. Len(stack[t]) :
                 /\ j - n + Len(new) \in 1 .. Len(stack'[t])
                 /\ stack'[t][j - n + Len(new)] = stack[t][j]
  <1>1. n \in Nat /\ Len(new) \in Nat /\ Len(stack[t]) \in Nat /\ Len(stack'[t]) \in Nat
    BY DEF Replaced, StackType
  <1>2. Len(stack'[t]) = Len(new) + (Len(stack[t]) - n) /\ n <= Len(stack[t])
    BY DEF Replaced
  <1>3. \A i \in 1 .. Len(stack'[t]) :
          stack'[t][i] = IF i <= Len(new) THEN new[i] ELSE stack[t][i - Len(new) + n]
    BY DEF Replaced
  <1>4. ASSUME NEW i \in 1 .. Len(stack'[t])
        PROVE  \/ i <= Len(new) /\ stack'[t][i] = new[i]
               \/ /\ i > Len(new)
                  /\ i - Len(new) + n \in n + 1 .. Len(stack[t])
                  /\ stack'[t][i] = stack[t][i - Len(new) + n]
    <2>1. stack'[t][i] = IF i <= Len(new) THEN new[i] ELSE stack[t][i - Len(new) + n]
      BY <1>3
    <2>2. PICK a \in Nat, b \in Nat, c \in Nat : a = Len(new) /\ b = Len(stack[t]) /\ c = Len(stack'[t])
      BY <1>1
    <2>3. c = a + (b - n) /\ n <= b /\ i \in 1 .. c
      BY <1>2, <2>2
    <2>4. i <= a \/ (i > a /\ i - a + n \in n + 1 .. b)
      BY ONLY <2>3, <1>1, a \in Nat, b \in Nat, c \in Nat
    <2> QED BY ONLY <2>1, <2>2, <2>4, i \in Int, a \in Nat, <1>1
  <1>5. ASSUME NEW j \in n + 1 .. Len(stack[t])
        PROVE  /\ j - n + Len(new) \in 1 .. Len(stack'[t])
               /\ stack'[t][j - n + Len(new)] = stack[t][j]
    <2> DEFINE i == j - n + Len(new)
    <2>1. i \in 1 .. Len(stack'[t]) /\ ~(i <= Len(new)) /\ i - Len(new) + n = j
      BY <1>1, <1>2
    <2> HIDE DEF i
    <2>2. stack'[t][i] = stack[t][i - Len(new) + n]
      BY <1>3, <2>1
    <2>3. stack'[t][i] = stack[t][j]
      BY <2>1, <2>2
    <2> QED BY <2>1, <2>3 DEF i
  <1>6. ASSUME NEW i \in 1 .. Len(new)
        PROVE  i \in 1 .. Len(stack'[t]) /\ stack'[t][i] = new[i]
    BY <1>1, <1>2, <1>3
  <1> QED BY <1>1, <1>4, <1>5, <1>6

\* Frames that may be entered on a stack, and those that an exception or a
\* return may remove.
Pushable(new) ==
    \A i \in 1 .. Len(new) :
        /\ new[i].f # "main"
        /\ new[i].f = "newHandler" => i < Len(new) /\ new[i + 1].f = "new"
Poppable(f) == "leave" \notin program => f.f \notin {"terminateHandler", "unexpectedHandler"}

LEMMA StacksKept ==
    ASSUME StackType, StacksOK, NEW t \in Threads, NEW n, NEW new, Replaced(t, n, new),
           n < Len(stack[t]), Pushable(new)
    PROVE  StackType' /\ StacksOK' /\ stack'[t] # << >>
  <1> DEFINE s == stack[t]
             r == stack'[t]
             m == Len(new)
  <1>1. /\ n \in Nat /\ m \in Nat /\ Len(s) \in Nat /\ Len(r) \in Nat
        /\ \A i \in 1 .. m : i \in 1 .. Len(r) /\ r[i] = new[i]
        /\ \A i \in 1 .. Len(r) :
              \/ i <= m /\ r[i] = new[i]
              \/ i > m /\ i - m + n \in n + 1 .. Len(s) /\ r[i] = s[i - m + n]
        /\ \A j \in n + 1 .. Len(s) : j - n + m \in 1 .. Len(r) /\ r[j - n + m] = s[j]
    BY FramesAfter
  <1>2. StackType' /\ Len(r) = m + (Len(s) - n)
    BY DEF Replaced, StackType
  <1>3. StackOK(s) /\ s # << >>
    <2>1. Len(<< >>) = 0
      OBVIOUS
    <2> QED BY <1>1, <2>1 DEF StacksOK
  <1>4. r # << >>
    <2>1. Len(<< >>) = 0 /\ Len(r) # 0
      BY <1>1, <1>2
    <2> QED BY <2>1
  <1>5. r[Len(r)].f = "main"
    <2>1. Len(s) \in n + 1 .. Len(s) /\ Len(s) - n + m = Len(r)
      BY <1>1, <1>2
    <2>2. r[Len(s) - n + m] = s[Len(s)]
      BY <1>1, <2>1
    <2> QED BY <1>3, <2>1, <2>2 DEF StackOK
  <1>6. ASSUME NEW i \in 1 .. Len(r), r[i].f = "newHandler"
        PROVE  i < Len(r) /\ r[i + 1].f = "new"
    <2>1. CASE i <= m /\ r[i] = new[i]
      <3>1. i \in 1 .. m
        BY <1>1, <2>1
      <3>2. i < m /\ new[i + 1].f = "new"
        BY <1>6, <2>1, <3>1 DEF Pushable
      <3>3. i + 1 \in 1 .. m /\ i < Len(r)
        BY <1>1, <1>2, <3>1, <3>2
      <3> QED BY <1>1, <3>2, <3>3
    <2>2. CASE i > m /\ i - m + n \in n + 1 .. Len(s) /\ r[i] = s[i - m + n]
      <3>0. PICK j : j = i - m + n
        OBVIOUS
      <3>1. j \in n + 1 .. Len(s) /\ j \in 1 .. Len(s) /\ j + 1 - n + m = i + 1 /\ j \in Nat
        BY <1>1, <2>2, <3>0
      <3>2. s[j].f = "newHandler"
        BY <1>6, <2>2, <3>0
      <3>3. j < Len(s) /\ s[j + 1].f = "new"
        BY <1>3, <3>1, <3>2 DEF StackOK
      <3>4. PICK k : k = j + 1
        OBVIOUS
      <3>5. k \in n + 1 .. Len(s) /\ i < Len(r) /\ k - n + m = i + 1
        BY <1>1, <1>2, <2>2, <3>1, <3>3, <3>0, <3>4
      <3>6. r[k - n + m] = s[k]
        BY <1>1, <3>5
      <3> QED BY <3>3, <3>4, <3>5, <3>6
    <2> QED BY <1>1, <2>1, <2>2
  <1>7. StackOK(r)
    BY <1>5, <1>6 DEF StackOK
  <1>8. \A u \in Threads : StackOK(stack[u])'
    BY <1>7 DEF Replaced, StacksOK, StackOK
  <1> QED BY <1>2, <1>4, <1>8 DEF StacksOK

\* A frame other than "main" has frames below it.
LEMMA NotTheLast ==
    ASSUME StackType, StacksOK, NEW t \in Threads, NEW n \in 1 .. Len(stack[t]),
           stack[t][n].f # "main"
    PROVE  n < Len(stack[t])
  <1>1. Len(stack[t]) \in Nat /\ StackOK(stack[t])
    BY DEF StackType, StacksOK
  <1>2. Len(<< >>) = 0
    OBVIOUS
  <1>3. stack[t] # << >>
    BY <1>1, <1>2
  <1> QED BY <1>1, <1>3 DEF StackOK

LEMMA RunsKept ==
    ASSUME StackType, NEW t \in Threads, NEW n, NEW new, Replaced(t, n, new),
           NEW k \in Kinds, NEW u \in Threads, Runs(u, k),
           \A i \in 1 .. n : stack[t][i].f # HandlerFrame[k]
    PROVE  Runs(u, k)'
  <1>1. CASE u # t
    BY <1>1 DEF Runs, Replaced
  <1>2. CASE u = t
    <2>1. PICK i \in 1 .. Len(stack[t]) : stack[t][i].f = HandlerFrame[k]
      BY <1>2 DEF Runs
    <2>2. n \in Nat /\ Len(stack[t]) \in Nat /\ i \in n + 1 .. Len(stack[t])
      BY <2>1, FramesAfter
    <2>3. \A j \in n + 1 .. Len(stack[t]) :
             /\ j - n + Len(new) \in 1 .. Len(stack'[t])
             /\ stack'[t][j - n + Len(new)] = stack[t][j]
      BY FramesAfter
    <2>4. PICK j \in 1 .. Len(stack'[t]) : stack'[t][j] = stack[t][i]
      BY <2>2, <2>3
    <2> QED BY <1>2, <2>1, <2>4 DEF Runs
  <1> QED BY <1>1, <1>2

LEMMA LoopsKept ==
    ASSUME StackType, LoopsOK, NEW t \in Threads, NEW n, NEW new, Replaced(t, n, new),
           \A i \in 1 .. Len(new) : ~Loop(new[i]), head' = head, lock' = lock
    PROVE  LoopsOK'
  <1> DEFINE s == stack[t]
             r == stack'[t]
             m == Len(new)
  <1>1. /\ n \in Nat /\ m \in Nat /\ Len(s) \in Nat
        /\ \A i \in 1 .. Len(r) :
              \/ i <= m /\ r[i] = new[i]
              \/ i > m /\ i - m + n \in n + 1 .. Len(s) /\ r[i] = s[i - m + n]
    BY FramesAfter
  <1>2. \A i \in 1 .. Len(r) : Loop(r[i]) => i - m + n \in 1 .. Len(s) /\ r[i] = s[i - m + n]
    <2> SUFFICES ASSUME NEW i \in 1 .. Len(r), Loop(r[i])
                 PROVE  i - m + n \in 1 .. Len(s) /\ r[i] = s[i - m + n]
      OBVIOUS
    <2>1. CASE i <= m /\ r[i] = new[i]
      <3>1. i \in 1 .. m
        BY <1>1, <2>1
      <3> QED BY <2>1, <3>1
    <2>2. CASE i > m /\ i - m + n \in n + 1 .. Len(s) /\ r[i] = s[i - m + n]
      BY <1>1, <2>2
    <2> QED BY <1>1, <2>1, <2>2
  <1>3. ASSUME NEW u \in Threads, NEW i \in 1 .. Len(stack'[u]), Loop(stack'[u][i])
        PROVE  lock = u /\ LoopOK(stack'[u][i])
    <2>1. CASE u = t
      BY <1>2, <1>3, <2>1 DEF LoopsOK
    <2>2. CASE u # t
      BY <1>3, <2>2 DEF LoopsOK, Replaced
    <2> QED BY <2>1, <2>2
  <1>4. ASSUME NEW u \in Threads, NEW i \in 1 .. Len(stack'[u]), NEW j \in 1 .. Len(stack'[u]),
               Loop(stack'[u][i]), Loop(stack'[u][j])
        PROVE  i = j
    <2>1. CASE u = t
      <3>1. i - m + n \in 1 .. Len(s) /\ j - m + n \in 1 .. Len(s) /\ Loop(s[i - m + n]) /\ Loop(s[j - m + n])
        BY <1>2, <1>4, <2>1
      <3>2. i - m + n = j - m + n
        BY <3>1 DEF LoopsOK
      <3> QED BY <1>1, <3>2
    <2>2. CASE u # t
      BY <1>4, <2>2 DEF LoopsOK, Replaced
    <2> QED BY <2>1, <2>2
  <1> QED BY <1>3, <1>4 DEF LoopsOK, Loop, LoopOK

LEMMA SameStack ==
    ASSUME StackType, NEW t \in Threads, stack' = stack
    PROVE  Replaced(t, 0, << >>)
  <1>1. stack[t] \in Seq(Frame) /\ Len(stack[t]) \in Nat /\ << >> \in Seq(Frame) /\ Len(<< >>) = 0
    BY DEF StackType
  <1>2. \A i \in 1 .. Len(stack[t]) : ~(i <= 0) /\ i - 0 + 0 = i
    BY <1>1
  <1> QED BY <1>1, <1>2 DEF StackType, Replaced

\* What is running on t.
LEMMA TopFrame ==
    ASSUME StackType, NEW t \in Threads, Top(t).f # "ended"
    PROVE  /\ Len(stack[t]) \in Nat /\ Len(stack[t]) >= 1 /\ 0 < Len(stack[t]) /\ stack[t] # << >>
           /\ Top(t) = stack[t][1] /\ Top(t) \in Frame
           /\ 0 \in 0 .. Len(stack[t]) /\ 1 \in 0 .. Len(stack[t])
           /\ 1 \in 1 .. Len(stack[t])
  <1>1. stack[t] \in Seq(Frame) /\ stack[t] # << >>
    BY DEF Top, StackType
  <1>2. Top(t) = stack[t][1] /\ Top(t) \in Frame /\ Len(stack[t]) \in Nat /\ Len(stack[t]) >= 1
    BY <1>1 DEF Top
  <1> QED BY <1>1, <1>2

LEMMA BelowFrame ==
    ASSUME StackType, NEW t \in Threads, Below(t).f # "ended"
    PROVE  /\ Len(stack[t]) \in Nat /\ Len(stack[t]) >= 2
           /\ Below(t) = stack[t][2] /\ Below(t) \in Frame
           /\ 2 \in 0 .. Len(stack[t]) /\ 2 \in 1 .. Len(stack[t])
  <1>1. stack[t] \in Seq(Frame) /\ Len(stack[t]) \in Nat
    BY DEF StackType
  <1>2. ~(Len(stack[t]) < 2) /\ Below(t) = stack[t][2]
    BY DEF Below
  <1> QED BY <1>1, <1>2

\* A step that replaces frames of t and at most adds an info or a pointer to
\* one.
Grows(t) ==
    /\ program' = program /\ own' = own
    /\ \A site \in {"set", "call"} \X Kinds : cache[site] # Null => cache'[site] = cache[site]
    /\ \A u \in Threads :
          /\ info'[u].h = info[u].h
          /\ info'[u].state = "freed" => info[u].state = "freed"
          /\ info[u].state = "live" => info'[u].state = "live"
    /\ OnlyGlobalHandlers /\ "leave" \notin program =>
          /\ stale' => stale
          /\ \A k \in Kinds, u \in Threads :
                cache'[<<"call", k>>] = u =>
                    \/ cache[<<"call", k>>] = u
                    \/ info'[u].state = "live" /\ Runs(u, k)'

\* A thread that is the only user of handlers of its own has always been.
LEMMA StillSettled ==
    ASSUME HandlersType, HandlersType', own' = own,
           \A site \in {"set", "call"} \X Kinds : cache[site] # Null => cache'[site] = cache[site]
    PROVE  /\ OnlyGlobalHandlers' <=> OnlyGlobalHandlers
           /\ \A u \in Threads : OnlyUser(u)' => OnlyUser(u)
           /\ \A u \in Threads : Settled(u)' => Settled(u)
  <1>1. OnlyGlobalHandlers' <=> OnlyGlobalHandlers
    BY DEF OnlyGlobalHandlers, NeverSet
  <1>2. ASSUME NEW u \in Threads, OnlyUser(u)' PROVE OnlyUser(u)
    <2>1. DOMAIN cache = {"set", "call"} \X Kinds /\ DOMAIN cache' = {"set", "call"} \X Kinds
      BY DEF HandlersType
    <2>2. /\ \A v \in Threads \ {u} : own[v] = NeverSet
          /\ \A site \in {"set", "call"} \X Kinds : cache'[site] \in {Null, u}
      BY <1>2, <2>1 DEF OnlyUser, NeverSet
    <2>3. \A site \in {"set", "call"} \X Kinds : cache[site] \in {Null, u}
      BY <2>2
    <2> QED BY <2>1, <2>2, <2>3 DEF OnlyUser
  <1>3. ASSUME NEW u \in Threads, Settled(u)' PROVE Settled(u)
    BY <1>1, <1>2, <1>3 DEF Settled
  <1> QED BY <1>1, <1>2, <1>3

LEMMA HandlersKept ==
    ASSUME StackType, StacksOK, HandlersInv, HandlersType', NEW t \in Threads, NEW n, NEW new,
           Replaced(t, n, new), n < Len(stack[t]), Grows(t), stack'[t] # << >>,
           \A i \in 1 .. n : Poppable(stack[t][i]),
           Settled(t) => \A i \in 1 .. Len(new) : DueOK(new[i])
    PROVE  HandlersInv'
  <1>i. HandlersType /\ InfoOK /\ SettledOK /\ CachedOK
    BY DEF HandlersInv
  <1>1. /\ OnlyGlobalHandlers' <=> OnlyGlobalHandlers
        /\ \A u \in Threads : OnlyUser(u)' => OnlyUser(u)
        /\ \A u \in Threads : Settled(u)' => Settled(u)
    BY <1>i, StillSettled DEF Grows
  <1>2. stack[t] # << >>
    <2>1. Len(<< >>) = 0 /\ n \in Nat /\ ~(n < 0)
      BY FramesAfter
    <2> QED BY <2>1
  <1>3. InfoOK'
    <2> SUFFICES ASSUME NEW u \in Threads, info'[u].state = "freed" PROVE stack'[u] = << >>
      BY DEF InfoOK
    <2>1. info[u].state = "freed"
      BY DEF Grows
    <2>2. stack[u] = << >> /\ u # t
      BY <1>2, <1>i, <2>1 DEF InfoOK
    <2> QED BY <2>2 DEF Replaced
  <1>4. SettledOK'
    <2>1. OnlyGlobalHandlers' => \A u \in Threads : info'[u].h = NoHandlers'
      BY <1>1, <1>i DEF Grows, SettledOK, NoHandlers
    <2>2. \A u \in Threads : OnlyUser(u)' => HoldsOwn(u)'
      BY <1>1, <1>i DEF Grows, SettledOK, HoldsOwn
    <2>3. ASSUME Settled(t), NEW i \in 1 .. Len(stack'[t]) PROVE DueOK(stack'[t][i])
      <3>1. n \in Nat /\ Len(new) \in Nat /\ Len(stack[t]) \in Nat
        BY FramesAfter
      <3>2. \/ i <= Len(new) /\ stack'[t][i] = new[i]
            \/ /\ i - Len(new) + n \in n + 1 .. Len(stack[t])
               /\ stack'[t][i] = stack[t][i - Len(new) + n]
        BY FramesAfter
      <3>3. CASE i <= Len(new) /\ stack'[t][i] = new[i]
        <4>1. i \in 1 .. Len(new)
          BY <3>1, <3>3
        <4> QED BY <2>3, <3>3, <4>1
      <3>4. CASE /\ i - Len(new) + n \in n + 1 .. Len(stack[t])
                 /\ stack'[t][i] = stack[t][i - Len(new) + n]
        <4>1. PICK j : j = i - Len(new) + n
          OBVIOUS
        <4>2. j \in 1 .. Len(stack[t])
          BY <3>1, <3>4, <4>1
        <4> QED BY <1>i, <2>3, <3>4, <4>1, <4>2 DEF SettledOK
      <3> QED BY <3>2, <3>3, <3>4
    <2>4. ASSUME NEW u \in Threads, Settled(u)', NEW i \in 1 .. Len(stack'[u])
          PROVE  DueOK(stack'[u][i])
      <3>1. Settled(u)
        BY <1>1, <2>4
      <3>2. CASE u = t
        BY <2>3, <2>4, <3>1, <3>2
      <3>3. CASE u # t
        BY <1>i, <2>4, <3>1, <3>3 DEF Replaced, SettledOK
      <3> QED BY <3>2, <3>3
    <2> QED BY <2>1, <2>2, <2>4 DEF SettledOK, DueOK
  <1>5. CachedOK'
    <2> SUFFICES ASSUME OnlyGlobalHandlers, "leave" \notin program
                 PROVE  /\ ~stale'
                        /\ \A k \in Kinds, u \in Threads :
                              cache'[<<"call", k>>] = u => info'[u].state = "live" /\ Runs(u, k)'
      BY <1>1 DEF CachedOK, Grows
    <2>1. ~stale'
      BY <1>i DEF CachedOK, Grows
    <2>2. ASSUME NEW k \in Kinds, NEW u \in Threads, cache'[<<"call", k>>] = u
          PROVE  info'[u].state = "live" /\ Runs(u, k)'
      <3>1. CASE info'[u].state = "live" /\ Runs(u, k)'
        BY <3>1
      <3>2. CASE cache[<<"call", k>>] = u
        <4>1. info[u].state = "live" /\ Runs(u, k)
          BY <1>i, <3>2 DEF CachedOK
        <4>2. \A i \in 1 .. n : stack[t][i].f # HandlerFrame[k]
          <5>1. HandlerFrame[k] \in {"terminateHandler", "unexpectedHandler"}
            BY DEF HandlerFrame, Kinds
          <5> QED BY <5>1 DEF Poppable
        <4>3. Runs(u, k)'
          BY <4>1, <4>2, RunsKept
        <4> QED BY <4>1, <4>3 DEF Grows
      <3> QED BY <2>2, <3>1, <3>2 DEF Grows
    <2> QED BY <2>1, <2>2
  <1> QED BY <1>3, <1>4, <1>5 DEF HandlersInv

LEMMA ListKept ==
    ASSUME ExitType, ListOK, ExitHandlersOnceInReverse, exitVars' = exitVars
    PROVE  ExitType' /\ ListOK' /\ ExitHandlersOnceInReverse'
  <1>0. head' = head /\ lock' = lock /\ registered' = registered /\ log' = log
    BY DEF exitVars
  <1>1. ExitType'
    BY <1>0 DEF ExitType
  <1>2. ListOK'
    BY <1>0 DEF ListOK
  <1>3. ExitHandlersOnceInReverse'
    BY <1>0 DEF ExitHandlersOnceInReverse
  <1> QED BY <1>1, <1>2, <1>3

\* A step of the handlers or of operator new, which leaves the exit handlers
\* alone.
LEMMA GrowInv ==
    ASSUME IInv, NEW t \in Threads, NEW n, NEW new, Replaced(t, n, new), n < Len(stack[t]),
           Pushable(new), \A i \in 1 .. n : Poppable(stack[t][i]),
           \A i \in 1 .. Len(new) : ~Loop(new[i]) /\ (Settled(t) => DueOK(new[i])),
           HandlersType', Grows(t), exitVars' = exitVars
    PROVE  IInv'
  <1>i. StackType /\ StacksOK /\ HandlersInv /\ ExitInv
    BY DEF IInv
  <1>1. StackType' /\ StacksOK' /\ stack'[t] # << >>
    BY <1>i, StacksKept
  <1>2. HandlersInv'
    BY <1>1, <1>i, HandlersKept
  <1>3. ExitInv'
    <2>1. ExitType /\ ListOK /\ LoopsOK /\ ExitHandlersOnceInReverse
      BY <1>i DEF ExitInv
    <2>2. LoopsOK'
      BY <1>i, <2>1, LoopsKept DEF exitVars
    <2>3. ExitType' /\ ListOK' /\ ExitHandlersOnceInReverse'
      BY <2>1, ListKept
    <2> QED BY <2>2, <2>3 DEF ExitInv
  <1> QED BY <1>1, <1>2, <1>3 DEF IInv

\* A step that replaces n frames of the running thread t by new and changes
\* nothing else that the invariant is about.
PlainStep(t, n, new) ==
    /\ Top(t).f # "ended" /\ SetStack(t, n, new)
    /\ n \in 0 .. Len(stack[t]) /\ (n # 0 => stack[t][n].f # "main")
    /\ \A i \in 1 .. n : Poppable(stack[t][i])
    /\ new \in Seq(Frame) /\ Pushable(new)
    /\ \A i \in 1 .. Len(new) : ~Loop(new[i]) /\ (Settled(t) => DueOK(new[i]))
    /\ program' = program /\ handlerVars' = handlerVars /\ exitVars' = exitVars

LEMMA PlainInv ==
    ASSUME IInv, NEW t \in Threads, NEW n, NEW new, PlainStep(t, n, new)
    PROVE  IInv'
  <1>i. StackType /\ StacksOK /\ HandlersInv
    BY DEF IInv
  <1>1. Replaced(t, n, new)
    BY <1>i, SetStackReplaces DEF PlainStep
  <1>2. n < Len(stack[t])
    <2>1. 0 < Len(stack[t]) /\ n \in 0 .. Len(stack[t]) /\ Len(stack[t]) \in Nat
      BY <1>i, TopFrame DEF PlainStep
    <2>2. CASE n # 0
      <3>1. n \in 1 .. Len(stack[t]) /\ stack[t][n].f # "main"
        BY <2>1, <2>2 DEF PlainStep
      <3> QED BY <1>i, <3>1, NotTheLast
    <2> QED BY <2>1, <2>2
  <1>3. HandlersType'
    BY <1>i DEF HandlersInv, HandlersType, handlerVars, PlainStep
  <1>4. Grows(t)
    BY DEF Grows, handlerVars, PlainStep
  <1>5. /\ Pushable(new) /\ \A i \in 1 .. n : Poppable(stack[t][i])
        /\ \A i \in 1 .. Len(new) : ~Loop(new[i]) /\ (Settled(t) => DueOK(new[i]))
        /\ exitVars' = exitVars
    BY DEF PlainStep
  <1> QED BY <1>1, <1>2, <1>3, <1>4, <1>5, GrowInv

LEMMA OneFrame ==
    ASSUME NEW f \in Frame, f.f \notin {"main", "newHandler"}
    PROVE  /\ << f >> \in Seq(Frame) /\ Pushable(<< f >>) /\ Len(<< f >>) = 1
           /\ \A i \in 1 .. Len(<< f >>) : << f >>[i] = f
  <1>1. << f >> \in Seq(Frame) /\ Len(<< f >>) = 1 /\ \A i \in 1 .. 1 : << f >>[i] = f
    OBVIOUS
  <1> QED BY <1>1 DEF Pushable

LEMMA NoFrame == << >> \in Seq(Frame) /\ Pushable(<< >>) /\ 1 .. Len(<< >>) = {}
  <1>1. << >> \in Seq(Frame) /\ 1 .. Len(<< >>) = {}
    OBVIOUS
  <1> QED BY <1>1 DEF Pushable

LEMMA TwoFrames ==
    ASSUME NEW f \in Frame, NEW g \in Frame, f.f # "main", g.f \notin {"main", "newHandler"},
           f.f = "newHandler" => g.f = "new"
    PROVE  /\ << f, g >> \in Seq(Frame) /\ Pushable(<< f, g >>) /\ Len(<< f, g >>) = 2
           /\ \A i \in 1 .. Len(<< f, g >>) : << f, g >>[i] \in {f, g}
  <1>1. /\ << f, g >> \in Seq(Frame) /\ Len(<< f, g >>) = 2
        /\ << f, g >>[1] = f /\ << f, g >>[2] = g
    OBVIOUS
  <1>2. \A i \in 1 .. 2 : i = 1 \/ i = 2
    OBVIOUS
  <1>3. 1 < 2 /\ 1 + 1 = 2
    OBVIOUS
  <1>4. Pushable(<< f, g >>)
    BY <1>1, <1>2, <1>3 DEF Pushable
  <1>5. \A i \in 1 .. Len(<< f, g >>) : << f, g >>[i] \in {f, g}
    BY <1>1, <1>2
  <1> QED BY <1>1, <1>4, <1>5

\* Entering a frame, leaving one, and exchanging one for another.
LEMMA PushInv ==
    ASSUME IInv, NEW t \in Threads, Top(t).f # "ended", NEW f \in Frame,
           f.f \notin {"main", "newHandler"}, ~Loop(f), Settled(t) => DueOK(f),
           SetStack(t, 0, << f >>),
           program' = program, handlerVars' = handlerVars, exitVars' = exitVars
    PROVE  IInv'
  <1>1. 0 \in 0 .. Len(stack[t]) /\ 1 .. 0 = {}
    BY TopFrame DEF IInv
  <1>2. PlainStep(t, 0, << f >>)
    BY <1>1, OneFrame DEF PlainStep
  <1> QED BY <1>2, PlainInv

LEMMA PopInv ==
    ASSUME IInv, NEW t \in Threads, Top(t).f \notin {"ended", "main"}, Poppable(Top(t)),
           SetStack(t, 1, << >>),
           program' = program, handlerVars' = handlerVars, exitVars' = exitVars
    PROVE  IInv'
  <1>1. 1 \in 0 .. Len(stack[t]) /\ 1 .. 1 = {1} /\ stack[t][1] = Top(t)
    BY TopFrame DEF IInv
  <1>2. PlainStep(t, 1, << >>)
    BY <1>1, NoFrame DEF PlainStep
  <1> QED BY <1>2, PlainInv

LEMMA SwapInv ==
    ASSUME IInv, NEW t \in Threads, Top(t).f \notin {"ended", "main"}, Poppable(Top(t)),
           NEW f \in Frame, f.f \notin {"main", "newHandler"}, ~Loop(f),
           Settled(t) => DueOK(f), SetStack(t, 1, << f >>),
           program' = program, handlerVars' = handlerVars, exitVars' = exitVars
    PROVE  IInv'
  <1>1. 1 \in 0 .. Len(stack[t]) /\ 1 .. 1 = {1} /\ stack[t][1] = Top(t)
    BY TopFrame DEF IInv
  <1>2. PlainStep(t, 1, << f >>)
    BY <1>1, OneFrame DEF PlainStep
  <1> QED BY <1>2, PlainInv

-----------------------------------------------------------------------------
(***************************************************************************)
(* operator new and the new handler.                                       *)
(***************************************************************************)
\* A step that leaves the stacks and the exit handlers alone.
LEMMA ExitStill ==
    ASSUME ExitInv, stack' = stack, exitVars' = exitVars
    PROVE  ExitInv'
  <1>1. ExitType' /\ ListOK' /\ ExitHandlersOnceInReverse'
    BY ListKept DEF ExitInv
  <1>2. LoopsOK'
    <2>1. head' = head /\ lock' = lock
      BY DEF exitVars
    <2>2. \A f : LoopOK(f) => LoopOK(f)'
      BY <2>1 DEF LoopOK
    <2>3. LoopsOK
      BY DEF ExitInv
    <2>4. \A t \in Threads : \A i \in 1 .. Len(stack'[t]) :
             Loop(stack'[t][i]) => lock' = t /\ LoopOK(stack[t][i])'
      BY <2>1, <2>2, <2>3 DEF LoopsOK, LoopOK
    <2>5. \A t \in Threads : \A i, j \in 1 .. Len(stack'[t]) :
             Loop(stack'[t][i]) /\ Loop(stack'[t][j]) => i = j
      BY <2>3 DEF LoopsOK
    <2> QED BY <2>4, <2>5 DEF LoopsOK, Loop
  <1> QED BY <1>1, <1>2 DEF ExitInv

LEMMA UnchangedInv ==
    ASSUME IInv, program' = program, stack' = stack, handlerVars' = handlerVars, exitVars' = exitVars
    PROVE  IInv'
  <1>1. StackType' /\ StacksOK'
    BY DEF IInv, StackType, StacksOK, StackOK
  <1>2. HandlersType' /\ InfoOK' /\ SettledOK'
    BY DEF IInv, HandlersInv, HandlersType, InfoOK, SettledOK, DueOK, NoHandlers, OnlyGlobalHandlers,
           Settled, OnlyUser, HoldsOwn, NeverSet, handlerVars
  <1>3. CachedOK'
    BY DEF IInv, HandlersInv, CachedOK, OnlyGlobalHandlers, NeverSet, Runs, handlerVars
  <1>4. ExitInv'
    BY ExitStill DEF IInv
  <1> QED BY <1>1, <1>2, <1>3, <1>4 DEF IInv, HandlersInv

\* User code is running when it calls something.
LEMMA Running ==
    ASSUME NEW t \in Threads, Top(t).f \in UserFrames
    PROVE  Top(t).f # "ended"
  BY DEF UserFrames, HandlerFrames

LEMMA NewInv ==
    ASSUME IInv, NEW t \in Threads, New(t), exitVars' = exitVars
    PROVE  IInv'
  <1> DEFINE f == [f |-> "new", pc |-> "malloc"]
  <1>1. /\ f \in Frame /\ f.f \notin {"main", "newHandler"} /\ ~Loop(f) /\ DueOK(f)
        /\ Top(t).f # "ended"
    BY Running DEF Frame, Loop, DueOK, New, Calls
  <1>2. /\ SetStack(t, 0, << f >>) /\ program' = program
        /\ handlerVars' = handlerVars /\ exitVars' = exitVars
    BY DEF New
  <1> HIDE DEF f
  <1> QED BY <1>1, <1>2, PushInv

LEMMA NewCallsInv ==
    ASSUME IInv, NEW t \in Threads, NewCalls(t), exitVars' = exitVars
    PROVE  IInv'
  <1>1. CASE \E fn \in Fns \cup {Null} : SetNewHandler(t, fn)
    BY <1>1, UnchangedInv DEF SetNewHandler
  <1>2. CASE Delete(t)
    BY <1>2, UnchangedInv DEF Delete
  <1>3. CASE New(t)
    BY <1>3, NewInv
  <1>4. CASE NewNothrow(t)
    <2> DEFINE f == [f |-> "new", pc |-> "malloc"]
               g == [f |-> "nothrow"]
    <2>1. /\ f \in Frame /\ f.f = "new" /\ ~Loop(f) /\ DueOK(f)
          /\ g \in Frame /\ g.f = "nothrow" /\ ~Loop(g) /\ DueOK(g)
          /\ Top(t).f # "ended"
      BY <1>4, Running DEF Frame, Loop, DueOK, NewNothrow, Calls
    <2>2. SetStack(t, 0, << f, g >>) /\ program' = program /\ handlerVars' = handlerVars
      BY <1>4 DEF NewNothrow
    <2>3. 0 \in 0 .. Len(stack[t]) /\ 1 .. 0 = {}
      BY <2>1, TopFrame DEF IInv
    <2> HIDE DEF f, g
    <2>4. PlainStep(t, 0, << f, g >>)
      <3>1. /\ << f, g >> \in Seq(Frame) /\ Pushable(<< f, g >>)
            /\ \A i \in 1 .. Len(<< f, g >>) : << f, g >>[i] \in {f, g}
        BY <2>1, TwoFrames
      <3> QED BY <2>1, <2>2, <2>3, <3>1 DEF PlainStep
    <2> QED BY <2>4, PlainInv
  <1> QED BY <1>1, <1>2, <1>3, <1>4 DEF NewCalls

\* operator new goes on with another step of its loop.
LEMMA LoopOfNewInv ==
    ASSUME IInv, NEW t \in Threads, At(t, "new"), NEW pc \in {"malloc", "failed", "call"},
           SetStack(t, 1, << [f |-> "new", pc |-> pc] >>),
           program' = program, handlerVars' = handlerVars, exitVars' = exitVars
    PROVE  IInv'
  <1> DEFINE f == [f |-> "new", pc |-> pc]
  <1>1. /\ f \in Frame /\ f.f \notin {"main", "newHandler"} /\ ~Loop(f) /\ DueOK(f)
        /\ Top(t).f \notin {"ended", "main"} /\ Poppable(Top(t)) /\ SetStack(t, 1, << f >>)
    BY DEF Frame, Loop, DueOK, At, Poppable
  <1> HIDE DEF f
  <1> QED BY <1>1, SwapInv

LEMMA MallocSucceedsInv ==
    ASSUME IInv, NEW t \in Threads, MallocSucceeds(t), exitVars' = exitVars
    PROVE  IInv'
  <1>1. /\ Top(t).f = "new" /\ SetStack(t, NewFrames(t), << >>)
        /\ program' = program /\ handlerVars' = handlerVars
    BY DEF MallocSucceeds, AtNew, At
  <1>2. CASE Below(t).f # "nothrow"
    <2>1. NewFrames(t) = 1 /\ Poppable(Top(t))
      BY <1>1, <1>2 DEF NewFrames, Poppable
    <2> QED BY <1>1, <2>1, PopInv
  <1>3. CASE Below(t).f = "nothrow"
    <2>1. NewFrames(t) = 2
      BY <1>3 DEF NewFrames
    <2>2. 2 \in 0 .. Len(stack[t]) /\ stack[t][2] = Below(t) /\ stack[t][1] = Top(t)
      BY <1>1, <1>3, TopFrame, BelowFrame DEF IInv
    <2>3. \A i \in 1 .. 2 : i = 1 \/ i = 2
      OBVIOUS
    <2>4. \A i \in 1 .. 2 : Poppable(stack[t][i])
      BY <1>1, <1>3, <2>2, <2>3 DEF Poppable
    <2>5. PlainStep(t, 2, << >>)
      BY <1>1, <1>3, <2>1, <2>2, <2>4, NoFrame DEF PlainStep
    <2> QED BY <2>5, PlainInv
  <1> QED BY <1>2, <1>3

LEMMA CallNewHandlerInv ==
    ASSUME IInv, NEW t \in Threads, CallNewHandler(t), exitVars' = exitVars
    PROVE  IInv'
  <1> DEFINE f == [f |-> "newHandler"]
             g == [f |-> "new", pc |-> "malloc"]
  <1>1. /\ f \in Frame /\ f.f = "newHandler" /\ ~Loop(f) /\ DueOK(f)
        /\ g \in Frame /\ g.f = "new" /\ ~Loop(g) /\ DueOK(g)
        /\ Top(t).f = "new" /\ Poppable(Top(t))
    BY DEF Frame, Loop, DueOK, CallNewHandler, AtNew, At, Poppable
  <1>2. SetStack(t, 1, << f, g >>) /\ program' = program /\ handlerVars' = handlerVars
    BY DEF CallNewHandler
  <1>3. 1 \in 0 .. Len(stack[t]) /\ 1 .. 1 = {1} /\ stack[t][1] = Top(t)
    BY <1>1, TopFrame DEF IInv
  <1> HIDE DEF f, g
  <1>4. PlainStep(t, 1, << f, g >>)
    <2>1. /\ << f, g >> \in Seq(Frame) /\ Pushable(<< f, g >>)
          /\ \A i \in 1 .. Len(<< f, g >>) : << f, g >>[i] \in {f, g}
      BY <1>1, TwoFrames
    <2> QED BY <1>1, <1>2, <1>3, <2>1 DEF PlainStep
  <1> QED BY <1>4, PlainInv

\* The first frame an exception does not pass.
LEMMA BarrierIs ==
    ASSUME IInv, NEW t \in Threads, Top(t).f = "throw"
    PROVE  \E n \in 1 .. Len(stack[t]) :
              /\ Barrier(t) = stack[t][n].f
              /\ \A j \in 1 .. n - 1 : stack[t][j].f \in Transparent
              /\ stack[t][n].f \notin Transparent
  <1> DEFINE s == stack[t]
             I == {i \in 1 .. Len(s) : s[i].f \notin Transparent}
  <1>1. s \in Seq(Frame) /\ Len(s) \in Nat /\ Len(s) \in 1 .. Len(s) /\ s # << >> /\ StackOK(s)
    BY TopFrame DEF IInv, StackType, StacksOK
  <1>2. DOMAIN s = 1 .. Len(s)
    BY <1>1
  <1>3. Len(s) \in I /\ I \subseteq Nat
    BY <1>1 DEF StackOK, Transparent
  <1>4. PICK n \in I : \A j \in I : n <= j
    <2> HIDE DEF I
    <2> QED BY <1>3, Least
  <1>5. n \in 1 .. Len(s) /\ s[n].f \notin Transparent /\ \A j \in 1 .. n - 1 : s[j].f \in Transparent
    BY <1>1, <1>4
  <1>6. \A i \in 1 .. Len(s) :
          s[i].f \notin Transparent /\ (\A j \in 1 .. i - 1 : s[j].f \in Transparent) => i = n
    BY <1>1, <1>4, <1>5
  <1>7. (CHOOSE i \in DOMAIN s :
            s[i].f \notin Transparent /\ \A j \in 1 .. i - 1 : s[j].f \in Transparent) = n
    <2> HIDE DEF s
    <2> QED BY <1>2, <1>5, <1>6
  <1>8. Barrier(t) = s[n].f
    BY <1>7 DEF Barrier
  <1> QED BY <1>5, <1>8

LEMMA NothrowCatchesInv ==
    ASSUME IInv, NEW t \in Threads, NothrowCatches(t), exitVars' = exitVars
    PROVE  IInv'
  <1> DEFINE s == stack[t]
             P(i) == s[i].f = "nothrow" /\ \A j \in 1 .. i - 1 : s[j].f # "nothrow"
             c == CHOOSE i \in DOMAIN s : P(i)
  <1>1. /\ Top(t).f = "throw" /\ Barrier(t) = "nothrow" /\ SetStack(t, c, << >>)
        /\ program' = program /\ handlerVars' = handlerVars
    BY DEF NothrowCatches, At
  <1>2. s \in Seq(Frame) /\ Len(s) \in Nat
    BY <1>1, TopFrame DEF IInv, StackType
  <1>3. PICK n \in 1 .. Len(s) :
          /\ s[n].f = "nothrow"
          /\ \A j \in 1 .. n - 1 : s[j].f \in Transparent
    BY <1>1, BarrierIs
  <1>4. "nothrow" \notin Transparent
    BY DEF Transparent
  <1>5. \A i \in 1 .. Len(s) : P(i) <=> i = n
    BY <1>2, <1>3, <1>4
  <1>6. DOMAIN s = 1 .. Len(s)
    BY <1>2
  <1>7. c = n
    <2> HIDE DEF P
    <2> QED BY <1>5, <1>6
  <1>8. \A i \in 1 .. n : Poppable(s[i])
    <2>1. \A i \in 1 .. n : i = n \/ i \in 1 .. n - 1
      BY <1>2
    <2>2. "leave" \notin program => "terminateHandler" \notin Transparent /\ "unexpectedHandler" \notin Transparent
      BY DEF Transparent
    <2>3. \A i \in 1 .. n : s[i].f = "nothrow" \/ s[i].f \in Transparent
      BY <1>3, <2>1
    <2> QED BY <2>2, <2>3 DEF Poppable
  <1>9. PlainStep(t, n, << >>)
    <2>1. n \in 0 .. Len(s) /\ Top(t).f # "ended" /\ s[n].f # "main"
      BY <1>1, <1>2, <1>3
    <2> HIDE DEF c
    <2>2. SetStack(t, n, << >>)
      BY <1>1, <1>7
    <2> QED BY <1>1, <1>8, <2>1, <2>2, NoFrame DEF PlainStep
  <1> QED BY <1>9, PlainInv

\* The exception on top of a stack is one that may stay there.
LEMMA ThrowFrame ==
    ASSUME IInv, NEW t \in Threads, Top(t).f = "throw"
    PROVE  /\ Top(t) \in Frame /\ Top(t).f \notin {"main", "newHandler"} /\ ~Loop(Top(t))
           /\ Settled(t) => DueOK(Top(t))
           /\ Top(t) = stack[t][1] /\ Poppable(Top(t))
           /\ Top(t).unexpected \in Handler /\ Top(t).due \in Handler
           /\ Top(t).class \in {"primary", "dependent"}
  <1>1. Top(t) \in Frame /\ 1 \in 1 .. Len(stack[t]) /\ Top(t) = stack[t][1]
    BY TopFrame DEF IInv
  <1>2. ~Loop(Top(t)) /\ Poppable(Top(t))
    BY DEF Loop, Poppable
  <1>3. Settled(t) => DueOK(Top(t))
    BY <1>1 DEF IInv, HandlersInv, SettledOK
  <1>4. /\ Top(t).unexpected \in Handler /\ Top(t).due \in Handler
        /\ Top(t).class \in {"primary", "dependent"}
    BY <1>1 DEF Frame
  <1> QED BY <1>1, <1>2, <1>3, <1>4

LEMMA LeaveNewInv ==
    ASSUME IInv, NEW t \in Threads, LeaveNew(t), exitVars' = exitVars
    PROVE  IInv'
  <1> DEFINE n == IF Below(t).f = "new" THEN 2 ELSE 3
  <1>1. /\ Top(t).f = "throw" /\ Below(t).f \in {"new", "newHandler"}
        /\ SetStack(t, n, << Top(t) >>)
        /\ program' = program /\ handlerVars' = handlerVars
    BY DEF LeaveNew, At
  <1>2. PICK f : f = Top(t)
    OBVIOUS
  <1>3. /\ f \in Frame /\ f.f \notin {"main", "newHandler"} /\ ~Loop(f)
        /\ Settled(t) => DueOK(f)
        /\ f = stack[t][1] /\ Poppable(f)
    BY <1>1, <1>2, ThrowFrame
  <1>4. /\ 2 \in 0 .. Len(stack[t]) /\ 2 \in 1 .. Len(stack[t]) /\ stack[t][2] = Below(t)
        /\ Len(stack[t]) \in Nat
    BY <1>1, BelowFrame DEF IInv
  <1>5. /\ n \in 0 .. Len(stack[t]) /\ n # 0 /\ stack[t][n].f = "new"
        /\ \A i \in 1 .. n : Poppable(stack[t][i])
    <2>1. CASE Below(t).f = "new"
      <3>1. n = 2 /\ \A i \in 1 .. 2 : i = 1 \/ i = 2
        BY <2>1
      <3> QED BY <1>3, <1>4, <2>1, <3>1 DEF Poppable
    <2>2. CASE Below(t).f = "newHandler"
      <3>1. n = 3 /\ \A i \in 1 .. 3 : i = 1 \/ i = 2 \/ i = 3
        BY <2>2
      <3>2. 2 < Len(stack[t]) /\ stack[t][2 + 1].f = "new"
        BY <1>4, <2>2 DEF IInv, StacksOK, StackOK
      <3>3. 3 \in 0 .. Len(stack[t]) /\ 2 + 1 = 3
        BY <1>4, <3>2
      <3> QED BY <1>3, <1>4, <2>2, <3>1, <3>2, <3>3 DEF Poppable
    <2> QED BY <1>1, <2>1, <2>2
  <1> HIDE DEF n
  <1>6. PlainStep(t, n, << f >>)
    <2>1. /\ << f >> \in Seq(Frame) /\ Pushable(<< f >>)
          /\ \A i \in 1 .. Len(<< f >>) : << f >>[i] = f
      BY <1>3, OneFrame
    <2> QED BY <1>1, <1>2, <1>3, <1>5, <2>1 DEF PlainStep
  <1> QED BY <1>6, PlainInv

-----------------------------------------------------------------------------
(***************************************************************************)
(* The terminate and unexpected handlers.                                  *)
(***************************************************************************)
\* thread_info() creates an info and changes none.
LEMMA InfoCreated ==
    ASSUME HandlersType, NEW t \in Threads, NEW new, new = thread_info(t)
    PROVE  /\ new \in [Threads -> [state : {"none", "live", "freed"}, h : [Kinds -> Fns \cup {Null}]]]
           /\ \A u \in Threads :
                 /\ new[u].h = info[u].h
                 /\ new[u].state = IF u = t /\ info[t].state = "none" THEN "live" ELSE info[u].state
  <1> DEFINE S == [state : {"none", "live", "freed"}, h : [Kinds -> Fns \cup {Null}]]
  <1>1. info \in [Threads -> S]
    BY DEF HandlersType
  <1>3. PICK x : x = IF info[t].state = "none" THEN "live" ELSE info[t].state
    OBVIOUS
  <1>4. x \in {"none", "live", "freed"}
    BY <1>1, <1>3
  <1>5. PICK y : y = [info[t] EXCEPT !.state = x]
    OBVIOUS
  <1>6. y \in S /\ y.h = info[t].h /\ y.state = x
    BY <1>1, <1>4, <1>5
  <1>7. new = [info EXCEPT ![t] = y]
    BY <1>3, <1>5 DEF thread_info
  <1> HIDE DEF S
  <1>8. new \in [Threads -> S] /\ \A u \in Threads : new[u] = IF u = t THEN y ELSE info[u]
    BY <1>1, <1>6, <1>7
  <1> QED BY <1>3, <1>6, <1>8 DEF S

\* While threads have no handlers of their own, the process-wide one is in
\* force everywhere; on the only thread that uses them, get_handler finds the
\* one in force.
LEMMA HandlerInForce ==
    ASSUME HandlersInv, NEW t \in Threads, NEW u \in Threads, NEW kind \in Kinds
    PROVE  /\ get_handler(u, kind) \in Handler /\ InForce(t, kind) \in Handler
           /\ Settled(t) /\ (u = t \/ OnlyGlobalHandlers) => get_handler(u, kind) = InForce(t, kind)
  <1>1. HandlersType /\ SettledOK
    BY DEF HandlersInv
  <1>2. get_handler(u, kind) \in Handler /\ InForce(t, kind) \in Handler
    BY <1>1 DEF HandlersType, get_handler, InForce, Handler
  <1>3. Null \notin Fns /\ "unset" \notin Fns
    BY ProgramAssumption
  <1>4. CASE OnlyGlobalHandlers
    <2>1. info[u].h[kind] = Null /\ own[t][kind] = "unset"
      BY <1>1, <1>4 DEF SettledOK, OnlyGlobalHandlers, NoHandlers, NeverSet
    <2> QED BY <1>2, <1>3, <2>1 DEF get_handler, InForce
  <1>5. CASE OnlyUser(t) /\ u = t
    <2>1. info[t].h[kind] = IF own[t][kind] = "unset" THEN Null ELSE own[t][kind]
      BY <1>1, <1>5 DEF SettledOK, HoldsOwn
    <2>2. own[t][kind] \in Fns \cup {Null, "unset"}
      BY <1>1 DEF HandlersType
    <2> QED BY <1>2, <1>3, <1>5, <2>1, <2>2 DEF get_handler, InForce
  <1> QED BY <1>2, <1>4, <1>5 DEF Settled

LEMMA RaiseInv ==
    ASSUME IInv, NEW t \in Threads, Top(t).f # "ended", NEW class \in {"primary", "dependent"},
           Raise(t, class), exitVars' = exitVars
    PROVE  IInv'
  <1> DEFINE f == [f |-> "throw", class |-> class, unexpected |-> get_handler(t, "unexpected"),
                   due |-> InForce(t, "unexpected")]
  <1>i. StackType /\ StacksOK /\ HandlersInv /\ HandlersType
    BY DEF IInv, HandlersInv
  <1>1. /\ SetStack(t, 0, << f >>) /\ info' = thread_info(t)
        /\ program' = program /\ handler' = handler /\ cache' = cache /\ stale' = stale /\ own' = own
    BY DEF Raise
  <1>2. "unexpected" \in Kinds
    BY DEF Kinds
  <1>3. /\ f \in Frame /\ f.f = "throw" /\ ~Loop(f) /\ (Settled(t) => DueOK(f))
    <2>1. /\ get_handler(t, "unexpected") \in Handler /\ InForce(t, "unexpected") \in Handler
          /\ Settled(t) => get_handler(t, "unexpected") = InForce(t, "unexpected")
      BY <1>2, <1>i, HandlerInForce
    <2> QED BY <2>1 DEF Frame, Loop, DueOK
  <1> HIDE DEF f
  <1>4. /\ << f >> \in Seq(Frame) /\ Pushable(<< f >>)
        /\ \A i \in 1 .. Len(<< f >>) : << f >>[i] = f
    BY <1>3, OneFrame
  <1>5. 0 \in 0 .. Len(stack[t]) /\ 1 .. 0 = {} /\ 0 < Len(stack[t])
    BY <1>i, TopFrame
  <1>6. Replaced(t, 0, << f >>)
    BY <1>1, <1>4, <1>5, <1>i, SetStackReplaces
  <1>7. /\ info' \in [Threads -> [state : {"none", "live", "freed"}, h : [Kinds -> Fns \cup {Null}]]]
        /\ \A u \in Threads :
              /\ info'[u].h = info[u].h
              /\ info'[u].state = IF u = t /\ info[t].state = "none" THEN "live" ELSE info[u].state
    BY <1>1, <1>i, InfoCreated
  <1>8. HandlersType'
    BY <1>1, <1>7, <1>i DEF HandlersType
  <1>9. Grows(t)
    BY <1>1, <1>7 DEF Grows
  <1> QED BY <1>3, <1>4, <1>5, <1>6, <1>8, <1>9, GrowInv

LEMMA EnterInv ==
    ASSUME IInv, NEW t \in Threads, Top(t).f # "ended", NEW kind \in Kinds, Enter(t, kind, 0),
           exitVars' = exitVars
    PROVE  IInv'
  <1>i. StackType /\ StacksOK /\ HandlersInv /\ HandlersType /\ InfoOK /\ CachedOK
    BY DEF IInv, HandlersInv
  <1>0. PICK owner : owner = Owner(t, <<"call", kind>>)
    OBVIOUS
  <1> DEFINE f == [f |-> HandlerFrame[kind], ran |-> get_handler(owner, kind), due |-> InForce(t, kind)]
             site == <<"call", kind>>
  <1>1. /\ SetStack(t, 0, << f >>) /\ info' = InfosAfter(t, site)
        /\ cache' = [cache EXCEPT ![site] = owner]
        /\ stale' = (stale \/ info[owner].state = "freed")
        /\ program' = program /\ handler' = handler /\ own' = own
    BY <1>0 DEF Enter
  <1>2. owner \in Threads /\ site \in {"set", "call"} \X Kinds
    BY <1>0, <1>i DEF Owner, HandlersType
  <1>3. HandlerFrame[kind] \in {"terminateHandler", "unexpectedHandler"}
    BY DEF HandlerFrame, Kinds
  <1>4. f \in Frame /\ f.f = HandlerFrame[kind] /\ ~Loop(f) /\ (Settled(t) => DueOK(f))
    <2>1. OnlyUser(t) => owner = t
      BY <1>0, <1>2, <1>i DEF OnlyUser, Owner, HandlersType
    <2>2. /\ get_handler(owner, kind) \in Handler /\ InForce(t, kind) \in Handler
          /\ Settled(t) => get_handler(owner, kind) = InForce(t, kind)
      BY <1>2, <1>i, <2>1, HandlerInForce DEF Settled
    <2> QED BY <1>3, <2>2 DEF Frame, Loop, DueOK
  <1> HIDE DEF f
  <1>5. /\ << f >> \in Seq(Frame) /\ Pushable(<< f >>) /\ Len(<< f >>) = 1
        /\ \A i \in 1 .. Len(<< f >>) : << f >>[i] = f
    BY <1>3, <1>4, OneFrame
  <1>6. 0 \in 0 .. Len(stack[t]) /\ 1 .. 0 = {} /\ 0 < Len(stack[t]) /\ stack[t] # << >>
    BY <1>i, TopFrame
  <1>7. Replaced(t, 0, << f >>)
    BY <1>1, <1>5, <1>6, <1>i, SetStackReplaces
  <1>8. Runs(t, kind)'
    <2>1. 1 \in 1 .. Len(stack'[t]) /\ stack'[t][1] = << f >>[1]
      <3>1. \A i \in 1 .. Len(<< f >>) : i \in 1 .. Len(stack'[t]) /\ stack'[t][i] = << f >>[i]
        <4>1. PICK new : new = << f >>
          OBVIOUS
        <4>2. Replaced(t, 0, new)
          BY <1>7, <4>1
        <4>3. \A i \in 1 .. Len(new) : i \in 1 .. Len(stack'[t]) /\ stack'[t][i] = new[i]
          BY <1>i, <4>2, FramesAfter
        <4> QED BY ONLY <4>1, <4>3
      <3>2. 1 \in 1 .. Len(<< f >>)
        BY ONLY <1>5
      <3> QED BY ONLY <3>1, <3>2
    <2>2. << f >>[1] = f
      BY ONLY <1>5
    <2> QED BY <1>4, <2>1, <2>2 DEF Runs
  <1>9. /\ info' \in [Threads -> [state : {"none", "live", "freed"}, h : [Kinds -> Fns \cup {Null}]]]
        /\ \A u \in Threads :
              /\ info'[u].h = info[u].h
              /\ info'[u].state = IF u = t /\ info[t].state = "none" /\ cache[site] = Null
                                  THEN "live" ELSE info[u].state
    <2>1. CASE cache[site] = Null
      <3>1. info' = thread_info(t)
        BY <1>1, <2>1 DEF InfosAfter
      <3> QED BY <1>i, <2>1, <3>1, InfoCreated
    <2>2. CASE cache[site] # Null
      BY <1>1, <1>i, <2>2 DEF InfosAfter, HandlersType
    <2> QED BY <2>1, <2>2
  <1>10. HandlersType'
    BY <1>1, <1>2, <1>9, <1>i DEF HandlersType
  <1>11. Grows(t)
    <2>1. info[t].state # "freed"
      BY <1>6, <1>i DEF InfoOK
    <2>2. ASSUME OnlyGlobalHandlers, "leave" \notin program
          PROVE  /\ stale' => stale
                 /\ \A k \in Kinds, u \in Threads :
                       cache'[<<"call", k>>] = u =>
                           \/ cache[<<"call", k>>] = u
                           \/ info'[u].state = "live" /\ Runs(u, k)'
      <3>1. info[owner].state # "freed"
        <4>1. CASE cache[site] = Null
          BY <1>0, <2>1, <4>1 DEF Owner
        <4>2. CASE cache[site] # Null
          <5>1. cache[site] = owner
            BY <1>0, <4>2 DEF Owner
          <5>2. info[owner].state = "live"
            BY <1>2, <1>i, <2>2, <5>1 DEF CachedOK
          <5> QED BY <5>2
        <4> QED BY <4>1, <4>2
      <3>2. ASSUME NEW k \in Kinds, NEW u \in Threads, cache'[<<"call", k>>] = u
            PROVE  cache[<<"call", k>>] = u \/ (info'[u].state = "live" /\ Runs(u, k)')
        <4>1. CASE k # kind
          <5>1. <<"call", k>> # site /\ <<"call", k>> \in {"set", "call"} \X Kinds
            BY <4>1
          <5>2. cache'[<<"call", k>>] = cache[<<"call", k>>]
            BY <1>1, <1>i, <5>1 DEF HandlersType
          <5> QED BY <3>2, <5>2
        <4>2. CASE k = kind
          <5>1. u = owner
            BY <1>1, <1>2, <1>i, <3>2, <4>2 DEF HandlersType
          <5>2. CASE cache[site] # Null
            BY <1>0, <4>2, <5>1, <5>2 DEF Owner
          <5>3. CASE cache[site] = Null
            <6>1. u = t
              BY <1>0, <5>1, <5>3 DEF Owner
            <6>2. info'[t].state = "live"
              BY <1>9, <1>i, <2>1, <5>3 DEF HandlersType
            <6> QED BY <1>8, <4>2, <6>1, <6>2
          <5> QED BY <5>2, <5>3
        <4> QED BY <4>1, <4>2
      <3> QED BY <1>1, <3>1, <3>2
    <2>3. \A s \in {"set", "call"} \X Kinds : cache[s] # Null => cache'[s] = cache[s]
      BY <1>0, <1>1, <1>2, <1>i DEF HandlersType, Owner
    <2> QED BY <1>1, <1>9, <2>2, <2>3 DEF Grows
  <1> QED BY <1>4, <1>5, <1>6, <1>7, <1>10, <1>11, GrowInv

\* A step that changes handlers but no stack.
LEMMA StillInv ==
    ASSUME IInv, NEW t \in Threads, Top(t).f # "ended", stack' = stack, HandlersType', Grows(t),
           exitVars' = exitVars
    PROVE  IInv'
  <1>i. StackType
    BY DEF IInv
  <1>1. Replaced(t, 0, << >>) /\ 1 .. 0 = {}
    BY <1>i, SameStack
  <1>2. 0 < Len(stack[t])
    BY <1>i, TopFrame
  <1> QED BY <1>1, <1>2, NoFrame, GrowInv

LEMMA GetHandlerInv ==
    ASSUME IInv, NEW t \in Threads, GetHandler(t), exitVars' = exitVars
    PROVE  IInv'
  <1>i. HandlersType
    BY DEF IInv, HandlersInv
  <1>1. /\ info' = thread_info(t) /\ stack' = stack /\ program' = program
        /\ handler' = handler /\ cache' = cache /\ stale' = stale /\ own' = own
        /\ Top(t).f # "ended"
    BY Running DEF GetHandler, Calls
  <1>2. /\ info' \in [Threads -> [state : {"none", "live", "freed"}, h : [Kinds -> Fns \cup {Null}]]]
        /\ \A u \in Threads :
              /\ info'[u].h = info[u].h
              /\ info'[u].state = IF u = t /\ info[t].state = "none" THEN "live" ELSE info[u].state
    BY <1>1, <1>i, InfoCreated
  <1>3. HandlersType'
    BY <1>1, <1>2, <1>i DEF HandlersType
  <1>4. Grows(t)
    BY <1>1, <1>2 DEF Grows
  <1> QED BY <1>1, <1>3, <1>4, StillInv

LEMMA SetHandlerInv ==
    ASSUME IInv, NEW t \in Threads, NEW kind \in Kinds, NEW fn \in Fns \cup {Null},
           SetHandler(t, kind, fn), exitVars' = exitVars
    PROVE  IInv'
  <1>i. StackType /\ StacksOK /\ HandlersInv /\ HandlersType /\ InfoOK /\ ExitInv
    BY DEF IInv, HandlersInv
  <1>0. stack' = stack /\ program' = program /\ Top(t).f # "ended"
    BY Running DEF SetHandler, Calls
  <1>1. CASE ~thread_local_handlers
    <2>1. /\ handler' = [handler EXCEPT ![kind] = fn]
          /\ info' = info /\ cache' = cache /\ stale' = stale /\ own' = own
      BY <1>1 DEF SetHandler
    <2>2. HandlersType'
      BY <1>i, <2>1 DEF HandlersType, Handler
    <2>3. Grows(t)
      BY <1>0, <2>1 DEF Grows
    <2> QED BY <1>0, <2>2, <2>3, StillInv
  <1>2. CASE thread_local_handlers
    <2>1. PICK owner : owner = Owner(t, <<"set", kind>>)
      OBVIOUS
    <2> DEFINE site == <<"set", kind>>
               S == [state : {"none", "live", "freed"}, h : [Kinds -> Fns \cup {Null}]]
    <2>2. /\ info' = [InfosAfter(t, site) EXCEPT ![owner].h[kind] = fn]
          /\ cache' = [cache EXCEPT ![site] = owner]
          /\ stale' = (stale \/ info[owner].state = "freed")
          /\ own' = [own EXCEPT ![t][kind] = fn]
          /\ handler' = handler
      BY <1>2, <2>1 DEF SetHandler, SetThreadLocal
    <2>3. owner \in Threads /\ site \in {"set", "call"} \X Kinds
      BY <1>i, <2>1 DEF Owner, HandlersType
    <2>4. PICK new : new = InfosAfter(t, site)
      OBVIOUS
    <2>5. /\ new \in [Threads -> S]
          /\ \A u \in Threads : new[u].h = info[u].h
          /\ \A u \in Threads : new[u].state = "freed" => info[u].state = "freed"
      <3>1. CASE cache[site] = Null
        <4>1. new = thread_info(t)
          BY <2>4, <3>1 DEF InfosAfter
        <4> QED BY <1>i, <4>1, InfoCreated
      <3>2. CASE cache[site] # Null
        BY <1>i, <2>4, <3>2 DEF InfosAfter, HandlersType
      <3> QED BY <3>1, <3>2
    <2>6. PICK y : y = [new[owner] EXCEPT !.h[kind] = fn]
      OBVIOUS
    <2>7. /\ y \in S /\ y.state = new[owner].state
          /\ \A k \in Kinds : y.h[k] = IF k = kind THEN fn ELSE info[owner].h[k]
      BY <2>3, <2>5, <2>6
    <2>8. info' = [new EXCEPT ![owner] = y]
      BY <2>2, <2>4, <2>6
    <2>9. /\ info' \in [Threads -> S] /\ info'[owner] = y
          /\ \A u \in Threads : info'[u].state = new[u].state
      <3> HIDE DEF S
      <3> QED BY <2>3, <2>5, <2>7, <2>8
    <2>10. HandlersType'
      <3>1. own' \in [Threads -> [Kinds -> Fns \cup {Null, "unset"}]]
        BY <1>i, <2>2 DEF HandlersType
      <3>2. cache' \in [{"set", "call"} \X Kinds -> Threads \cup {Null}]
        BY <1>i, <2>2, <2>3 DEF HandlersType
      <3>3. stale' \in BOOLEAN
        BY <2>2
      <3> QED BY <1>i, <2>2, <2>9, <3>1, <3>2, <3>3 DEF HandlersType
    <2>11. own'[t] # NeverSet /\ own'[t] # NeverSet' /\ ~OnlyGlobalHandlers'
      <3>1. own'[t][kind] = fn
        BY <1>i, <2>2 DEF HandlersType
      <3>2. own'[t] # NeverSet /\ own'[t] # NeverSet'
        BY <3>1, ProgramAssumption DEF NeverSet
      <3> QED BY <3>2 DEF OnlyGlobalHandlers
    <2>12. SettledOK' /\ CachedOK'
      <3>1. SettledOK
        BY <1>i DEF HandlersInv
      <3>2. ASSUME NEW u \in Threads, OnlyUser(u)'
            PROVE  u = t /\ OnlyUser(t) /\ owner = t
        <4>1. u = t
          BY <2>11, <3>2 DEF OnlyUser
        <4>2. DOMAIN cache = {"set", "call"} \X Kinds /\ DOMAIN cache' = {"set", "call"} \X Kinds
          BY <1>i, <2>10 DEF HandlersType
        <4>3. \A s \in {"set", "call"} \X Kinds : cache'[s] \in {Null, t}
          BY <3>2, <4>1, <4>2 DEF OnlyUser
        <4>4. \A s \in {"set", "call"} \X Kinds : cache[s] # Null => cache'[s] = cache[s]
          BY <1>i, <2>1, <2>2, <2>3 DEF HandlersType, Owner
        <4>5. \A s \in {"set", "call"} \X Kinds : cache[s] \in {Null, t}
          BY <4>3, <4>4
        <4>6. \A v \in Threads \ {t} : own[v] = NeverSet
          <5>1. \A v \in Threads \ {t} : own'[v] = NeverSet
            BY <3>2, <4>1 DEF OnlyUser, NeverSet
          <5> QED BY <1>i, <2>2, <5>1 DEF HandlersType
        <4>7. owner = t
          BY <2>1, <2>3, <4>5 DEF Owner
        <4> QED BY <4>1, <4>2, <4>5, <4>6, <4>7 DEF OnlyUser
      <3>3. ASSUME NEW u \in Threads, OnlyUser(u)' PROVE HoldsOwn(u)'
        <4>1. u = t /\ HoldsOwn(t) /\ owner = t
          BY <3>1, <3>2, <3>3 DEF SettledOK
        <4>2. \A k \in Kinds : info'[t].h[k] = IF k = kind THEN fn ELSE info[t].h[k]
          BY <2>7, <2>9, <4>1
        <4>3. \A k \in Kinds : own'[t][k] = IF k = kind THEN fn ELSE own[t][k]
          BY <1>i, <2>2 DEF HandlersType
        <4>4. fn # "unset"
          BY ProgramAssumption
        <4>5. \A k \in Kinds : info[t].h[k] = IF own[t][k] = "unset" THEN Null ELSE own[t][k]
          BY <4>1 DEF HoldsOwn
        <4>6. \A k \in Kinds : info'[t].h[k] = IF own'[t][k] = "unset" THEN Null ELSE own'[t][k]
          BY <4>2, <4>3, <4>4, <4>5
        <4> QED BY <4>1, <4>6 DEF HoldsOwn
      <3>4. ASSUME NEW u \in Threads, Settled(u)', NEW i \in 1 .. Len(stack'[u])
            PROVE  DueOK(stack'[u][i])
        <4>1. Settled(u)
          BY <2>11, <3>2, <3>4 DEF Settled
        <4> QED BY <1>0, <3>1, <3>4, <4>1 DEF SettledOK
      <3> QED BY <2>11, <3>3, <3>4 DEF SettledOK, CachedOK, DueOK
    <2>13. InfoOK'
      BY <1>0, <1>i, <2>5, <2>9 DEF InfoOK
    <2>14. HandlersInv'
      BY <2>10, <2>12, <2>13 DEF HandlersInv
    <2>15. StackType' /\ StacksOK'
      BY <1>0, <1>i DEF StackType, StacksOK, StackOK
    <2>16. ExitInv'
      BY <1>0, <1>i, ExitStill
    <2> QED BY <2>14, <2>15, <2>16 DEF IInv
  <1> QED BY <1>1, <1>2

LEMMA LeaveUnexpectedInv ==
    ASSUME IInv, NEW t \in Threads, LeaveUnexpected(t), exitVars' = exitVars
    PROVE  IInv'
  <1> DEFINE n == IF stack[t][3].f = "throw" THEN 3 ELSE 2
  <1>1. /\ Top(t).f = "throw" /\ Below(t).f = "unexpectedHandler" /\ "leave" \in program
        /\ SetStack(t, n, << Top(t) >>)
        /\ program' = program /\ handlerVars' = handlerVars
    BY DEF LeaveUnexpected, At
  <1>2. PICK f : f = Top(t)
    OBVIOUS
  <1>3. /\ f \in Frame /\ f.f \notin {"main", "newHandler"} /\ ~Loop(f)
        /\ Settled(t) => DueOK(f)
    BY <1>1, <1>2, ThrowFrame
  <1>4. /\ 2 \in 0 .. Len(stack[t]) /\ 2 \in 1 .. Len(stack[t]) /\ stack[t][2] = Below(t)
        /\ Len(stack[t]) \in Nat
    BY <1>1, BelowFrame DEF IInv
  <1>5. 2 < Len(stack[t])
    BY <1>1, <1>4, NotTheLast DEF IInv
  <1>6. n \in 0 .. Len(stack[t]) /\ n # 0 /\ stack[t][n].f # "main"
    BY <1>1, <1>4, <1>5
  <1> HIDE DEF n
  <1>7. PlainStep(t, n, << f >>)
    <2>1. /\ << f >> \in Seq(Frame) /\ Pushable(<< f >>)
          /\ \A i \in 1 .. Len(<< f >>) : << f >>[i] = f
      BY <1>3, OneFrame
    <2> QED BY <1>1, <1>2, <1>3, <1>6, <2>1 DEF PlainStep, Poppable
  <1> QED BY <1>7, PlainInv

LEMMA CallUnexpectedInv ==
    ASSUME IInv, NEW t \in Threads, CallUnexpected(t), exitVars' = exitVars
    PROVE  IInv'
  <1>0. Top(t).f = "throw" /\ "unexpected" \in Kinds
    BY DEF CallUnexpected, At, Kinds
  <1>1. CASE Enter(t, "unexpected", 0)
    BY <1>0, <1>1, EnterInv
  <1> DEFINE f == [f |-> "unexpectedHandler", ran |-> Top(t).unexpected, due |-> Top(t).due]
  <1>2. CASE SetStack(t, 0, << f >>) /\ program' = program /\ handlerVars' = handlerVars
    <2>1. /\ Settled(t) => DueOK(Top(t))
          /\ Top(t).unexpected \in Handler /\ Top(t).due \in Handler
      BY <1>0, ThrowFrame
    <2>2. /\ f \in Frame /\ f.f \notin {"main", "newHandler"} /\ ~Loop(f)
          /\ Settled(t) => DueOK(f)
      BY <1>0, <2>1 DEF Frame, Loop, DueOK
    <2> HIDE DEF f
    <2> QED BY <1>0, <1>2, <2>2, PushInv
  <1> QED BY <1>1, <1>2 DEF CallUnexpected

\* thread_cleanup: a thread that ends has only "main" left, so that no handler
\* runs on it.
LEMMA ThreadExitInv ==
    ASSUME IInv, NEW t \in Threads, ThreadExit(t), exitVars' = exitVars
    PROVE  IInv'
  <1>i. /\ StackType /\ StacksOK /\ HandlersType /\ InfoOK /\ SettledOK /\ CachedOK
        /\ ExitType /\ ListOK /\ LoopsOK /\ ExitHandlersOnceInReverse
    BY DEF IInv, HandlersInv, ExitInv
  <1>1. /\ Len(stack[t]) = 1 /\ stack' = [stack EXCEPT ![t] = << >>]
        /\ info' = [info EXCEPT ![t].state = IF @ = "live" THEN "freed" ELSE @]
        /\ program' = program /\ handler' = handler /\ cache' = cache /\ stale' = stale /\ own' = own
    BY DEF ThreadExit
  <1>2. stack'[t] = << >> /\ \A u \in Threads : u # t => stack'[u] = stack[u]
    BY <1>1, <1>i DEF StackType
  <1>3. StackType' /\ Len(<< >>) = 0 /\ 1 .. 0 = {}
    BY <1>1, <1>i DEF StackType
  <1>4. StacksOK'
    <2>1. StackOK(<< >>)
      BY <1>3 DEF StackOK
    <2> QED BY <1>2, <1>i, <2>1 DEF StacksOK, StackOK
  <1> DEFINE S == [state : {"none", "live", "freed"}, h : [Kinds -> Fns \cup {Null}]]
  <1>5. PICK y : y = [info[t] EXCEPT !.state = IF info[t].state = "live" THEN "freed" ELSE info[t].state]
    OBVIOUS
  <1>6. y \in S /\ y.h = info[t].h
    BY <1>5, <1>i DEF HandlersType
  <1>7. info' = [info EXCEPT ![t] = y]
    BY <1>1, <1>5
  <1>8. info' \in [Threads -> S] /\ info'[t] = y /\ \A u \in Threads : u # t => info'[u] = info[u]
    BY <1>6, <1>7, <1>i DEF HandlersType
  <1>9. HandlersType' /\ InfoOK'
    BY <1>1, <1>2, <1>8, <1>i DEF HandlersType, InfoOK
  <1>10. /\ OnlyGlobalHandlers' <=> OnlyGlobalHandlers
         /\ \A u \in Threads : OnlyUser(u)' => OnlyUser(u)
         /\ \A u \in Threads : Settled(u)' => Settled(u)
    BY <1>1, <1>9, <1>i, StillSettled
  <1>11. SettledOK'
    <2>1. \A u \in Threads : info'[u].h = info[u].h
      BY <1>6, <1>8
    <2>2. OnlyGlobalHandlers' => \A u \in Threads : info'[u].h = NoHandlers'
      BY <1>10, <1>i, <2>1 DEF SettledOK, NoHandlers
    <2>3. \A u \in Threads : OnlyUser(u)' => HoldsOwn(u)'
      BY <1>1, <1>10, <1>i, <2>1 DEF SettledOK, HoldsOwn
    <2>4. ASSUME NEW u \in Threads, Settled(u)', NEW i \in 1 .. Len(stack'[u])
          PROVE  DueOK(stack'[u][i])
      <3>1. Settled(u) /\ u # t
        BY <1>2, <1>3, <1>10, <2>4
      <3> QED BY <1>2, <1>i, <2>4, <3>1 DEF SettledOK
    <2> QED BY <2>2, <2>3, <2>4 DEF SettledOK, DueOK
  <1>12. CachedOK'
    <2> SUFFICES ASSUME OnlyGlobalHandlers, "leave" \notin program
                 PROVE  /\ ~stale'
                        /\ \A k \in Kinds, u \in Threads :
                              cache'[<<"call", k>>] = u => info'[u].state = "live" /\ Runs(u, k)'
      BY <1>1, <1>10 DEF CachedOK
    <2>1. ~stale'
      BY <1>1, <1>i DEF CachedOK
    <2>2. ASSUME NEW k \in Kinds, NEW u \in Threads, cache'[<<"call", k>>] = u
          PROVE  info'[u].state = "live" /\ Runs(u, k)'
      <3>1. info[u].state = "live" /\ Runs(u, k)
        BY <1>1, <1>i, <2>2 DEF CachedOK
      <3>2. u # t
        <4> SUFFICES ASSUME u = t PROVE FALSE
          OBVIOUS
        <4>1. PICK i \in 1 .. 1 : stack[t][i].f = HandlerFrame[k]
          BY <1>1, <3>1 DEF Runs
        <4>2. stack[t][1].f = "main"
          BY <1>1, <1>3, <1>i DEF StacksOK, StackOK
        <4>3. HandlerFrame[k] # "main"
          BY DEF HandlerFrame, Kinds
        <4> QED BY <4>1, <4>2, <4>3
      <3> QED BY <1>2, <1>8, <3>1, <3>2 DEF Runs
    <2> QED BY <2>1, <2>2
  <1>13. LoopsOK'
    <2>0. head' = head /\ lock' = lock
      BY DEF exitVars
    <2>1. \A f : LoopOK(f) => LoopOK(f)'
      BY <2>0 DEF LoopOK
    <2>2. ASSUME NEW u \in Threads, NEW i \in 1 .. Len(stack'[u])
          PROVE  u # t /\ i \in 1 .. Len(stack[u]) /\ stack'[u][i] = stack[u][i]
      BY <1>2, <1>3
    <2>3. \A u \in Threads : \A i \in 1 .. Len(stack'[u]) :
             Loop(stack'[u][i]) => lock' = u /\ LoopOK(stack[u][i])'
      <3> SUFFICES ASSUME NEW u \in Threads, NEW i \in 1 .. Len(stack'[u]), Loop(stack'[u][i])
                   PROVE  lock' = u /\ LoopOK(stack[u][i])'
        OBVIOUS
      <3>1. PICK f : f = stack[u][i]
        OBVIOUS
      <3>2. lock = u /\ LoopOK(f)
        BY <1>i, <2>2, <3>1 DEF LoopsOK
      <3>3. LoopOK(f)' /\ f = stack'[u][i]
        BY <2>1, <2>2, <3>1, <3>2
      <3> QED BY <2>0, <3>2, <3>3 DEF LoopOK
    <2>4. \A u \in Threads : \A i, j \in 1 .. Len(stack'[u]) :
             Loop(stack'[u][i]) /\ Loop(stack'[u][j]) => i = j
      BY <1>i, <2>2 DEF LoopsOK
    <2> QED BY <2>3, <2>4 DEF LoopsOK, Loop
  <1>14. ExitType' /\ ListOK' /\ ExitHandlersOnceInReverse'
    BY <1>i, ListKept
  <1> QED BY <1>3, <1>4, <1>9, <1>11, <1>12, <1>13, <1>14 DEF IInv, HandlersInv, ExitInv

LEMMA HandlerCallsInv ==
    ASSUME IInv, NEW t \in Threads, HandlerCalls(t), exitVars' = exitVars
    PROVE  IInv'
  <1>0. "terminate" \in Kinds /\ "unexpected" \in Kinds
    BY DEF Kinds
  <1>1. CASE GetHandler(t)
    BY <1>1, GetHandlerInv
  <1>2. CASE \E flag \in BOOLEAN : UseThreadLocalHandlers(t, flag)
    <2>1. /\ Top(t).f # "ended" /\ stack' = stack /\ program' = program
          /\ handler' = handler /\ info' = info /\ cache' = cache /\ stale' = stale /\ own' = own
      BY <1>2, Running DEF UseThreadLocalHandlers, Calls
    <2>2. HandlersType' /\ Grows(t)
      BY <2>1 DEF IInv, HandlersInv, HandlersType, Grows
    <2> QED BY <2>1, <2>2, StillInv
  <1>3. CASE \/ \E kind \in Kinds, fn \in Fns : SetHandler(t, kind, fn)
             \/ \E kind \in Kinds : "setNull" \in program /\ SetHandler(t, kind, Null)
    BY <1>3, SetHandlerInv
  <1>4. CASE Terminate(t)
    BY <1>0, <1>4, Running, EnterInv DEF Terminate, Calls
  <1>5. CASE Unexpected(t)
    BY <1>0, <1>5, Running, EnterInv DEF Unexpected, Calls
  <1>6. CASE Throw(t)
    BY <1>6, Running, RaiseInv DEF Throw, Calls
  <1>7. CASE RethrowPtr(t)
    BY <1>7, Running, RaiseInv DEF RethrowPtr, Calls
  <1>8. CASE ThreadExit(t)
    BY <1>8, ThreadExitInv
  <1> QED BY <1>1, <1>2, <1>3, <1>4, <1>5, <1>6, <1>7, <1>8 DEF HandlerCalls

LEMMA HandlerStepsInv ==
    ASSUME IInv, NEW t \in Threads, HandlerSteps(t), exitVars' = exitVars
    PROVE  IInv'
  <1>0. "terminate" \in Kinds
    BY DEF Kinds
  <1>1. CASE DefaultUnexpected(t)
    BY <1>0, <1>1, EnterInv DEF DefaultUnexpected, At
  <1>2. CASE HandlerReturns(t)
    BY <1>2, UnchangedInv DEF HandlerReturns
  <1>3. CASE Catch(t)
    BY <1>3, ThrowFrame, PopInv DEF Catch, At
  <1>4. CASE LeaveUnexpected(t)
    BY <1>4, LeaveUnexpectedInv
  <1>5. CASE Uncaught(t)
    BY <1>0, <1>5, EnterInv DEF Uncaught, At
  <1>6. CASE CallUnexpected(t)
    BY <1>6, CallUnexpectedInv
  <1> QED BY <1>1, <1>2, <1>3, <1>4, <1>5, <1>6 DEF HandlerSteps

LEMMA NewStepsInv ==
    ASSUME IInv, NEW t \in Threads, NewSteps(t), exitVars' = exitVars
    PROVE  IInv'
  <1>1. CASE MallocSucceeds(t)
    BY <1>1, MallocSucceedsInv
  <1>2. CASE MallocFails(t)
    BY <1>2, LoopOfNewInv DEF MallocFails, AtNew
  <1>3. CASE LoadHandler(t)
    BY <1>3, LoopOfNewInv DEF LoadHandler, AtNew
  <1>4. CASE BadAlloc(t)
    BY <1>4, RaiseInv DEF BadAlloc, AtNew, At
  <1>5. CASE CallNewHandler(t)
    BY <1>5, CallNewHandlerInv
  <1>6. CASE NewHandlerReturns(t)
    BY <1>6, PopInv DEF NewHandlerReturns, At, Poppable
  <1>7. CASE NothrowCatches(t)
    BY <1>7, NothrowCatchesInv
  <1>8. CASE LeaveNew(t)
    BY <1>8, LeaveNewInv
  <1> QED BY <1>1, <1>2, <1>3, <1>4, <1>5, <1>6, <1>7, <1>8 DEF NewSteps

-----------------------------------------------------------------------------
(***************************************************************************)
(* Exit handlers.                                                          *)
(***************************************************************************)
\* What FinalizeLocks, SkipHandler and RunExitHandler know of the list: its
\* rest from position k + 1 on, and the list without that position.
LEMMA RestOfList ==
    ASSUME NEW S, NEW s \in Seq(S), NEW k \in 0 .. Len(s), NEW rest, rest = SubSeq(s, k + 1, Len(s))
    PROVE  /\ rest \in Seq(S) /\ Len(rest) = Len(s) - k /\ (rest # << >> <=> k < Len(s))
           /\ \A i \in 1 .. Len(s) - k : rest[i] = s[k + i]
  <1>1. Len(s) \in Nat /\ k \in Nat /\ k <= Len(s) /\ k + 1 \in Int /\ Len(s) \in Int
    OBVIOUS
  <1>2. \A i \in k + 1 .. Len(s) : s[i] \in S
    BY <1>1
  <1>3. /\ rest \in Seq(S)
        /\ Len(rest) = IF k + 1 <= Len(s) THEN Len(s) - (k + 1) + 1 ELSE 0
        /\ \A i \in 1 .. Len(s) - (k + 1) + 1 : rest[i] = s[k + 1 + i - 1]
    BY <1>1, <1>2, SubSeqProperties
  <1>4. Len(rest) = Len(s) - k
    BY <1>1, <1>3
  <1>5. rest # << >> <=> k < Len(s)
    <2>1. rest = << >> <=> Len(rest) = 0
      BY <1>3, EmptySeq
    <2>2. Len(rest) = 0 <=> ~(k < Len(s))
      BY ONLY <1>1, <1>4
    <2> QED BY ONLY <2>1, <2>2
  <1>6. ASSUME NEW i \in 1 .. Len(s) - k PROVE rest[i] = s[k + i]
    <2>1. i \in 1 .. Len(s) - (k + 1) + 1 /\ k + 1 + i - 1 = k + i
      BY <1>1
    <2>2. rest[i] = s[k + 1 + i - 1]
      BY <1>3, <2>1
    <2> QED BY <2>1, <2>2
  <1> QED BY <1>3, <1>4, <1>5, <1>6

LEMMA NextOfRest ==
    ASSUME NEW S, NEW s \in Seq(S), NEW k \in 0 .. Len(s), k < Len(s),
           NEW rest, rest = SubSeq(s, k + 1, Len(s))
    PROVE  /\ Head(rest) = s[k + 1] /\ Tail(rest) = SubSeq(s, k + 1 + 1, Len(s))
           /\ k + 1 \in 0 .. Len(s) /\ k + 1 \in 1 .. Len(s)
  <1>1. k + 1 \in 1 .. Len(s) /\ Len(s) \in k + 1 .. Len(s) /\ k + 1 \in 0 .. Len(s)
    OBVIOUS
  <1> QED BY <1>1, HeadTailOfSubSeq

Unlinks(s, k, rest, r) ==
    /\ k \in 0 .. Len(s) /\ k < Len(s)
    /\ rest = SubSeq(s, k + 1, Len(s))
    /\ r = SubSeq(s, 1, Len(s) - Len(rest)) \o Tail(rest)

LEMMA Unlinked ==
    ASSUME NEW S, NEW s \in Seq(S), NEW k, NEW rest, NEW r, Unlinks(s, k, rest, r)
    PROVE  /\ r \in Seq(S) /\ Len(r) = Len(s) - 1 /\ k \in 0 .. Len(r)
           /\ \A j \in 1 .. k : r[j] = s[j]
           /\ \A j \in k + 1 .. Len(r) : r[j] = s[j + 1]
           /\ Tail(rest) = SubSeq(r, k + 1, Len(r))
  <1>0. /\ Len(s) \in Nat /\ k \in Nat /\ k + 1 \in 0 .. Len(s) /\ k + 1 <= Len(s)
        /\ k \in 0 .. Len(s) /\ k < Len(s)
    BY DEF Unlinks
  <1>1. rest = SubSeq(s, k + 1, Len(s))
    BY DEF Unlinks
  <1>2. Len(rest) = Len(s) - k
    BY <1>0, <1>1, RestOfList
  <1>3. PICK m, tail : m = k + 1 /\ tail = Tail(rest)
    OBVIOUS
  <1>4. /\ tail \in Seq(S) /\ Len(tail) = Len(s) - (k + 1)
        /\ \A i \in 1 .. Len(s) - (k + 1) : tail[i] = s[k + 1 + i]
    <2>1. tail = SubSeq(s, m + 1, Len(s))
      BY <1>0, <1>1, <1>3, NextOfRest
    <2>2. m \in 0 .. Len(s)
      BY <1>0, <1>3
    <2>3. /\ tail \in Seq(S) /\ Len(tail) = Len(s) - m
          /\ \A i \in 1 .. Len(s) - m : tail[i] = s[m + i]
      BY <2>1, <2>2, RestOfList
    <2> QED BY <1>3, <2>3
  <1>5. PICK front : front = SubSeq(s, 1, k)
    OBVIOUS
  <1>6. front \in Seq(S) /\ Len(front) = k /\ \A i \in 1 .. k : front[i] = s[i]
    <2>1. \A i \in 1 .. k : s[i] \in S
      BY <1>0
    <2>2. /\ front \in Seq(S) /\ Len(front) = IF 1 <= k THEN k - 1 + 1 ELSE 0
          /\ \A i \in 1 .. k - 1 + 1 : front[i] = s[1 + i - 1]
      BY <1>0, <1>5, <2>1, SubSeqProperties
    <2> QED BY <1>0, <2>2
  <1>7. r = front \o tail
    <2>1. Len(s) - Len(rest) = k
      BY <1>0, <1>2
    <2>2. r = SubSeq(s, 1, Len(s) - Len(rest)) \o Tail(rest)
      BY DEF Unlinks
    <2> QED BY <1>3, <1>5, <2>1, <2>2
  <1>8. /\ r \in Seq(S) /\ Len(r) = Len(front) + Len(tail)
        /\ \A i \in 1 .. Len(front) + Len(tail) :
              r[i] = IF i <= Len(front) THEN front[i] ELSE tail[i - Len(front)]
    <2>1. front \in Seq(S) /\ tail \in Seq(S)
      BY <1>4, <1>6
    <2>2. /\ front \o tail \in Seq(S) /\ Len(front \o tail) = Len(front) + Len(tail)
          /\ \A i \in 1 .. Len(front) + Len(tail) :
                (front \o tail)[i] = IF i <= Len(front) THEN front[i] ELSE tail[i - Len(front)]
      BY ONLY <2>1, ConcatProperties
    <2> QED BY ONLY <1>7, <2>2
  <1>9. Len(r) = Len(s) - 1 /\ k \in 0 .. Len(r) /\ Len(front) = k /\ Len(tail) = Len(s) - (k + 1)
    <2>1. Len(r) = Len(front) + Len(tail) /\ Len(front) = k /\ Len(tail) = Len(s) - (k + 1)
      BY <1>4, <1>6, <1>8
    <2>2. k + (Len(s) - (k + 1)) = Len(s) - 1 /\ k \in 0 .. Len(s) - 1
      BY ONLY <1>0
    <2> QED BY ONLY <2>1, <2>2
  <1>10. ASSUME NEW j \in 1 .. k PROVE r[j] = s[j]
    <2>1. j \in 1 .. Len(front) + Len(tail) /\ j <= Len(front)
      BY ONLY <1>0, <1>9, j \in 1 .. k
    <2> QED BY <1>6, <1>8, <2>1
  <1>11. ASSUME NEW j \in k + 1 .. Len(r) PROVE r[j] = s[j + 1]
    <2>1. PICK i : i = j - k
      OBVIOUS
    <2>2. i \in 1 .. Len(s) - (k + 1) /\ j \in 1 .. Len(front) + Len(tail) /\ ~(j <= Len(front))
          /\ i = j - Len(front) /\ k + 1 + i = j + 1
      BY ONLY <1>0, <1>9, <2>1, j \in k + 1 .. Len(r)
    <2>3. r[j] = tail[i]
      BY <1>8, <2>2
    <2> QED BY <1>4, <2>2, <2>3
  <1>12. tail = SubSeq(r, k + 1, Len(r))
    <2>1. PICK q : q = SubSeq(r, k + 1, Len(r))
      OBVIOUS
    <2>2. /\ q \in Seq(S) /\ Len(q) = Len(r) - k
          /\ \A i \in 1 .. Len(r) - k : q[i] = r[k + i]
      <3>1. r \in Seq(S) /\ k \in 0 .. Len(r)
        BY <1>8, <1>9
      <3> QED BY ONLY <2>1, <3>1, RestOfList
    <2>3. Len(q) = Len(tail) /\ Len(q) = Len(r) - k
      <3>1. Len(q) = Len(r) - k
        BY <2>2
      <3> QED BY ONLY <1>0, <1>9, <3>1
    <2>4. ASSUME NEW i \in 1 .. Len(q) PROVE q[i] = tail[i]
      <3>1. PICK j : j = k + i
        OBVIOUS
      <3>2. j \in k + 1 .. Len(r) /\ i \in 1 .. Len(r) - k /\ i \in 1 .. Len(s) - (k + 1)
            /\ k + 1 + i = j + 1
        BY ONLY <1>0, <1>9, <2>3, <3>1, i \in 1 .. Len(q)
      <3>3. q[i] = r[j] /\ r[j] = s[j + 1] /\ tail[i] = s[j + 1]
        BY <1>4, <1>11, <2>2, <3>1, <3>2
      <3> QED BY <3>3
    <2>5. q = tail
      BY <1>4, <2>2, <2>3, <2>4, SeqEqual
    <2> QED BY <2>1, <2>5
  <1> QED BY <1>3, <1>8, <1>9, <1>10, <1>11, <1>12

\* A step of __cxa_atexit or __cxa_finalize, which ends or replaces its frame.
ExitStep(t, new) ==
    /\ Top(t).f \in {"atexit", "finalize"} /\ SetStack(t, 1, new)
    /\ new \in Seq(Frame) /\ Pushable(new) /\ \A i \in 1 .. Len(new) : DueOK(new[i])
    /\ program' = program /\ handlerVars' = handlerVars

LEMMA ExitStepStacks ==
    ASSUME IInv, NEW t \in Threads, NEW new, ExitStep(t, new)
    PROVE  /\ Replaced(t, 1, new) /\ StackType' /\ StacksOK' /\ HandlersInv'
           /\ Len(stack[t]) \in Nat /\ 1 \in 1 .. Len(stack[t]) /\ Top(t) = stack[t][1]
           /\ Top(t) \in Frame
  <1>i. StackType /\ StacksOK /\ HandlersInv
    BY DEF IInv
  <1>1. /\ Len(stack[t]) \in Nat /\ 1 \in 1 .. Len(stack[t]) /\ 1 \in 0 .. Len(stack[t])
        /\ Top(t) = stack[t][1] /\ 1 .. 1 = {1} /\ Top(t) \in Frame
    BY <1>i, TopFrame DEF ExitStep
  <1>2. new \in Seq(Frame) /\ SetStack(t, 1, new) /\ Pushable(new)
    BY DEF ExitStep
  <1>3. Replaced(t, 1, new)
    BY <1>1, <1>2, <1>i, SetStackReplaces
  <1>4. 1 < Len(stack[t])
    <2>1. stack[t][1].f # "main"
      BY <1>1 DEF ExitStep
    <2> QED BY <1>1, <1>i, <2>1, NotTheLast
  <1>5. StackType' /\ StacksOK' /\ stack'[t] # << >>
    BY <1>2, <1>3, <1>4, <1>i, StacksKept
  <1>6. HandlersInv'
    <2>1. HandlersType'
      BY <1>i DEF HandlersInv, HandlersType, handlerVars, ExitStep
    <2>2. Grows(t)
      BY DEF Grows, handlerVars, ExitStep
    <2>3. \A i \in 1 .. 1 : Poppable(stack[t][i])
      BY <1>1 DEF Poppable, ExitStep
    <2>4. \A i \in 1 .. Len(new) : DueOK(new[i])
      BY DEF ExitStep
    <2> QED BY <1>3, <1>4, <1>5, <1>i, <2>1, <2>2, <2>3, <2>4, HandlersKept
  <1> QED BY <1>1, <1>3, <1>5, <1>6

\* The only loop there can be is the innermost frame of t.
OnlyLoop(t) == \A u \in Threads : \A i \in 1 .. Len(stack[u]) : Loop(stack[u][i]) => u = t /\ i = 1

LEMMA OnlyLoopIs ==
    ASSUME IInv, NEW t \in Threads, lock = Null \/ Loop(Top(t))
    PROVE  OnlyLoop(t)
  <1>i. StackType /\ LoopsOK
    BY DEF IInv, ExitInv
  <1>1. CASE lock = Null
    BY <1>1, <1>i, ProgramAssumption DEF LoopsOK, OnlyLoop
  <1>2. CASE Loop(Top(t))
    <2>1. Top(t).f # "ended"
      BY <1>2 DEF Loop
    <2>2. 1 \in 1 .. Len(stack[t]) /\ Loop(stack[t][1])
      BY <1>2, <1>i, <2>1, TopFrame
    <2>3. lock = t
      BY <1>i, <2>2 DEF LoopsOK
    <2> QED BY <1>i, <2>2, <2>3 DEF LoopsOK, OnlyLoop
  <1> QED BY <1>1, <1>2

LEMMA LoopsMove ==
    ASSUME StackType, NEW t \in Threads, NEW new, Replaced(t, 1, new), OnlyLoop(t), NEW p,
           \A i \in 1 .. Len(new) : Loop(new[i]) => i = p /\ lock' = t /\ LoopOK(new[i])'
    PROVE  LoopsOK'
  <1> DEFINE s == stack[t]
             r == stack'[t]
             m == Len(new)
  <1>1. /\ m \in Nat /\ Len(s) \in Nat
        /\ \A i \in 1 .. Len(r) :
              \/ i <= m /\ r[i] = new[i]
              \/ i > m /\ i - m + 1 \in 1 + 1 .. Len(s) /\ r[i] = s[i - m + 1]
    <2>1. PICK n : n = 1
      OBVIOUS
    <2>2. Replaced(t, n, new)
      BY <2>1
    <2>3. /\ m \in Nat /\ Len(s) \in Nat
          /\ \A i \in 1 .. Len(r) :
                \/ i <= m /\ r[i] = new[i]
                \/ i > m /\ i - m + n \in n + 1 .. Len(s) /\ r[i] = s[i - m + n]
      BY <2>2, FramesAfter
    <2> QED BY <2>1, <2>3
  <1>2. ASSUME NEW i \in 1 .. Len(r), Loop(r[i]) PROVE i \in 1 .. m /\ r[i] = new[i]
    <2>1. CASE i <= m /\ r[i] = new[i]
      BY <1>1, <2>1
    <2>2. CASE i > m /\ i - m + 1 \in 1 + 1 .. Len(s) /\ r[i] = s[i - m + 1]
      <3>1. PICK j : j = i - m + 1
        OBVIOUS
      <3>2. j \in 1 .. Len(s) /\ j # 1 /\ Loop(s[j])
        BY <1>1, <1>2, <2>2, <3>1
      <3> QED BY <3>2 DEF OnlyLoop
    <2> QED BY <1>1, <2>1, <2>2
  <1>3. ASSUME NEW u \in Threads, u # t, NEW i \in 1 .. Len(stack'[u]) PROVE ~Loop(stack'[u][i])
    BY <1>3 DEF Replaced, OnlyLoop
  <1>4. ASSUME NEW u \in Threads, NEW i \in 1 .. Len(stack'[u]), Loop(stack'[u][i])
        PROVE  lock' = u /\ LoopOK(stack[u][i])' /\ i = p
    <2>1. u = t
      BY <1>3, <1>4
    <2>2. i \in 1 .. m /\ stack'[t][i] = new[i]
      BY <1>2, <1>4, <2>1
    <2>3. Loop(new[i])
      BY <1>4, <2>1, <2>2
    <2>4. i = p /\ lock' = t /\ LoopOK(new[i])'
      BY <2>2, <2>3
    <2> QED BY <2>1, <2>2, <2>4 DEF LoopOK
  <1> QED BY <1>4 DEF LoopsOK, Loop

\* The frame of __cxa_finalize.
LEMMA FinalizeFrame ==
    ASSUME IInv, NEW t \in Threads, Top(t).f = "finalize"
    PROVE  /\ Top(t) \in [f : {"finalize"}, d : Dsos \cup {0}, rest : Seq(Entry), pc : {"lock", "loop"}]
           /\ Top(t).pc = "loop" => Loop(Top(t)) /\ LoopOK(Top(t)) /\ lock = t
  <1>1. Top(t) \in Frame /\ 1 \in 1 .. Len(stack[t]) /\ Top(t) = stack[t][1]
    BY TopFrame DEF IInv
  <1>2. Top(t) \in [f : {"finalize"}, d : Dsos \cup {0}, rest : Seq(Entry), pc : {"lock", "loop"}]
    BY <1>1 DEF Frame
  <1>3. Top(t).pc = "loop" => Loop(Top(t))
    BY DEF Loop
  <1>4. Loop(Top(t)) => LoopOK(Top(t)) /\ lock = t
    BY <1>1 DEF IInv, ExitInv, LoopsOK
  <1> QED BY <1>2, <1>3, <1>4

\* The list and its history stay, the loop goes on.
LEMMA LoopStepInv ==
    ASSUME IInv, NEW t \in Threads, Top(t).f = "finalize", lock = Null \/ Loop(Top(t)),
           NEW g \in Frame, g.f = "finalize", SetStack(t, 1, << g >>), LoopOK(g)', lock' = t,
           head' = head, registered' = registered, log' = log,
           program' = program, handlerVars' = handlerVars
    PROVE  IInv'
  <1>1. /\ << g >> \in Seq(Frame) /\ Pushable(<< g >>) /\ Len(<< g >>) = 1
        /\ \A i \in 1 .. Len(<< g >>) : << g >>[i] = g
    BY OneFrame
  <1>2. ExitStep(t, << g >>)
    BY <1>1 DEF ExitStep, DueOK
  <1>3. Replaced(t, 1, << g >>) /\ StackType' /\ StacksOK' /\ HandlersInv'
    BY <1>2, ExitStepStacks
  <1>4. OnlyLoop(t)
    BY OnlyLoopIs
  <1>5. \A i \in 1 .. Len(<< g >>) : i = 1 /\ lock' = t /\ LoopOK(<< g >>[i])'
    <2>1. \A i \in 1 .. Len(<< g >>) : i = 1
      BY <1>1
    <2>2. << g >>[1] = g
      OBVIOUS
    <2> QED BY <2>1, <2>2
  <1>6. LoopsOK'
    BY <1>3, <1>4, <1>5, LoopsMove DEF IInv
  <1>7. ExitType' /\ ListOK' /\ ExitHandlersOnceInReverse'
    <2>1. ExitType /\ ListOK /\ ExitHandlersOnceInReverse
      BY DEF IInv, ExitInv
    <2>2. ExitType'
      BY <2>1 DEF ExitType
    <2>3. ListOK'
      BY <2>1 DEF ListOK
    <2>4. ExitHandlersOnceInReverse'
      BY <2>1 DEF ExitHandlersOnceInReverse
    <2> QED BY <2>2, <2>3, <2>4
  <1> QED BY <1>3, <1>6, <1>7 DEF IInv, ExitInv

LEMMA FinalizeLocksInv ==
    ASSUME IInv, NEW t \in Threads, FinalizeLocks(t)
    PROVE  IInv'
  <1>i. ExitType
    BY DEF IInv, ExitInv
  <1>1. PICK g : g = [Top(t) EXCEPT !.rest = head, !.pc = "loop"]
    OBVIOUS
  <1>2. /\ Top(t).f = "finalize" /\ lock = Null /\ lock' = t /\ SetStack(t, 1, << g >>)
        /\ head' = head /\ registered' = registered /\ log' = log
        /\ program' = program /\ handlerVars' = handlerVars
    BY <1>1 DEF FinalizeLocks, At
  <1>3. Top(t) \in [f : {"finalize"}, d : Dsos \cup {0}, rest : Seq(Entry), pc : {"lock", "loop"}]
    BY <1>2, FinalizeFrame
  <1>4. /\ g \in [f : {"finalize"}, d : Dsos \cup {0}, rest : Seq(Entry), pc : {"lock", "loop"}]
        /\ g.rest = head
    BY <1>1, <1>3, <1>i DEF ExitType
  <1>5. g \in Frame /\ g.f = "finalize"
    BY <1>4 DEF Frame
  <1>6. LoopOK(g)'
    <2>1. head \in Seq(Entry) /\ Len(head) \in Nat
      BY <1>i DEF ExitType
    <2>2. g.rest = SubSeq(head, 1, Len(head))
      BY <1>4, <2>1, SubSeqFull
    <2>3. 0 \in 0 .. Len(head) /\ 0 + 1 = 1 /\ 1 .. 0 = {}
      BY <2>1
    <2> QED BY <1>2, <2>2, <2>3 DEF LoopOK
  <1> QED BY <1>2, <1>5, <1>6, LoopStepInv

LEMMA SkipHandlerInv ==
    ASSUME IInv, NEW t \in Threads, SkipHandler(t)
    PROVE  IInv'
  <1>i. ExitType
    BY DEF IInv, ExitInv
  <1>1. PICK f : f = Top(t)
    OBVIOUS
  <1>2. PICK g : g = [f EXCEPT !.rest = Tail(f.rest)]
    OBVIOUS
  <1>3. /\ Top(t).f = "finalize" /\ Top(t).pc = "loop" /\ f.rest # << >>
        /\ f.d \notin {0, Head(f.rest).d} /\ SetStack(t, 1, << g >>)
        /\ head' = head /\ registered' = registered /\ log' = log /\ lock' = lock
        /\ program' = program /\ handlerVars' = handlerVars
    BY <1>1, <1>2 DEF SkipHandler, Round, Matches, At, exitVars
  <1>4. /\ f \in [f : {"finalize"}, d : Dsos \cup {0}, rest : Seq(Entry), pc : {"lock", "loop"}]
        /\ Loop(Top(t)) /\ LoopOK(f) /\ lock = t
    BY <1>1, <1>3, FinalizeFrame
  <1>5. PICK k \in 0 .. Len(head) : /\ f.rest = SubSeq(head, k + 1, Len(head))
                                    /\ \A j \in 1 .. k : f.d \notin {0, head[j].d}
    BY <1>4 DEF LoopOK
  <1>6. head \in Seq(Entry)
    BY <1>i DEF ExitType
  <1>7. k < Len(head)
    BY <1>3, <1>5, <1>6, RestOfList
  <1>8. /\ Head(f.rest) = head[k + 1] /\ Tail(f.rest) = SubSeq(head, k + 1 + 1, Len(head))
        /\ k + 1 \in 0 .. Len(head) /\ k + 1 \in 1 .. Len(head)
    BY <1>5, <1>6, <1>7, NextOfRest
  <1>9. Tail(f.rest) \in Seq(Entry)
    BY <1>3, <1>4
  <1>10. /\ g \in [f : {"finalize"}, d : Dsos \cup {0}, rest : Seq(Entry), pc : {"lock", "loop"}]
         /\ g.rest = Tail(f.rest) /\ g.d = f.d
    BY <1>2, <1>4, <1>9
  <1>11. g \in Frame /\ g.f = "finalize"
    BY <1>10 DEF Frame
  <1>12. \A j \in 1 .. k + 1 : g.d \notin {0, head[j].d}
    <2>1. \A j \in 1 .. k + 1 : j = k + 1 \/ j \in 1 .. k
      OBVIOUS
    <2> QED BY <1>3, <1>5, <1>8, <1>10, <2>1
  <1>13. LoopOK(g)'
    BY <1>3, <1>8, <1>10, <1>12 DEF LoopOK
  <1> QED BY <1>3, <1>4, <1>11, <1>13, LoopStepInv

\* ExitHandlersOnceInReverse, in terms of lengths.
OnceOK(l) == \A i, j \in 1 .. Len(l) : l[i] = l[j] => i = j
ReverseOK(l, r) ==
    \A i \in 1 .. Len(l), b \in 1 .. Len(r) :
        l[i] < b /\ r[b].d = r[l[i]].d /\ r[b].after < i => \E j \in 1 .. i - 1 : l[j] = b

LEMMA OnceInReverse ==
    ASSUME ExitType
    PROVE  ExitHandlersOnceInReverse <=> OnceOK(log) /\ ReverseOK(log, registered)
  <1>1. DOMAIN log = 1 .. Len(log) /\ DOMAIN registered = 1 .. Len(registered)
    BY DEF ExitType
  <1> QED BY <1>1 DEF ExitHandlersOnceInReverse, OnceOK, ReverseOK

LEMMA OnceInReverseNext ==
    ASSUME ExitType', OnceOK(log'), ReverseOK(log', registered')
    PROVE  ExitHandlersOnceInReverse'
  <1>1. DOMAIN log' = 1 .. Len(log') /\ DOMAIN registered' = 1 .. Len(registered')
    BY DEF ExitType
  <1> QED BY <1>1 DEF ExitHandlersOnceInReverse, OnceOK, ReverseOK

\* A registered handler is the new head of the list.
LEMMA RegisterList ==
    ASSUME ExitType, ListOK, OnceOK(log), ReverseOK(log, registered), NEW h, NEW r,
           h \in Entry, h.id = Len(registered) + 1, h.d = r.d,
           r \in [d : Dsos, after : Nat], r.after = Len(log),
           head' = << h >> \o head, registered' = Append(registered, r), log' = log, lock' = lock
    PROVE  ExitType' /\ ListOK' /\ ExitHandlersOnceInReverse'
  <1> DEFINE H == Len(head)
             R == Len(registered)
             L == Len(log)
  <1>1. /\ head \in Seq(Entry) /\ H \in Nat /\ log \in Seq(Nat) /\ L \in Nat
        /\ registered \in Seq([d : Dsos, after : Nat]) /\ R \in Nat
    BY DEF ExitType
  <1>2. /\ registered' \in Seq([d : Dsos, after : Nat]) /\ Len(registered') = R + 1
        /\ \A b \in 1 .. R : registered'[b] = registered[b]
        /\ registered'[R + 1] = r
    BY <1>1, AppendProperties
  <1>3. /\ head' \in Seq(Entry) /\ Len(head') = H + 1
        /\ head'[1] = h
        /\ \A j \in 1 .. H : head'[j + 1] = head[j]
    <2>1. << h >> \in Seq(Entry) /\ Len(<< h >>) = 1 /\ << h >>[1] = h
      OBVIOUS
    <2>2. /\ head' \in Seq(Entry) /\ Len(head') = Len(<< h >>) + H
          /\ \A j \in 1 .. Len(<< h >>) + H :
                head'[j] = IF j <= Len(<< h >>) THEN << h >>[j] ELSE head[j - Len(<< h >>)]
      BY <1>1, <2>1, ConcatProperties
    <2>3. /\ Len(head') = 1 + H
          /\ \A j \in 1 .. 1 + H : head'[j] = IF j <= 1 THEN << h >>[j] ELSE head[j - 1]
      BY ONLY <2>1, <2>2
    <2>4. 1 \in 1 .. 1 + H /\ 1 <= 1 /\ 1 + H = H + 1
      BY <1>1
    <2>5. ASSUME NEW j \in 1 .. H PROVE head'[j + 1] = head[j]
      <3>1. PICK i : i = j + 1
        OBVIOUS
      <3>2. i \in 1 .. 1 + H /\ ~(i <= 1) /\ i - 1 = j
        BY <1>1, <3>1
      <3>3. head'[i] = head[i - 1]
        BY <2>3, <3>2
      <3> QED BY <3>1, <3>2, <3>3
    <2> QED BY <2>1, <2>2, <2>3, <2>4, <2>5
  <1>4. ExitType'
    BY <1>1, <1>2, <1>3 DEF ExitType
  \* the handlers of head' are h and those of head
  <1>5. ASSUME NEW j \in 1 .. Len(head')
        PROVE  (j = 1 /\ head'[j] = h) \/ (j > 1 /\ j - 1 \in 1 .. H /\ head'[j] = head[j - 1])
    <2>1. CASE j = 1
      BY <1>3, <2>1
    <2>2. CASE j # 1
      <3>1. PICK i : i = j - 1
        OBVIOUS
      <3>2. i \in 1 .. H /\ i + 1 = j /\ j > 1
        BY <1>1, <1>3, <2>2, <3>1
      <3> QED BY <1>3, <3>1, <3>2
    <2> QED BY <2>1, <2>2
  <1>6. \A j \in 1 .. H : head[j].id \in 1 .. R /\ head[j].d = registered[head[j].id].d
    BY DEF ListOK
  <1>7. ListOK'
    <2>1. ASSUME NEW i \in 1 .. Len(head'), NEW j \in 1 .. Len(head'), i < j
          PROVE  head'[j].id < head'[i].id
      <3>1. j > 1 /\ j - 1 \in 1 .. H /\ head'[j] = head[j - 1]
        BY <1>5, <2>1
      <3>2. CASE i = 1 /\ head'[i] = h
        <4>1. head'[j].id \in 1 .. R
          BY <1>6, <3>1
        <4>2. head'[i].id = R + 1
          BY <3>2
        <4> HIDE DEF R
        <4> QED BY ONLY <1>1, <4>1, <4>2
      <3>3. CASE i > 1 /\ i - 1 \in 1 .. H /\ head'[i] = head[i - 1]
        <4>1. PICK a, b : a = i - 1 /\ b = j - 1
          OBVIOUS
        <4>2. a \in 1 .. H /\ b \in 1 .. H /\ a < b
          BY <2>1, <3>1, <3>3, <4>1
        <4>3. head[b].id < head[a].id
          BY <4>2 DEF ListOK
        <4> QED BY <3>1, <3>3, <4>1, <4>3
      <3> QED BY <1>5, <3>2, <3>3
    <2>2. ASSUME NEW j \in 1 .. Len(head')
          PROVE  head'[j].id \in 1 .. Len(registered') /\ head'[j].d = registered'[head'[j].id].d
      <3>1. CASE j = 1 /\ head'[j] = h
        BY <1>1, <1>2, <3>1
      <3>2. CASE j > 1 /\ j - 1 \in 1 .. H /\ head'[j] = head[j - 1]
        <4>1. PICK a : a = j - 1
          OBVIOUS
        <4>2. head[a].id \in 1 .. R /\ head[a].d = registered[head[a].id].d /\ head'[j] = head[a]
          BY <1>6, <3>2, <4>1
        <4>3. head[a].id \in 1 .. Len(registered')
          BY <1>1, <1>2, <4>2
        <4> QED BY <1>2, <4>2, <4>3
      <3> QED BY <1>5, <3>1, <3>2
    <2>3. \A i \in 1 .. L : log[i] \in 1 .. R
      BY DEF ListOK
    <2>4. \A i \in 1 .. Len(log') : log'[i] \in 1 .. Len(registered')
      BY <1>1, <1>2, <2>3
    <2>5. ASSUME NEW i \in 1 .. L, NEW j \in 1 .. Len(head') PROVE log[i] # head'[j].id
      <3>1. CASE j = 1 /\ head'[j] = h
        BY <1>1, <2>3, <3>1
      <3>2. CASE j > 1 /\ j - 1 \in 1 .. H /\ head'[j] = head[j - 1]
        BY <3>2 DEF ListOK
      <3> QED BY <1>5, <3>1, <3>2
    <2>6. ASSUME NEW b \in 1 .. Len(registered')
          PROVE  (\E i \in 1 .. L : log[i] = b) \/ (\E j \in 1 .. Len(head') : head'[j].id = b)
      <3>1. CASE b = R + 1
        <4>1. 1 \in 1 .. Len(head')
          BY <1>1, <1>3
        <4> QED BY <1>3, <3>1, <4>1
      <3>2. CASE b # R + 1
        <4>1. b \in 1 .. R
          BY <1>1, <1>2, <3>2
        <4>2. CASE \E j \in 1 .. H : head[j].id = b
          <5>1. PICK j \in 1 .. H : head[j].id = b
            BY <4>2
          <5>2. j + 1 \in 1 .. Len(head') /\ head'[j + 1] = head[j]
            BY <1>1, <1>3
          <5> QED BY <5>1, <5>2
        <4> QED BY <4>1, <4>2 DEF ListOK
      <3> QED BY <3>1, <3>2
    <2> QED BY <2>1, <2>2, <2>4, <2>5, <2>6 DEF ListOK
  <1>8. ReverseOK(log', registered')
    <2> SUFFICES ASSUME NEW i \in 1 .. L, NEW b \in 1 .. R + 1, log[i] < b,
                        registered'[b].d = registered'[log[i]].d, registered'[b].after < i
                 PROVE  \E j \in 1 .. i - 1 : log[j] = b
      BY <1>2 DEF ReverseOK
    <2>1. log[i] \in 1 .. R
      BY DEF ListOK
    <2>2. b \in 1 .. R
      BY <1>1, <1>2
    <2>3. registered[b].d = registered[log[i]].d /\ registered[b].after < i
      BY <1>2, <2>1, <2>2
    <2> QED BY <2>2, <2>3 DEF ReverseOK
  <1> QED BY <1>4, <1>7, <1>8, OnceInReverseNext

LEMMA RegisterInv ==
    ASSUME IInv, NEW t \in Threads, Register(t)
    PROVE  IInv'
  <1>i. StackType /\ ExitType /\ ListOK /\ LoopsOK /\ ExitHandlersOnceInReverse
    BY DEF IInv, ExitInv
  <1>1. PICK h, r : /\ h = [id |-> Len(registered) + 1, d |-> Top(t).d]
                    /\ r = [d |-> Top(t).d, after |-> Len(log)]
    OBVIOUS
  <1>2. /\ Top(t).f = "atexit" /\ lock = Null /\ lock' = lock /\ log' = log
        /\ head' = << h >> \o head /\ registered' = Append(registered, r)
        /\ SetStack(t, 1, << >>) /\ program' = program /\ handlerVars' = handlerVars
    BY <1>1 DEF Register, At
  <1>3. ExitStep(t, << >>)
    BY <1>2, NoFrame DEF ExitStep
  <1>4. Replaced(t, 1, << >>) /\ StackType' /\ StacksOK' /\ HandlersInv' /\ Top(t) \in Frame
    BY <1>3, ExitStepStacks
  <1>5. Top(t).d \in Dsos
    BY <1>2, <1>4 DEF Frame
  <1>6. /\ h \in Entry /\ h.id = Len(registered) + 1 /\ h.d = r.d
        /\ r \in [d : Dsos, after : Nat] /\ r.after = Len(log)
    <2>1. Len(registered) \in Nat /\ Len(log) \in Nat
      BY <1>i DEF ExitType
    <2> QED BY <1>1, <1>5, <2>1 DEF Entry
  <1>7. OnceOK(log) /\ ReverseOK(log, registered)
    BY <1>i, OnceInReverse
  <1>8. ExitType' /\ ListOK' /\ ExitHandlersOnceInReverse'
    BY <1>2, <1>6, <1>7, <1>i, RegisterList
  <1>9. LoopsOK'
    <2>1. OnlyLoop(t)
      BY <1>2, OnlyLoopIs
    <2>2. PICK new : new = << >>
      OBVIOUS
    <2>3. Replaced(t, 1, new) /\ 1 .. Len(new) = {}
      BY <1>4, <2>2, NoFrame
    <2> QED BY <1>i, <2>1, <2>3, LoopsMove
  <1> QED BY <1>4, <1>8, <1>9 DEF IInv, ExitInv

\* The handler that runs is taken out of the list; the ones of its shared
\* object that were registered later have run.
LEMMA RunList ==
    ASSUME ExitType, ListOK, OnceOK(log), ReverseOK(log, registered),
           NEW k \in 0 .. Len(head), k < Len(head), NEW d,
           \A j \in 1 .. k : d \notin {0, head[j].d}, d \in {0, head[k + 1].d},
           head' \in Seq(Entry), Len(head') = Len(head) - 1,
           \A j \in 1 .. k : head'[j] = head[j],
           \A j \in k + 1 .. Len(head') : head'[j] = head[j + 1],
           log' = Append(log, head[k + 1].id), registered' = registered, lock' = lock
    PROVE  ExitType' /\ ListOK' /\ ExitHandlersOnceInReverse'
  <1> DEFINE H == Len(head)
             R == Len(registered)
             L == Len(log)
  <1>0. PICK p : p = k + 1
    OBVIOUS
  <1>1. /\ head \in Seq(Entry) /\ H \in Nat /\ log \in Seq(Nat) /\ L \in Nat
        /\ registered \in Seq([d : Dsos, after : Nat]) /\ R \in Nat
        /\ k \in Nat /\ p \in 1 .. H /\ p = k + 1 /\ p \in Nat /\ k < H /\ Len(head') = H - 1
    BY <1>0 DEF ExitType
  <1>l. /\ \A i, j \in 1 .. H : i < j => head[j].id < head[i].id
        /\ \A i \in 1 .. H : head[i].id \in 1 .. R /\ head[i].d = registered[head[i].id].d
        /\ \A i \in 1 .. L : log[i] \in 1 .. R
        /\ \A i \in 1 .. L, j \in 1 .. H : log[i] # head[j].id
        /\ \A b \in 1 .. R : (\E i \in 1 .. L : log[i] = b) \/ (\E j \in 1 .. H : head[j].id = b)
        /\ \A i \in 1 .. H : head[i].id \in Nat
    BY <1>1 DEF ListOK, Entry
  <1>m. /\ \A i, j \in 1 .. L : log[i] = log[j] => i = j
        /\ \A i \in 1 .. L, b \in 1 .. R :
              log[i] < b /\ registered[b].d = registered[log[i]].d /\ registered[b].after < i
                => \E j \in 1 .. i - 1 : log[j] = b
    BY DEF OnceOK, ReverseOK
  <1>2. PICK c : c = head[p].id
    OBVIOUS
  <1>3. c \in Nat /\ c \in 1 .. R /\ head[p].d = registered[c].d
    BY <1>1, <1>2, <1>l
  <1>4. /\ log' \in Seq(Nat) /\ Len(log') = L + 1
        /\ \A i \in 1 .. L : log'[i] = log[i]
        /\ log'[L + 1] = c
    BY <1>0, <1>1, <1>2, <1>3, AppendProperties
  <1>5. ExitType'
    BY <1>4 DEF ExitType
  <1>r. Len(registered') = R
    OBVIOUS
  <1> HIDE DEF H, R, L
  \* where the handlers of head' were in head
  <1>6. ASSUME NEW j \in 1 .. Len(head')
        PROVE  \E a \in 1 .. H : /\ head'[j] = head[a] /\ a # p
                                 /\ (j <= k => a = j) /\ (j > k => a = j + 1)
    <2>1. CASE j <= k
      <3>1. j \in 1 .. k /\ j \in 1 .. H /\ j # p /\ ~(j > k)
        BY <1>1, <2>1
      <3> QED BY <2>1, <3>1
    <2>2. CASE ~(j <= k)
      <3>1. PICK a : a = j + 1
        OBVIOUS
      <3>2. j \in k + 1 .. Len(head') /\ a \in 1 .. H /\ a # p
        BY <1>1, <2>2, <3>1
      <3> QED BY <2>2, <3>1, <3>2
    <2> QED BY <2>1, <2>2
  <1>7. \A a, b \in 1 .. H : head[a].id = head[b].id => a = b
    <2> SUFFICES ASSUME NEW a \in 1 .. H, NEW b \in 1 .. H, head[a].id = head[b].id PROVE a = b
      OBVIOUS
    <2>1. head[a].id \in Nat /\ head[b].id \in Nat
      BY <1>l
    <2>2. ~(head[a].id < head[b].id) /\ ~(head[b].id < head[a].id)
      BY <2>1
    <2>3. ~(a < b) /\ ~(b < a)
      BY <1>l, <2>2
    <2> QED BY <2>3
  <1>8. \A i \in 1 .. L : log[i] # c /\ log[i] \in 1 .. R
    BY <1>1, <1>2, <1>l
  <1>9. ListOK'
    <2>1. ASSUME NEW i \in 1 .. Len(head'), NEW j \in 1 .. Len(head'), i < j
          PROVE  head'[j].id < head'[i].id
      <3>1. PICK a \in 1 .. H : head'[i] = head[a] /\ (i <= k => a = i) /\ (i > k => a = i + 1)
        BY <1>6
      <3>2. PICK b \in 1 .. H : head'[j] = head[b] /\ (j <= k => b = j) /\ (j > k => b = j + 1)
        BY <1>6
      <3>3. a < b
        BY <1>1, <2>1, <3>1, <3>2
      <3>4. head[b].id < head[a].id
        BY <1>l, <3>3
      <3> QED BY <3>1, <3>2, <3>4
    <2>2. ASSUME NEW j \in 1 .. Len(head')
          PROVE  head'[j].id \in 1 .. R /\ head'[j].d = registered[head'[j].id].d
      <3>1. PICK a \in 1 .. H : head'[j] = head[a]
        BY <1>6
      <3> QED BY <1>l, <3>1
    <2>3. ASSUME NEW i \in 1 .. Len(log') PROVE log'[i] \in 1 .. R
      <3>1. CASE i = L + 1
        BY <1>3, <1>4, <3>1
      <3>2. CASE i # L + 1
        <4>1. i \in 1 .. L
          BY <1>1, <1>4, <3>2
        <4> QED BY <1>4, <1>8, <4>1
      <3> QED BY <3>1, <3>2
    <2>4. ASSUME NEW i \in 1 .. Len(log'), NEW j \in 1 .. Len(head') PROVE log'[i] # head'[j].id
      <3>1. PICK a \in 1 .. H : head'[j] = head[a] /\ a # p
        BY <1>6
      <3>2. CASE i = L + 1
        BY <1>1, <1>2, <1>4, <1>7, <3>1, <3>2
      <3>3. CASE i # L + 1
        <4>1. i \in 1 .. L
          BY <1>1, <1>4, <3>3
        <4>2. log[i] # head[a].id
          BY <1>l, <4>1
        <4> QED BY <1>4, <3>1, <4>1, <4>2
      <3> QED BY <3>2, <3>3
    <2>5. ASSUME NEW b \in 1 .. R
          PROVE  (\E i \in 1 .. Len(log') : log'[i] = b) \/ (\E j \in 1 .. Len(head') : head'[j].id = b)
      <3>1. CASE \E i \in 1 .. L : log[i] = b
        <4>1. PICK i \in 1 .. L : log[i] = b
          BY <3>1
        <4>2. i \in 1 .. Len(log') /\ log'[i] = b
          BY <1>1, <1>4, <4>1
        <4> QED BY <4>2
      <3>2. CASE \E a \in 1 .. H : head[a].id = b
        <4>1. PICK a \in 1 .. H : head[a].id = b
          BY <3>2
        <4>2. CASE a = p
          <5>1. L + 1 \in 1 .. Len(log') /\ log'[L + 1] = b
            BY <1>1, <1>2, <1>4, <4>1, <4>2
          <5> QED BY <5>1
        <4>3. CASE a < p
          <5>1. a \in 1 .. k /\ a \in 1 .. Len(head')
            BY <1>1, <4>3
          <5>2. head'[a].id = b
            BY <4>1, <5>1
          <5> QED BY <5>1, <5>2
        <4>4. CASE a > p
          <5>1. PICK j : j = a - 1
            OBVIOUS
          <5>2. j \in k + 1 .. Len(head') /\ j \in 1 .. Len(head') /\ j + 1 = a
            BY <1>1, <4>4, <5>1
          <5>3. head'[j].id = b
            BY <4>1, <5>2
          <5> QED BY <5>2, <5>3
        <4>5. a = p \/ a < p \/ a > p
          BY <1>1
        <4> QED BY <4>2, <4>3, <4>4, <4>5
      <3> QED BY <1>l, <3>1, <3>2
    <2> QED BY <1>r, <2>1, <2>2, <2>3, <2>4, <2>5 DEF ListOK
  <1>10. OnceOK(log')
    <2> SUFFICES ASSUME NEW i \in 1 .. Len(log'), NEW j \in 1 .. Len(log'), log'[i] = log'[j]
                 PROVE  i = j
      BY DEF OnceOK
    <2>1. \A n \in 1 .. Len(log') : n = L + 1 \/ n \in 1 .. L
      BY <1>1, <1>4
    <2>2. CASE i \in 1 .. L /\ j \in 1 .. L
      BY <1>4, <1>m, <2>2
    <2>3. CASE i = L + 1 /\ j \in 1 .. L
      BY <1>4, <1>8, <2>3
    <2>4. CASE j = L + 1 /\ i \in 1 .. L
      BY <1>4, <1>8, <2>4
    <2> QED BY <2>1, <2>2, <2>3, <2>4
  <1>11. ReverseOK(log', registered')
    <2> SUFFICES ASSUME NEW i \in 1 .. Len(log'), NEW b \in 1 .. R, log'[i] < b,
                        registered[b].d = registered[log'[i]].d, registered[b].after < i
                 PROVE  \E j \in 1 .. i - 1 : log'[j] = b
      BY <1>r DEF ReverseOK
    <2>1. CASE i \in 1 .. L
      <3>1. log'[i] = log[i]
        BY <1>4, <2>1
      <3>2. PICK j \in 1 .. i - 1 : log[j] = b
        BY <1>m, <2>1, <3>1
      <3>3. j \in 1 .. L
        BY <1>1, <2>1
      <3> QED BY <1>4, <3>2, <3>3
    <2>2. CASE i = L + 1
      <3>1. c < b /\ registered[b].d = registered[c].d
        BY <1>4, <2>2
      <3>2. CASE \E j \in 1 .. L : log[j] = b
        <4>1. PICK j \in 1 .. L : log[j] = b
          BY <3>2
        <4>2. j \in 1 .. i - 1 /\ log'[j] = b
          BY <1>1, <1>4, <2>2, <4>1
        <4> QED BY <4>2
      <3>3. CASE \E a \in 1 .. H : head[a].id = b
        <4>1. PICK a \in 1 .. H : head[a].id = b
          BY <3>3
        <4>2. a < p
          <5>1. ~(p < a)
            <6> SUFFICES ASSUME p < a PROVE FALSE
              OBVIOUS
            <6>1. head[a].id < head[p].id
              BY <1>1, <1>l
            <6> QED BY <1>1, <1>2, <1>3, <3>1, <4>1, <6>1
          <5>2. a # p
            BY <1>1, <1>2, <1>3, <3>1, <4>1
          <5> QED BY <1>1, <5>1, <5>2
        <4>3. a \in 1 .. k
          BY <1>1, <4>2
        <4>4. d # 0 /\ d # head[a].d /\ d \in {0, head[p].d}
          BY <1>0, <4>3
        <4>5. head[a].d = registered[b].d
          BY <1>l, <4>1
        <4> QED BY <1>3, <3>1, <4>4, <4>5
      <3> QED BY <1>l, <3>2, <3>3
    <2> QED BY <1>1, <1>4, <2>1, <2>2
  <1> QED BY <1>5, <1>9, <1>10, <1>11, OnceInReverseNext

LEMMA RunExitHandlerInv ==
    ASSUME IInv, NEW t \in Threads, RunExitHandler(t)
    PROVE  IInv'
  <1>i. StackType /\ ExitType /\ ListOK /\ LoopsOK /\ ExitHandlersOnceInReverse
    BY DEF IInv, ExitInv
  <1>1. PICK f : f = Top(t)
    OBVIOUS
  <1>2. PICK g : g = [f EXCEPT !.rest = Tail(f.rest)]
    OBVIOUS
  <1>3. PICK e : e = [f |-> "exitHandler"]
    OBVIOUS
  <1>4. /\ Top(t).f = "finalize" /\ Top(t).pc = "loop" /\ f.rest # << >>
        /\ f.d \in {0, Head(f.rest).d} /\ SetStack(t, 1, << e, g >>)
        /\ head' = SubSeq(head, 1, Len(head) - Len(f.rest)) \o Tail(f.rest)
        /\ log' = Append(log, Head(f.rest).id)
        /\ registered' = registered /\ lock' = lock
        /\ program' = program /\ handlerVars' = handlerVars
    BY <1>1, <1>2, <1>3 DEF RunExitHandler, Round, Matches, At
  <1>5. /\ f \in [f : {"finalize"}, d : Dsos \cup {0}, rest : Seq(Entry), pc : {"lock", "loop"}]
        /\ Loop(Top(t)) /\ LoopOK(f) /\ lock = t
    BY <1>1, <1>4, FinalizeFrame
  <1>6. PICK k \in 0 .. Len(head) : /\ f.rest = SubSeq(head, k + 1, Len(head))
                                    /\ \A j \in 1 .. k : f.d \notin {0, head[j].d}
    BY <1>5 DEF LoopOK
  <1>7. head \in Seq(Entry)
    BY <1>i DEF ExitType
  <1>8. k < Len(head)
    BY <1>4, <1>6, <1>7, RestOfList
  <1>9. Head(f.rest) = head[k + 1]
    BY <1>6, <1>7, <1>8, NextOfRest
  <1>10. PICK rest : rest = f.rest
    OBVIOUS
  <1>11. PICK r : r = head'
    OBVIOUS
  <1>12. /\ r \in Seq(Entry) /\ Len(r) = Len(head) - 1 /\ k \in 0 .. Len(r)
         /\ \A j \in 1 .. k : r[j] = head[j]
         /\ \A j \in k + 1 .. Len(r) : r[j] = head[j + 1]
         /\ Tail(rest) = SubSeq(r, k + 1, Len(r))
    <2>1. rest = SubSeq(head, k + 1, Len(head)) /\ r = SubSeq(head, 1, Len(head) - Len(rest)) \o Tail(rest)
      BY <1>4, <1>6, <1>10, <1>11
    <2>2. Unlinks(head, k, rest, r)
      BY <1>6, <1>8, <2>1 DEF Unlinks
    <2> QED BY <1>7, <2>2, Unlinked
  <1>13. ExitType' /\ ListOK' /\ ExitHandlersOnceInReverse'
    <2>1. OnceOK(log) /\ ReverseOK(log, registered)
      BY <1>i, OnceInReverse
    <2>2. f.d \in {0, head[k + 1].d} /\ log' = Append(log, head[k + 1].id)
      BY <1>4, <1>9
    <2>3. /\ head' \in Seq(Entry) /\ Len(head') = Len(head) - 1
          /\ \A j \in 1 .. k : head'[j] = head[j]
          /\ \A j \in k + 1 .. Len(head') : head'[j] = head[j + 1]
      BY <1>11, <1>12
    <2> QED BY <1>4, <1>6, <1>8, <1>i, <2>1, <2>2, <2>3, RunList
  <1>14. Tail(f.rest) \in Seq(Entry)
    BY <1>4, <1>5
  <1>15. /\ g \in [f : {"finalize"}, d : Dsos \cup {0}, rest : Seq(Entry), pc : {"lock", "loop"}]
         /\ g.rest = Tail(f.rest) /\ g.d = f.d
    BY <1>2, <1>5, <1>14
  <1>16. /\ g \in Frame /\ g.f = "finalize" /\ e \in Frame /\ e.f = "exitHandler"
         /\ DueOK(g) /\ DueOK(e) /\ ~Loop(e)
    BY <1>3, <1>15 DEF Frame, DueOK, Loop
  <1>17. LoopOK(g)'
    <2>1. g.rest = SubSeq(head', k + 1, Len(head')) /\ k \in 0 .. Len(head')
      BY <1>10, <1>11, <1>12, <1>15
    <2>2. \A j \in 1 .. k : g.d \notin {0, head'[j].d}
      BY <1>6, <1>11, <1>12, <1>15
    <2> QED BY <2>1, <2>2 DEF LoopOK
  <1>18. /\ << e, g >> \in Seq(Frame) /\ Pushable(<< e, g >>) /\ Len(<< e, g >>) = 2
         /\ \A i \in 1 .. Len(<< e, g >>) : << e, g >>[i] \in {e, g}
    BY <1>16, TwoFrames
  <1>19. ExitStep(t, << e, g >>)
    BY <1>4, <1>16, <1>18 DEF ExitStep
  <1>20. Replaced(t, 1, << e, g >>) /\ StackType' /\ StacksOK' /\ HandlersInv'
    BY <1>19, ExitStepStacks
  <1>21. LoopsOK'
    <2>1. OnlyLoop(t)
      BY <1>5, OnlyLoopIs
    <2>2. PICK new : new = << e, g >>
      OBVIOUS
    <2>3. Replaced(t, 1, new)
      BY <1>20, <2>2
    <2>4. ASSUME NEW i \in 1 .. Len(new), Loop(new[i]) PROVE i = 2 /\ lock' = t /\ LoopOK(new[i])'
      <3>1. Len(new) = 2 /\ new[1] = e /\ new[2] = g
        BY <2>2
      <3>2. i = 1 \/ i = 2
        BY <3>1
      <3>3. i = 2 /\ new[i] = g
        BY <1>16, <2>4, <3>1, <3>2
      <3> QED BY <1>4, <1>5, <1>17, <3>3
    <2> QED BY <1>i, <2>1, <2>3, <2>4, LoopsMove
  <1> QED BY <1>13, <1>20, <1>21 DEF IInv, ExitInv

LEMMA FinalizeReturnsInv ==
    ASSUME IInv, NEW t \in Threads, FinalizeReturnsStep(t)
    PROVE  IInv'
  <1>i. StackType /\ ExitType /\ ListOK /\ LoopsOK /\ ExitHandlersOnceInReverse
    BY DEF IInv, ExitInv
  <1>1. /\ Top(t).f = "finalize" /\ Top(t).pc = "loop" /\ SetStack(t, 1, << >>)
        /\ lock' = Null /\ head' = head /\ registered' = registered /\ log' = log
        /\ program' = program /\ handlerVars' = handlerVars
    BY DEF FinalizeReturnsStep, At
  <1>2. ExitStep(t, << >>)
    BY <1>1, NoFrame DEF ExitStep
  <1>3. Replaced(t, 1, << >>) /\ StackType' /\ StacksOK' /\ HandlersInv'
    BY <1>2, ExitStepStacks
  <1>4. LoopsOK'
    <2>1. OnlyLoop(t)
      BY <1>1, OnlyLoopIs, FinalizeFrame
    <2>2. PICK new : new = << >>
      OBVIOUS
    <2>3. Replaced(t, 1, new) /\ 1 .. Len(new) = {}
      BY <1>3, <2>2, NoFrame
    <2> QED BY <1>i, <2>1, <2>3, LoopsMove
  <1>5. ExitType'
    BY <1>1, <1>i DEF ExitType
  <1>6. ListOK'
    BY <1>1, <1>i DEF ListOK
  <1>7. ExitHandlersOnceInReverse'
    BY <1>1, <1>i DEF ExitHandlersOnceInReverse
  <1> QED BY <1>3, <1>4, <1>5, <1>6, <1>7 DEF IInv, ExitInv

LEMMA ExitCallsInv ==
    ASSUME IInv, NEW t \in Threads, ExitCalls(t)
    PROVE  IInv'
  <1>1. CASE \E d \in Dsos : CxaAtexit(t, d)
    <2>1. PICK d \in Dsos : CxaAtexit(t, d)
      BY <1>1
    <2>2. PICK f : f = [f |-> "atexit", d |-> d]
      OBVIOUS
    <2>3. f \in Frame /\ f.f = "atexit" /\ ~Loop(f) /\ DueOK(f)
      BY <2>2 DEF Frame, Loop, DueOK
    <2>4. /\ Top(t).f # "ended" /\ SetStack(t, 0, << f >>)
          /\ program' = program /\ handlerVars' = handlerVars /\ exitVars' = exitVars
      BY <2>1, <2>2, Running DEF CxaAtexit, Calls
    <2> QED BY <2>3, <2>4, PushInv
  <1>2. CASE \E d \in Dsos \cup {0} : CxaFinalize(t, d)
    <2>1. PICK d \in Dsos \cup {0} : CxaFinalize(t, d)
      BY <1>2
    <2>2. PICK f : f = [f |-> "finalize", d |-> d, rest |-> << >>, pc |-> "lock"]
      OBVIOUS
    <2>3. f \in Frame /\ f.f = "finalize" /\ ~Loop(f) /\ DueOK(f)
      <3>1. << >> \in Seq(Entry)
        OBVIOUS
      <3> QED BY <2>2, <3>1 DEF Frame, Loop, DueOK
    <2>4. /\ Top(t).f # "ended" /\ SetStack(t, 0, << f >>)
          /\ program' = program /\ handlerVars' = handlerVars /\ exitVars' = exitVars
      BY <2>1, <2>2, Running DEF CxaFinalize, Calls
    <2> QED BY <2>3, <2>4, PushInv
  <1> QED BY <1>1, <1>2 DEF ExitCalls

LEMMA ExitStepsInv ==
    ASSUME IInv, NEW t \in Threads, ExitSteps(t)
    PROVE  IInv'
  <1>1. CASE Register(t)
    BY <1>1, RegisterInv
  <1>2. CASE RegisterFails(t)
    BY <1>2, PopInv DEF RegisterFails, At, Poppable
  <1>3. CASE FinalizeLocks(t)
    BY <1>3, FinalizeLocksInv
  <1>4. CASE SkipHandler(t)
    BY <1>4, SkipHandlerInv
  <1>5. CASE RunExitHandler(t)
    BY <1>5, RunExitHandlerInv
  <1>6. CASE ExitHandlerReturns(t)
    BY <1>6, PopInv DEF ExitHandlerReturns, At, Poppable
  <1>7. CASE FinalizeReturnsStep(t)
    BY <1>7, FinalizeReturnsInv
  <1> QED BY <1>1, <1>2, <1>3, <1>4, <1>5, <1>6, <1>7 DEF ExitSteps

-----------------------------------------------------------------------------
(***************************************************************************)
(* Every step, and what follows.                                           *)
(***************************************************************************)
LEMMA InitInv == Init => IInv
  <1> SUFFICES ASSUME Init PROVE IInv
    OBVIOUS
  <1> USE DEF Init
  <1>1. PICK m : m = [f |-> "main"]
    OBVIOUS
  <1>2. m \in Frame /\ m.f = "main"
    BY <1>1 DEF Frame
  <1>3. \A t \in Threads : stack[t] = << m >>
    BY <1>1 DEF ProgramInit
  <1>4. << m >> \in Seq(Frame) /\ Len(<< m >>) = 1 /\ << m >>[1] = m /\ \A i \in 1 .. 1 : i = 1
    BY <1>2
  <1>5. StackType
    BY <1>1, <1>4 DEF ProgramInit, StackType
  <1>6. StacksOK
    <2>1. StackOK(<< m >>)
      BY <1>2, <1>4 DEF StackOK
    <2> QED BY <1>3, <2>1 DEF StacksOK
  <1>7. HandlersType
    BY DEF HandlersInit, HandlersType, NoHandlers, NeverSet, Handler
  <1>8. InfoOK
    BY DEF HandlersInit, InfoOK
  <1>9. SettledOK
    <2>1. DueOK(m)
      BY <1>2 DEF DueOK
    <2>2. \A t \in Threads : info[t].h = NoHandlers /\ own[t] = NeverSet
      BY DEF HandlersInit
    <2>3. \A t \in Threads : \A i \in 1 .. Len(stack[t]) : stack[t][i] = m
      BY <1>3, <1>4
    <2>4. \A t \in Threads : HoldsOwn(t)
      BY <2>2 DEF HoldsOwn, NoHandlers, NeverSet
    <2> QED BY <2>1, <2>2, <2>3, <2>4 DEF SettledOK
  <1>10. CachedOK
    <2>1. \A k \in Kinds : cache[<<"call", k>>] = Null
      BY DEF HandlersInit
    <2>2. ~stale
      BY DEF HandlersInit
    <2> QED BY <2>1, <2>2, ProgramAssumption DEF CachedOK
  <1>11. head = << >> /\ log = << >> /\ registered = << >> /\ lock = Null
    BY DEF AtExitInit
  <1>12. Len(<< >>) = 0 /\ 1 .. 0 = {} /\ DOMAIN << >> = {}
    OBVIOUS
  <1>13. ExitType
    BY <1>11 DEF ExitType
  <1>14. ListOK /\ ExitHandlersOnceInReverse
    BY <1>11, <1>12 DEF ListOK, ExitHandlersOnceInReverse
  <1>15. LoopsOK
    <2>1. ~Loop(m)
      BY <1>2 DEF Loop
    <2>2. \A t \in Threads : \A i \in 1 .. Len(stack[t]) : stack[t][i] = m
      BY <1>3, <1>4
    <2> QED BY <2>1, <2>2 DEF LoopsOK
  <1> QED BY <1>5, <1>6, <1>7, <1>8, <1>9, <1>10, <1>13, <1>14, <1>15 DEF IInv, HandlersInv, ExitInv

LEMMA NextInv == IInv /\ [Next]_vars => IInv'
  <1> SUFFICES ASSUME IInv, [Next]_vars PROVE IInv'
    OBVIOUS
  <1>1. CASE Next
    <2>1. PICK t \in Threads :
            \/ HandlerCalls(t) /\ UNCHANGED <<newVars, exitVars>>
            \/ NewCalls(t) /\ UNCHANGED exitVars
            \/ ExitCalls(t)
            \/ Step(t)
      BY <1>1 DEF Next
    <2>2. CASE HandlerCalls(t) /\ UNCHANGED <<newVars, exitVars>>
      BY <2>2, HandlerCallsInv
    <2>3. CASE NewCalls(t) /\ UNCHANGED exitVars
      BY <2>3, NewCallsInv
    <2>4. CASE ExitCalls(t)
      BY <2>4, ExitCallsInv
    <2>5. CASE HandlerSteps(t) /\ UNCHANGED <<newVars, exitVars>>
      BY <2>5, HandlerStepsInv
    <2>6. CASE NewSteps(t) /\ UNCHANGED exitVars
      BY <2>6, NewStepsInv
    <2>7. CASE ExitSteps(t)
      BY <2>7, ExitStepsInv
    <2> QED BY <2>1, <2>2, <2>3, <2>4, <2>5, <2>6, <2>7 DEF Step
  <1>2. CASE UNCHANGED vars
    BY <1>2, UnchangedInv DEF vars, programVars, newVars
  <1> QED BY <1>1, <1>2

\* The inductive invariant of the callbacks holds in every state, for any
\* number of threads, handlers, shared objects and nested calls.
THEOREM CallbacksInvariant == Spec => []IInv
  <1> QED BY InitInv, NextInv, PTL DEF Spec

\* While no thread has set handlers of its own, and on the only thread that
\* uses them, terminate() and unexpected() run the handler in force when they
\* are called, although they look it up in the info of whichever thread called
\* them first, and __cxa_call_unexpected the one in force when the exception
\* was thrown or, for a dependent exception or when there was none, the one in
\* force at the violation.
THEOREM RightHandlersRun == Spec => []RightHandlerRuns
  <1>1. IInv => RightHandlerRuns
    <2> SUFFICES ASSUME IInv, NEW t \in Threads, Settled(t), NEW i \in DOMAIN stack[t],
                        stack[t][i].f \in {"terminateHandler", "unexpectedHandler"}
                 PROVE  stack[t][i].ran = stack[t][i].due
      BY DEF RightHandlerRuns, RunsWhatIsDue, Settled
    <2>1. i \in 1 .. Len(stack[t])
      BY DEF IInv, StackType
    <2> QED BY <2>1 DEF IInv, HandlersInv, SettledOK, DueOK
  <1> QED BY <1>1, CallbacksInvariant, PTL

\* terminate() and unexpected() never follow the pointer to an info that
\* thread_cleanup has freed, in programs whose threads set no handlers of
\* their own and whose unexpected handlers do not throw.
THEOREM InfoNeverStale == Spec => []NoStaleInfo
  <1>1. IInv => NoStaleInfo
    BY DEF IInv, HandlersInv, CachedOK, NoStaleInfo
  <1> QED BY <1>1, CallbacksInvariant, PTL

\* __cxa_finalize runs every exit handler at most once, and those of one shared
\* object in the reverse order of their registration, however registrations
\* and finalizations of several threads and shared objects interleave.
THEOREM ExitHandlersInOrder == Spec => []ExitHandlersOnceInReverse
  <1>1. IInv => ExitHandlersOnceInReverse
    BY DEF IInv, ExitInv
  <1> QED BY <1>1, CallbacksInvariant, PTL
=============================================================================
