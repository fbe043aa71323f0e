-------------------------- MODULE ExceptionsProofs --------------------------
(***************************************************************************)
(* Every operation of exception.cc preserves the invariant of              *)
(* ExceptionsInvariant, and what follows from it.                          *)
(***************************************************************************)
EXTENDS ExceptionsInvariant

(***************************************************************************)
(* Cleanups.                                                               *)
(***************************************************************************)
LEMMA EnterCleanupInv ==
    ASSUME IInv, NEW t \in Threads, EnterCleanup(t)
    PROVE  IInv' /\ OwnersStep
  <1> DEFINE f == Found(t)
             g == Scope("cleanup", Null, Null)
  <1>i. TypeOK /\ ThreadsLinked /\ OneThread
    BY DEF IInv
  <1>0. /\ In(t, "unwind") /\ header' = header /\ eh' = eh /\ ptr' = ptr
        /\ stack' = Replace(t, 1, << f, g >>)
    BY DEF EnterCleanup, Unwinding
  <1>1. /\ Depth(t) \in Nat /\ Depth(t) >= 1 /\ Depth(t) \in Pos(t) /\ 1 \in 0 .. Depth(t)
        /\ stack[t][Depth(t)] = Top(t) /\ Top(t) \in ScopeType /\ Top(t).kind = "unwind"
    BY <1>i, <1>0, TopScope
  <1>2. f \in ScopeType /\ f.kind = "unwind" /\ f.ex = Top(t).ex
    BY <1>1 DEF Found, ScopeType
  <1>3. g \in ScopeType /\ g.kind = "cleanup"
    BY DEF Scope, ScopeType
  <1> HIDE DEF f, g
  <1>4. /\ stack' \in [Threads -> Seq(ScopeType)] /\ Kept(t, Depth(t) - 1)
        /\ Depth(t)' = Depth(t) - 1 + 2
        /\ stack'[t][Depth(t) - 1 + 1] = f /\ stack'[t][Depth(t) - 1 + 2] = g
    <2>1. 1 \in 0 .. Depth(t) /\ f \in ScopeType /\ g \in ScopeType
      BY <1>1, <1>2, <1>3
    <2> QED BY <1>i, <1>0, <2>1, Replace2
  <1>5. SameScopes({"construct"}) /\ SameScopes({"destroy"})
    BY <1>1, <1>2, <1>3, <1>4 DEF SameScopes, Kept, Pos
  <1>6. SameLive
    BY <1>1, <1>2, <1>3, <1>4 DEF SameLive, Kept, Pos, LiveKinds
  <1>7. ThreadsLinked' /\ OneThread' /\ \A e : Live(e)' <=> Live(e)
    BY <1>i, <1>0, <1>6, SameLiveStep
  <1>8. TypeOK'
    BY <1>i, <1>0, <1>4 DEF TypeOK
  <1> QED BY <1>0, <1>5, <1>7, <1>8, QuietStep DEF Counted

LEMMA LeaveCleanupInv ==
    ASSUME IInv, NEW t \in Threads, LeaveCleanup(t)
    PROVE  IInv' /\ OwnersStep
  <1>i. TypeOK /\ ThreadsLinked /\ OneThread
    BY DEF IInv
  <1>0. /\ In(t, "cleanup") /\ header' = header /\ eh' = eh /\ ptr' = ptr
        /\ stack' = Replace(t, 1, << >>)
    BY DEF LeaveCleanup
  <1>1. /\ Depth(t) \in Nat /\ Depth(t) >= 1 /\ Depth(t) \in Pos(t) /\ 1 \in 0 .. Depth(t)
        /\ stack[t][Depth(t)] = Top(t) /\ Top(t).kind = "cleanup"
    BY <1>i, <1>0, TopScope
  <1>2. /\ stack' \in [Threads -> Seq(ScopeType)] /\ Kept(t, Depth(t) - 1)
        /\ Depth(t)' = Depth(t) - 1
    BY <1>i, <1>0, <1>1, Replace0
  <1>3. SameScopes({"construct"}) /\ SameScopes({"destroy"})
    BY <1>1, <1>2 DEF SameScopes, Kept, Pos
  <1>4. SameLive
    BY <1>1, <1>2 DEF SameLive, Kept, Pos, LiveKinds
  <1>5. ThreadsLinked' /\ OneThread' /\ \A e : Live(e)' <=> Live(e)
    BY <1>i, <1>0, <1>4, SameLiveStep
  <1>6. TypeOK'
    BY <1>i, <1>0, <1>2 DEF TypeOK
  <1> QED BY <1>0, <1>3, <1>5, <1>6, QuietStep DEF Counted

-----------------------------------------------------------------------------
(***************************************************************************)
(* Construction and destruction.                                           *)
(***************************************************************************)
LEMMA AllocateExceptionInv ==
    ASSUME IInv, NEW t \in Threads, NEW e \in Objs, NEW aux \in {"throw", "ptr"},
           AllocateException(t, e, aux)
    PROVE  IInv' /\ OwnersStep
  <1> DEFINE f == Scope("construct", e, aux)
             r == IF aux = "throw" THEN Raw ELSE InitPrimary(Raw)
             p == Depth(t) + 1
  <1>i. TypeOK /\ ThreadsLinked /\ OneThread /\ ConstructsOK /\ DestroysOK /\ LiveOK /\ HeadersOK
        /\ PtrsOK /\ RefsOK
    BY DEF IInv
  <1>0. /\ header[e].class = "free" /\ header' = [header EXCEPT ![e] = r] /\ eh' = eh
        /\ ptr' = ptr /\ stack' = Replace(t, 0, << f >>)
    BY DEF AllocateException, Raw
  <1>1. f \in ScopeType /\ f.kind = "construct" /\ f.ex = e /\ f.aux = aux
    BY DEF Scope, ScopeType, Blocks
  <1>2. /\ r \in HeaderType /\ r.class \in {"raw", "primary"} /\ r.object = "none"
        /\ r.referenceCount = 0
        /\ r.class = "primary" => r.exceptionDestructor
    <2>1. CASE aux = "throw"
      BY <2>1, RawHeader
    <2>2. CASE aux # "throw"
      BY <2>2, RawHeader, InitPrimaryHeader
    <2> QED BY <2>1, <2>2
  <1>3. /\ ~InConstruct(e) /\ ~InDestroy(e) /\ ~Live(e) /\ ~Built(e)
        /\ e \in Blocks /\ e \notin ForeignObjs
    BY <1>0, FreeBlock, ExceptionsAssumption DEF Blocks
  <1>4. 0 \in 0 .. Depth(t)
    BY <1>i DEF TypeOK, Depth
  <1>r. r = IF f.aux = "throw" THEN Raw ELSE InitPrimary(Raw)
    BY <1>1
  <1> HIDE DEF f, r
  <1>5. header'[e] = r /\ \A d \in Blocks : d # e => header'[d] = header[d]
    BY <1>i, <1>0, <1>3 DEF TypeOK
  <1>6. /\ stack' \in [Threads -> Seq(ScopeType)] /\ Kept(t, Depth(t) - 0)
        /\ Depth(t) \in Nat /\ Depth(t)' = Depth(t) - 0 + 1 /\ stack'[t][Depth(t) - 0 + 1] = f
    <2>1. f \in ScopeType
      BY <1>1
    <2> QED BY <1>i, <1>0, <1>4, <2>1, Replace1
  <1>7. Kept(t, Depth(t)) /\ Pos(t)' = 1 .. p /\ p \in Pos(t)' /\ stack'[t][p] = f /\ p \in Nat
    BY <1>6 DEF Pos
  <1> HIDE DEF p
  <1>8. SameScopes({"destroy"})
    BY <1>1, <1>6, <1>7 DEF SameScopes, Kept, Pos, p
  <1>9. SameLive
    BY <1>1, <1>6, <1>7 DEF SameLive, Kept, Pos, LiveKinds, p
  <1>10. TypeOK'
    BY <1>i, <1>0, <1>2, <1>3, <1>6 DEF TypeOK
  <1>11. Objs \subseteq Blocks
    BY DEF Blocks
  <1>12. ThreadsLinked' /\ OneThread' /\ \A d : Live(d)' <=> Live(d)
    <2>1. \A d \in Objs : Live(d) => header'[d] = header[d]
      BY <1>3, <1>5, <1>11
    <2> QED BY <1>i, <1>0, <1>9, <2>1, SameLiveStep
  <1>13. DestroysOK' /\ \A d : InDestroy(d)' <=> InDestroy(d)
    <2>1. \A d \in Objs : InDestroy(d) => header'[d] = header[d]
      BY <1>3, <1>5, <1>11
    <2> QED BY <1>i, <1>8, <2>1, DestroyFrame
  <1>14. \A u \in Threads : \A j \in Pos(u)' : stack'[u][j].kind = "construct" =>
             \/ u = t /\ j = p
             \/ j \in Pos(u) /\ stack'[u][j] = stack[u][j] /\ stack[u][j].ex # e
    <2>1. ASSUME NEW u \in Threads, NEW j \in Pos(u)', stack'[u][j].kind = "construct",
                 ~(u = t /\ j = p)
          PROVE  j \in Pos(u) /\ stack'[u][j] = stack[u][j] /\ stack[u][j].ex # e
      <3>1. j \in Nat /\ (u # t \/ j <= Depth(t))
        BY <1>6, <1>7, <2>1 DEF Pos, p
      <3>2. j \in Pos(u) /\ stack'[u][j] = stack[u][j]
        BY <1>7, <3>1 DEF Kept
      <3> QED BY <1>3, <2>1, <3>2 DEF InConstruct
    <2> QED BY <2>1
  <1>15. ConstructsOK'
    <2>1. ASSUME NEW u \in Threads, NEW j \in Pos(u)', stack'[u][j].kind = "construct"
          PROVE  ConstructOK(stack[u][j])'
      <3>1. CASE u = t /\ j = p
        BY <1>1, <1>5, <1>7, <1>r, <3>1 DEF ConstructOK
      <3>2. CASE ~(u = t /\ j = p)
        <4>1. j \in Pos(u) /\ stack'[u][j] = stack[u][j] /\ stack[u][j].ex # e
          BY <1>14, <2>1, <3>2
        <4>2. ConstructOK(stack[u][j])
          BY <1>i, <2>1, <4>1 DEF ConstructsOK
        <4> QED BY <1>5, <1>11, <4>1, <4>2 DEF ConstructOK
      <3> QED BY <3>1, <3>2
    <2>2. \A u, v \in Threads : \A i \in Pos(u)', j \in Pos(v)' :
              /\ stack'[u][i].kind = "construct" /\ stack'[v][j].kind = "construct"
              /\ stack'[u][i].ex = stack'[v][j].ex
              => u = v /\ i = j
      <3>1. stack'[t][p].ex = e
        BY <1>1, <1>7
      <3> QED BY <1>i, <1>14, <3>1 DEF ConstructsOK
    <2> QED BY <2>1, <2>2 DEF ConstructsOK
  <1>16. InConstruct(e)' /\ \A d : InConstruct(d) => InConstruct(d)'
    <2>1. \A u \in Threads : \A j \in Pos(u) : j \in Pos(u)' /\ stack'[u][j] = stack[u][j]
      BY <1>6, <1>7 DEF Kept, Pos
    <2> QED BY <1>1, <1>7, <2>1 DEF InConstruct
  <1>17. \A d : Built(d)' <=> Built(d)
    BY <1>2, <1>3, <1>5, <1>11 DEF Built
  <1>18. LiveOK'
    BY <1>i, <1>3, <1>5, <1>11, <1>12, <1>17 DEF LiveOK, Blocks
  <1>19. ASSUME NEW d \in Blocks PROVE HeaderOK(d)'
    <2>1. CASE d = e
      BY <1>2, <1>5, <1>16, <2>1 DEF HeaderOK
    <2>2. CASE d # e
      <3>1. HeaderOK(d) /\ header'[d] = header[d]
        BY <1>i, <1>5, <2>2 DEF HeadersOK
      <3> QED BY <1>12, <1>13, <1>16, <1>17, <3>1, HeaderFrame
    <2> QED BY <2>1, <2>2
  <1>20. PtrsOK'
    BY <1>i, <1>0, <1>17 DEF PtrsOK
  <1>21. ASSUME NEW d \in Objs PROVE RefOK(d)' /\ OwnStep(d)
    <2>1. Holders(d)' = Holders(d)
      BY <1>0, <1>2, <1>5, <1>11, <1>12, HoldersSame
    <2>2. CASE d = e
      <3>1. Holders(e)' = {}
        BY <1>3, <2>1, <2>2, NoHolders
      <3>2. RefOK(e)'
        BY <1>2, <1>5, <3>1, FS_EmptySet DEF RefOK
      <3>3. header[e].class \notin {"primary", "dying"} /\ header'[e].object # "built"
        BY <1>0, <1>2, <1>5
      <3> QED BY <2>2, <3>2, <3>3, OwnNone
    <2>3. CASE d # e
      <3>1. RefOK(d) /\ header'[d] = header[d]
        BY <1>i, <1>5, <1>11, <2>3 DEF RefsOK
      <3> QED BY <2>1, <3>1, RefFrame
    <2> QED BY <2>2, <2>3
  <1> QED BY <1>10, <1>12, <1>13, <1>15, <1>18, <1>19, <1>20, <1>21 DEF IInv, HeadersOK, RefsOK, OwnersStep

-----------------------------------------------------------------------------
(***************************************************************************)
(* Throwing.                                                               *)
(***************************************************************************)
LEMMA ThrowInv ==
    ASSUME IInv, NEW t \in Threads, Throw(t)
    PROVE  IInv' /\ OwnersStep
  <1>e. PICK e : e = Top(t).ex
    OBVIOUS
  <1> DEFINE f == Scope("unwind", e, "search")
             r == [InitPrimary(header[e]) EXCEPT !.referenceCount = 1, !.object = "built"]
             m == Depth(t) - 1
  <1>i. TypeOK /\ ThreadsLinked /\ OneThread /\ ConstructsOK /\ DestroysOK /\ LiveOK /\ HeadersOK
        /\ PtrsOK /\ RefsOK
    BY DEF IInv
  <1>0. /\ In(t, "construct") /\ Top(t).aux = "throw" /\ header' = [header EXCEPT ![e] = r]
        /\ eh' = [eh EXCEPT ![t].uncaught = @ + 1]
        /\ ptr' = ptr /\ stack' = Replace(t, 1, << f >>)
    BY <1>e DEF Throw
  <1>1. /\ Depth(t) \in Nat /\ Depth(t) >= 1 /\ Depth(t) \in Pos(t) /\ 1 \in 0 .. Depth(t)
        /\ stack[t][Depth(t)] = Top(t) /\ Top(t) \in ScopeType /\ Top(t).kind = "construct"
    BY <1>i, <1>0, TopScope
  <1>2. /\ e \in Objs /\ header[e] = Raw /\ e \in Blocks /\ e \notin ForeignObjs
        /\ header[e].class = "raw" /\ header[e] \in HeaderType
    <2>1. ConstructOK(Top(t))
      BY <1>i, <1>1 DEF ConstructsOK
    <2> QED BY <1>0, <2>1, RawHeader, ExceptionsAssumption, <1>e DEF ConstructOK, Blocks
  <1>3. /\ r \in HeaderType /\ r.class = "primary" /\ r.object = "built"
        /\ r.referenceCount = 1 /\ r.handlerCount = 0 /\ r.exceptionDestructor
    <2> DEFINE r0 == InitPrimary(header[e])
    <2>1. /\ r0 \in HeaderType /\ r0.class = "primary" /\ r0.exceptionDestructor
          /\ r0.handlerCount = 0
      BY <1>2, InitPrimaryHeader, RawHeader
    <2>2. r = [r0 EXCEPT !.referenceCount = 1, !.object = "built"]
      OBVIOUS
    <2> HIDE DEF r0, r
    <2>3. r \in HeaderType
      BY <2>1, <2>2, HeaderUpdates, Zenon
    <2> QED BY <2>1, <2>2, <2>3 DEF HeaderType
  <1>4. ~Live(e) /\ ~Built(e) /\ ~InDestroy(e)
    <2>1. ~Built(e)
      BY <1>2 DEF Built
    <2>2. e # Null
      BY <1>2, ExceptionsAssumption
    <2> QED BY <1>2, <2>1, <2>2, ScopeClasses
  <1>5. f \in ScopeType /\ f.kind = "unwind" /\ f.ex = e
    BY <1>2 DEF Scope, ScopeType, LiveKinds
  <1>6. header'[e] = r /\ \A d \in Blocks : d # e => header'[d] = header[d]
    BY <1>i, <1>0, <1>2 DEF TypeOK
  <1> HIDE DEF f, r
  <1>7. /\ stack' \in [Threads -> Seq(ScopeType)] /\ Kept(t, Depth(t) - 1)
        /\ Depth(t)' = Depth(t) - 1 + 1 /\ stack'[t][Depth(t) - 1 + 1] = f
    <2>1. f \in ScopeType /\ 1 \in 0 .. Depth(t)
      BY <1>1, <1>5
    <2> QED BY <1>i, <1>0, <2>1, Replace1
  <1>8. /\ m \in Nat /\ m <= Depth(t) /\ Kept(t, m) /\ Depth(t)' = m + 1 /\ m + 1 = Depth(t)
        /\ stack'[t][m + 1] = f
        /\ \A i \in Pos(t) : i > m => i = Depth(t)
    BY <1>1, <1>7 DEF Pos
  <1>9. SameScopes({"destroy"})
    BY <1>1, <1>5, <1>8 DEF SameScopes, Kept, Pos
  <1>10. Objs \subseteq Blocks
    BY DEF Blocks
  <1> HIDE DEF m
  <1>11. /\ ThreadsLinked' /\ OneThread' /\ eh' \in [Threads -> ThreadInfo]
         /\ \A d : Live(d)' <=> Live(d) \/ d = e
    <2>1. \A d \in Objs : Live(d) => header'[d] = header[d]
      BY <1>4, <1>6, <1>10
    <2>2. \A i \in Pos(t) : i > m => stack[t][i].kind \notin LiveKinds
      BY <1>1, <1>8 DEF LiveKinds
    <2>3. header'[e].handlerCount = 0 /\ stack'[t][m + 1].kind = "unwind" /\ stack'[t][m + 1].ex = e
      BY <1>3, <1>5, <1>6, <1>8
    <2>4. eh' = IF e \in ForeignObjs THEN eh ELSE [eh EXCEPT ![t].uncaught = @ + 1]
      BY <1>0, <1>2
    <2> QED BY <1>2, <1>4, <1>8, <2>1, <2>2, <2>3, <2>4, NewFlight
  <1>12. TypeOK'
    BY <1>i, <1>0, <1>2, <1>3, <1>7, <1>11 DEF TypeOK
  <1>13. DestroysOK' /\ \A d : InDestroy(d)' <=> InDestroy(d)
    <2>1. \A d \in Objs : InDestroy(d) => header'[d] = header[d]
      BY <1>4, <1>6, <1>10
    <2> QED BY <1>i, <1>9, <2>1, DestroyFrame
  <1>14. SubScopes({"construct"}) /\ \A d : d # e /\ InConstruct(d) => InConstruct(d)'
    <2>1. SubScopes({"construct"})
      BY <1>1, <1>5, <1>8 DEF SubScopes, Kept, Pos
    <2>2. \A u \in Threads : \A j \in Pos(u) : u # t \/ j # m + 1 =>
              j \in Pos(u)' /\ stack'[u][j] = stack[u][j]
      BY <1>1, <1>8 DEF Kept, Pos
    <2>3. stack[t][m + 1].ex = e
      BY <1>e, <1>1, <1>8
    <2> QED BY <2>1, <2>2, <2>3 DEF InConstruct
  <1>15. ConstructsOK'
    <2>1. ASSUME NEW u \in Threads, NEW j \in Pos(u)', stack'[u][j].kind = "construct"
          PROVE  /\ j \in Pos(u) /\ stack'[u][j] = stack[u][j]
                 /\ header'[stack[u][j].ex] = header[stack[u][j].ex]
      <3>1. j \in Pos(u) /\ stack'[u][j] = stack[u][j]
        BY <1>14, <2>1 DEF SubScopes
      <3>2. ConstructOK(stack[u][j])
        BY <1>i, <2>1, <3>1 DEF ConstructsOK
      <3>3. ~(u = t /\ j = Depth(t))
        BY <1>5, <1>8, <2>1
      <3>4. stack[u][j].ex # e
        BY <1>i, <1>e, <1>1, <2>1, <3>1, <3>3 DEF ConstructsOK
      <3> QED BY <1>6, <1>10, <3>1, <3>2, <3>4 DEF ConstructOK
    <2> QED BY <1>i, <2>1, ConstructSub
  <1>16. \A d : Built(d)' <=> Built(d) \/ d = e
    BY <1>2, <1>3, <1>6, <1>10 DEF Built
  <1>17. LiveOK'
    <2>1. \A d : Live(d) => d # e /\ d \in Blocks
      BY <1>4, ScopeClasses
    <2> QED BY <1>i, <1>6, <1>11, <1>16, <2>1 DEF LiveOK
  <1>18. HeadersOK'
    <2> DEFINE S == {e}
    <2>1. HeaderOK(e)'
      BY <1>2, <1>3, <1>6 DEF HeaderOK
    <2>2. ASSUME NEW d \in Blocks, d \notin S
          PROVE  /\ Counted(d)
                 /\ InConstruct(d) => InConstruct(d)'
                 /\ InDestroy(d) => InDestroy(d)'
                 /\ Live(d) => Live(d)'
                 /\ header[d].class = "dependent" => Built(header[d].primaryException)'
      BY <1>i, <1>6, <1>11, <1>13, <1>14, <1>16, <2>2 DEF Counted, HeadersOK, HeaderOK
    <2>3. \A d \in Blocks : d \in S => HeaderOK(d)'
      BY <2>1
    <2> HIDE DEF S
    <2> QED BY <1>i, <2>2, <2>3, HeadersStep
  <1>19. PtrsOK'
    BY <1>i, <1>0, <1>16 DEF PtrsOK
  <1>20. ASSUME NEW d \in Objs PROVE RefOK(d)' /\ OwnStep(d)
    <2>1. CASE d = e
      <3>1. Holders(e) = {}
        BY <1>2, <1>4, NoHolders
      <3>2. Thrown(e)'
        <4>1. Live(e)'
          BY <1>11
        <4> QED BY <4>1 DEF Thrown, Live, Scopes, Pos, LiveKinds
      <3>3. Holders(e)' = {e}
        BY <1>0, <1>2, <1>3, <1>6, <1>10, <3>1, <3>2 DEF Holders, isDependent
      <3>4. Cardinality(Holders(e)') = 1
        BY <3>3, FS_Singleton
      <3>5. RefOK(e)'
        BY <1>3, <1>6, <3>4 DEF RefOK
      <3>6. header[e].object # "built" /\ Built(e)'
        BY <1>2, <1>16 DEF Raw, Freed
      <3> QED BY <1>2, <2>1, <3>3, <3>5, <3>6, OwnCreate
    <2>2. CASE d # e
      <3>1. RefOK(d) /\ header'[d] = header[d]
        BY <1>i, <1>6, <1>10, <2>2 DEF RefsOK
      <3>2. Holders(d)' = Holders(d)
        BY <1>0, <1>2, <1>3, <1>6, <1>10, <1>11, <2>2, HoldersSame
      <3> QED BY <3>1, <3>2, RefFrame
    <2> QED BY <2>1, <2>2
  <1> QED BY <1>11, <1>12, <1>13, <1>15, <1>17, <1>18, <1>19, <1>20 DEF IInv, RefsOK, OwnersStep

\* A push leaves all scopes where they are.
LEMMA PushKeeps ==
    ASSUME NEW t \in Threads, Depth(t) \in Nat, Kept(t, Depth(t)), Depth(t)' = Depth(t) + 1,
           NEW f, stack'[t][Depth(t) + 1] = f
    PROVE  /\ f.kind # "construct" => SameScopes({"construct"})
           /\ f.kind # "destroy" => SameScopes({"destroy"})
           /\ \A i \in Pos(t) : ~(i > Depth(t))
  <1>1. f.kind # "construct" => SameScopes({"construct"})
    BY DEF SameScopes, Kept, Pos
  <1>2. f.kind # "destroy" => SameScopes({"destroy"})
    BY DEF SameScopes, Kept, Pos
  <1> QED BY <1>1, <1>2 DEF Pos

LEMMA RethrowExceptionPtrInv ==
    ASSUME IInv, NEW t \in Threads, NEW s \in Slots, NEW d \in Objs, RethrowExceptionPtr(t, s, d)
    PROVE  IInv' /\ OwnersStep
  <1>p. PICK p : p = ptr[s]
    OBVIOUS
  <1> DEFINE f == Scope("unwind", d, "search")
             r == [Freed EXCEPT !.class = "dependent", !.primaryException = p,
                                !.exceptionType = header[p].nextException]
             m == Depth(t)
  <1>i. TypeOK /\ ThreadsLinked /\ OneThread /\ ConstructsOK /\ DestroysOK /\ LiveOK /\ HeadersOK
        /\ PtrsOK /\ RefsOK
    BY DEF IInv
  <1>0. /\ p # Null /\ header[d].class = "free"
        /\ header' = [header EXCEPT ![p].referenceCount = @ + 1, ![d] = r]
        /\ eh' = [eh EXCEPT ![t].uncaught = @ + 1]
        /\ ptr' = ptr /\ stack' = Replace(t, 0, << f >>)
    BY <1>p DEF RethrowExceptionPtr
  <1>1. /\ Built(p) /\ p \in Objs /\ p \in Blocks /\ d \in Blocks /\ p # d /\ d \notin ForeignObjs
        /\ header[p] \in HeaderType
    BY <1>i, <1>0, <1>p, ExceptionsAssumption DEF PtrsOK, Built, Blocks, TypeOK
  <1>2. r \in HeaderType /\ r.class = "dependent" /\ r.primaryException = p /\ r.handlerCount = 0
        /\ r.object = "none"
    <2>1. header[p].nextException \in Blocks \cup {Null}
      BY <1>1 DEF HeaderType
    <2>2. header[p].nextException \in Blocks \cup {Null, "T"}
      BY <2>1
    <2>3. p \in Objs \cup {Null} /\ "dependent" \in Classes
      BY <1>1 DEF Classes
    <2>4. r \in HeaderType
      BY <2>2, <2>3, HeaderUpdates, Zenon
    <2> QED BY <2>4 DEF Freed
  <1>3. ~InConstruct(d) /\ ~InDestroy(d) /\ ~Live(d) /\ ~Built(d)
    BY <1>0, <1>1, FreeBlock
  <1>4. f \in ScopeType /\ f.kind = "unwind" /\ f.ex = d
    BY <1>1 DEF Scope, ScopeType, LiveKinds
  <1>5. /\ header'[d] = r
        /\ header'[p] = [header[p] EXCEPT !.referenceCount = @ + 1]
        /\ \A c \in Blocks : c # d /\ c # p => header'[c] = header[c]
    BY <1>i, <1>0, <1>1 DEF TypeOK
  <1>6. m \in Nat /\ 0 \in 0 .. Depth(t)
    BY <1>i DEF TypeOK, Depth
  <1> HIDE DEF f, r
  <1>7. /\ stack' \in [Threads -> Seq(ScopeType)] /\ Kept(t, Depth(t) - 0)
        /\ Depth(t)' = Depth(t) - 0 + 1 /\ stack'[t][Depth(t) - 0 + 1] = f
    <2>1. f \in ScopeType
      BY <1>4
    <2> QED BY <1>i, <1>0, <1>6, <2>1, Replace1
  <1>8. m <= Depth(t) /\ Kept(t, m) /\ Depth(t)' = m + 1 /\ stack'[t][m + 1] = f
    BY <1>6, <1>7
  <1>9. /\ SameScopes({"construct"}) /\ SameScopes({"destroy"})
        /\ \A i \in Pos(t) : ~(i > m)
    BY <1>4, <1>6, <1>8, PushKeeps
  <1>10. Objs \subseteq Blocks
    BY DEF Blocks
  <1>11. /\ header'[p].class = "primary" /\ header'[p].object = "built"
         /\ header'[p].referenceCount = header[p].referenceCount + 1
         /\ header'[p].exceptionDestructor = header[p].exceptionDestructor
         /\ header'[p].primaryException = header[p].primaryException
         /\ header'[p].handlerCount = header[p].handlerCount
         /\ header'[p].nextException = header[p].nextException
         /\ header'[p] \in HeaderType
    <2>1. header[p].referenceCount + 1 \in Int
      BY <1>1 DEF HeaderType
    <2>2. header'[p] \in HeaderType
      BY <1>1, <1>5, <2>1, HeaderUpdates
    <2> QED BY <1>1, <1>5, <2>2 DEF Built, HeaderType
  <1> HIDE DEF m
  <1>12. /\ ThreadsLinked' /\ OneThread' /\ eh' \in [Threads -> ThreadInfo]
         /\ \A c : Live(c)' <=> Live(c) \/ c = d
    <2>1. \A c \in Objs : Live(c) =>
              /\ header'[c].handlerCount = header[c].handlerCount
              /\ header'[c].nextException = header[c].nextException
      BY <1>3, <1>5, <1>10, <1>11
    <2>2. \A i \in Pos(t) : i > m => stack[t][i].kind \notin LiveKinds
      BY <1>9
    <2>3. header'[d].handlerCount = 0 /\ stack'[t][m + 1].kind = "unwind" /\ stack'[t][m + 1].ex = d
      BY <1>2, <1>4, <1>5, <1>8
    <2>4. eh' = IF d \in ForeignObjs THEN eh ELSE [eh EXCEPT ![t].uncaught = @ + 1]
      BY <1>0, <1>1
    <2>5. m \in Nat /\ m <= Depth(t) /\ Kept(t, m) /\ Depth(t)' = m + 1 /\ d \in Blocks
      BY <1>1, <1>6, <1>8
    <2> QED BY <1>3, <2>1, <2>2, <2>3, <2>4, <2>5, NewFlight
  <1>13. header' \in [Blocks -> HeaderType]
    <2>1. header' \in [Blocks -> HeaderType] <=> \A c \in Blocks : header'[c] \in HeaderType
      BY <1>i, <1>0 DEF TypeOK
    <2> QED BY <1>i, <1>2, <1>5, <1>11, <2>1 DEF TypeOK
  <1>14. TypeOK'
    BY <1>i, <1>0, <1>7, <1>12, <1>13 DEF TypeOK
  <1>15. ~InConstruct(p) /\ ~InDestroy(p)
    <2>1. p # Null /\ header[p].class = "primary"
      BY <1>1, ExceptionsAssumption DEF Built
    <2> QED BY <1>1, <2>1, ScopeClasses
  <1>16. DestroysOK' /\ \A c : InDestroy(c)' <=> InDestroy(c)
    <2>1. \A c \in Objs : InDestroy(c) => header'[c] = header[c]
      BY <1>3, <1>5, <1>10, <1>15
    <2> QED BY <1>i, <1>9, <2>1, DestroyFrame
  <1>17. ConstructsOK' /\ \A c : InConstruct(c)' <=> InConstruct(c)
    <2>1. \A c \in Objs : InConstruct(c) => header'[c] = header[c]
      BY <1>3, <1>5, <1>10, <1>15
    <2> QED BY <1>i, <1>9, <2>1, ConstructFrame
  <1>18. \A c : Built(c)' <=> Built(c)
    BY <1>1, <1>2, <1>3, <1>5, <1>10, <1>11 DEF Built
  <1>19. LiveOK'
    <2>1. \A c : Live(c) => c # d /\ c \in Blocks
      BY <1>3, ScopeClasses
    <2> QED BY <1>i, <1>1, <1>2, <1>5, <1>12, <1>18, <2>1 DEF LiveOK
  <1>20. HeadersOK'
    <2> DEFINE S == {d}
    <2>1. HeaderOK(d)'
      BY <1>1, <1>2, <1>5, <1>12, <1>18 DEF HeaderOK
    <2>2. ASSUME NEW c \in Blocks, c \notin S
          PROVE  /\ Counted(c)
                 /\ InConstruct(c) => InConstruct(c)'
                 /\ InDestroy(c) => InDestroy(c)'
                 /\ Live(c) => Live(c)'
                 /\ header[c].class = "dependent" => Built(header[c].primaryException)'
      <3>1. Counted(c)
        BY <1>1, <1>5, <1>11, <1>15, <2>2 DEF Counted, Built
      <3>2. header[c].class = "dependent" => Built(header[c].primaryException)
        BY <1>i DEF HeadersOK, HeaderOK
      <3>3. \A b : Built(b) => Built(b)'
        BY <1>18
      <3>q. PICK b : b = header[c].primaryException
        OBVIOUS
      <3>4. header[c].class = "dependent" => Built(header[c].primaryException)'
        <4>1. CASE c = p
          BY <1>1, <4>1 DEF Built
        <4>2. CASE c # p
          BY <1>5, <2>2, <3>2, <3>3, <3>q, <4>2
        <4> QED BY <4>1, <4>2
      <3> QED BY <1>12, <1>16, <1>17, <3>1, <3>4
    <2>3. \A c \in Blocks : c \in S => HeaderOK(c)'
      BY <2>1
    <2> HIDE DEF S
    <2> QED BY <1>i, <2>2, <2>3, HeadersStep
  <1>21. PtrsOK'
    BY <1>i, <1>0, <1>18 DEF PtrsOK
  <1>22. ASSUME NEW c \in Objs PROVE RefOK(c)' /\ OwnStep(c)
    <2>0. RefOK(c)
      BY <1>i DEF RefsOK
    <2>1. CASE c = d
      <3>1. header[c].class \notin {"primary", "dying"} /\ header'[c].class \notin {"primary", "dying"}
        BY <1>0, <1>2, <1>5, <2>1
      <3> QED BY <3>1, OwnNone DEF RefOK
    <2>2. CASE c = p
      <3>1. d \notin Holders(p)
        BY <1>0, <1>1, ExceptionsAssumption DEF Holders, isDependent
      <3>2. Thrown(p)' <=> Thrown(p)
        <4>1. Live(p)' <=> Live(p)
          BY <1>1, <1>12
        <4> QED BY <4>1 DEF Thrown, Live, Scopes, Pos, LiveKinds
      <3>3. Holders(p)' = Plus(Holders(p), d)
        <4>1. \A b \in Objs : (header'[b].class = "dependent" /\ header'[b].primaryException = p)
                  <=> b = d \/ (header[b].class = "dependent" /\ header[b].primaryException = p)
          BY <1>1, <1>2, <1>5, <1>10, <1>11 DEF Built
        <4> QED BY <1>0, <3>2, <4>1 DEF Holders, isDependent, Plus
      <3>4. Built(p)'
        BY <1>1, <1>18
      <3> QED BY <1>1, <1>11, <2>0, <2>2, <3>1, <3>3, <3>4, RefAdd DEF Built
    <2>3. CASE c # d /\ c # p
      <3>1. header'[c] = header[c]
        BY <1>5, <1>10, <2>3
      <3>2. \A b \in Objs : (header'[b].class = "dependent" /\ header'[b].primaryException = c)
                  <=> (header[b].class = "dependent" /\ header[b].primaryException = c)
        BY <1>0, <1>1, <1>2, <1>5, <1>10, <1>11, <2>3 DEF Built
      <3>3. Holders(c)' = Holders(c)
        BY <1>0, <1>12, <2>3, <3>2, HoldersSame
      <3> QED BY <2>0, <3>1, <3>3, RefFrame
    <2> QED BY <2>1, <2>2, <2>3
  <1> QED BY <1>12, <1>14, <1>16, <1>17, <1>19, <1>20, <1>21, <1>22 DEF IInv, RefsOK, OwnersStep

LEMMA RaiseForeignInv ==
    ASSUME IInv, NEW t \in Threads, NEW e \in ForeignObjs, RaiseForeign(t, e)
    PROVE  IInv' /\ OwnersStep
  <1> DEFINE f == Scope("unwind", e, "search")
             m == Depth(t)
  <1>i. TypeOK /\ ThreadsLinked /\ OneThread /\ ConstructsOK /\ DestroysOK /\ LiveOK /\ HeadersOK
        /\ PtrsOK /\ RefsOK
    BY DEF IInv
  <1>0. /\ header[e].class = "free" /\ header' = [header EXCEPT ![e].class = "foreign"]
        /\ eh' = eh /\ ptr' = ptr /\ stack' = Replace(t, 0, << f >>)
    BY DEF RaiseForeign
  <1>1. e \in Blocks /\ e \notin Objs /\ header[e] \in HeaderType
    BY <1>i, ExceptionsAssumption DEF Blocks, TypeOK
  <1>2. ~InConstruct(e) /\ ~InDestroy(e) /\ ~Live(e) /\ ~Built(e)
    BY <1>0, <1>1, FreeBlock
  <1>3. f \in ScopeType /\ f.kind = "unwind" /\ f.ex = e
    BY <1>1 DEF Scope, ScopeType, LiveKinds
  <1>4. /\ header'[e] = [header[e] EXCEPT !.class = "foreign"]
        /\ \A d \in Blocks : d # e => header'[d] = header[d]
    BY <1>i, <1>0, <1>1 DEF TypeOK
  <1>5. header'[e].class = "foreign" /\ header'[e] \in HeaderType
    <2>1. "foreign" \in Classes
      BY DEF Classes
    <2> QED BY <1>1, <1>4, <2>1, HeaderUpdates DEF HeaderType
  <1>6. m \in Nat /\ 0 \in 0 .. Depth(t)
    BY <1>i DEF TypeOK, Depth
  <1> HIDE DEF f
  <1>7. /\ stack' \in [Threads -> Seq(ScopeType)] /\ Kept(t, Depth(t) - 0)
        /\ Depth(t)' = Depth(t) - 0 + 1 /\ stack'[t][Depth(t) - 0 + 1] = f
    <2>1. f \in ScopeType
      BY <1>3
    <2> QED BY <1>i, <1>0, <1>6, <2>1, Replace1
  <1>8. m <= Depth(t) /\ Kept(t, m) /\ Depth(t)' = m + 1 /\ stack'[t][m + 1] = f
    BY <1>6, <1>7
  <1>9. /\ SameScopes({"construct"}) /\ SameScopes({"destroy"})
        /\ \A i \in Pos(t) : ~(i > m)
    BY <1>3, <1>6, <1>8, PushKeeps
  <1>10. Objs \subseteq Blocks /\ \A d \in Objs : header'[d] = header[d]
    BY <1>1, <1>4 DEF Blocks
  <1> HIDE DEF m
  <1>11. /\ ThreadsLinked' /\ OneThread' /\ eh' \in [Threads -> ThreadInfo]
         /\ \A d : Live(d)' <=> Live(d) \/ d = e
    <2>1. \A i \in Pos(t) : i > m => stack[t][i].kind \notin LiveKinds
      BY <1>9
    <2>2. stack'[t][m + 1].kind = "unwind" /\ stack'[t][m + 1].ex = e
      BY <1>3, <1>8
    <2>3. eh' = IF e \in ForeignObjs THEN eh ELSE [eh EXCEPT ![t].uncaught = @ + 1]
      BY <1>0
    <2>4. m \in Nat /\ m <= Depth(t) /\ Kept(t, m) /\ Depth(t)' = m + 1 /\ e \in Blocks /\ e \notin Objs
      BY <1>1, <1>6, <1>8
    <2> QED BY <1>2, <1>10, <2>1, <2>2, <2>3, <2>4, NewFlight
  <1>12. TypeOK'
    <2>1. header' \in [Blocks -> HeaderType]
      <3>1. header' \in [Blocks -> HeaderType] <=> \A c \in Blocks : header'[c] \in HeaderType
        BY <1>i, <1>0 DEF TypeOK
      <3> QED BY <1>i, <1>4, <1>5, <3>1 DEF TypeOK
    <2> QED BY <1>i, <1>0, <1>7, <1>11, <2>1 DEF TypeOK
  <1>13. DestroysOK' /\ \A d : InDestroy(d)' <=> InDestroy(d)
    BY <1>i, <1>9, <1>10, DestroyFrame
  <1>14. ConstructsOK' /\ \A d : InConstruct(d)' <=> InConstruct(d)
    BY <1>i, <1>9, <1>10, ConstructFrame
  <1>15. \A d : Built(d)' <=> Built(d)
    BY <1>10 DEF Built
  <1>16. LiveOK'
    <2>1. \A d : Live(d) => d # e /\ d \in Blocks
      BY <1>2, ScopeClasses
    <2> QED BY <1>i, <1>4, <1>5, <1>11, <1>15, <2>1 DEF LiveOK
  <1>17. ASSUME NEW d \in Blocks PROVE HeaderOK(d)'
    <2>1. CASE d = e
      BY <1>5, <1>11, <2>1 DEF HeaderOK
    <2>2. CASE d # e
      <3>1. HeaderOK(d) /\ header'[d] = header[d]
        BY <1>i, <1>4, <2>2 DEF HeadersOK
      <3> QED BY <1>11, <1>13, <1>14, <1>15, <3>1, HeaderFrame
    <2> QED BY <2>1, <2>2
  <1>18. PtrsOK'
    BY <1>i, <1>0, <1>15 DEF PtrsOK
  <1>19. ASSUME NEW d \in Objs PROVE RefOK(d)' /\ OwnStep(d)
    <2>1. RefOK(d) /\ header'[d] = header[d] /\ d # e
      BY <1>i, <1>1, <1>10 DEF RefsOK
    <2>2. Holders(d)' = Holders(d)
      BY <1>0, <1>10, <1>11, <2>1, HoldersSame
    <2> QED BY <2>1, <2>2, RefFrame
  <1> QED BY <1>11, <1>12, <1>13, <1>14, <1>16, <1>17, <1>18, <1>19 DEF IInv, HeadersOK, RefsOK, OwnersStep

LEMMA MakeExceptionPtrInv ==
    ASSUME IInv, NEW t \in Threads, NEW s \in Slots, MakeExceptionPtr(t, s)
    PROVE  IInv' /\ OwnersStep
  <1>e. PICK e : e = Top(t).ex
    OBVIOUS
  <1> DEFINE m == Depth(t) - 1
  <1>i. TypeOK /\ ThreadsLinked /\ OneThread /\ ConstructsOK /\ DestroysOK /\ LiveOK /\ HeadersOK
        /\ PtrsOK /\ RefsOK
    BY DEF IInv
  <1>0. /\ In(t, "construct") /\ Top(t).aux = "ptr" /\ ptr[s] = Null
        /\ header' = [header EXCEPT ![e].referenceCount = @ + 1, ![e].object = "built"]
        /\ eh' = eh /\ ptr' = [ptr EXCEPT ![s] = e] /\ stack' = Replace(t, 1, << >>)
    BY <1>e DEF MakeExceptionPtr
  <1>1. /\ Depth(t) \in Nat /\ Depth(t) >= 1 /\ Depth(t) \in Pos(t) /\ 1 \in 0 .. Depth(t)
        /\ stack[t][Depth(t)] = Top(t) /\ Top(t) \in ScopeType /\ Top(t).kind = "construct"
    BY <1>i, <1>0, TopScope
  <1>2. /\ e \in Objs /\ e \in Blocks /\ e \notin ForeignObjs /\ header[e] \in HeaderType
        /\ header[e].class = "primary" /\ header[e].referenceCount = 0 /\ header[e].object = "none"
    <2>1. ConstructOK(Top(t))
      BY <1>i, <1>1 DEF ConstructsOK
    <2>2. e \in Objs /\ header[e] = InitPrimary(Raw)
      BY <1>0, <1>e, <2>1 DEF ConstructOK
    <2> QED BY <2>2, RawHeader, InitPrimaryHeader, ExceptionsAssumption DEF Blocks
  <1>3. ~Live(e) /\ ~Built(e) /\ ~InDestroy(e)
    <2>1. ~Built(e)
      BY <1>2 DEF Built
    <2>2. e # Null
      BY <1>2, ExceptionsAssumption
    <2> QED BY <1>2, <2>1, <2>2, ScopeClasses
  <1>4. /\ header'[e] = [header[e] EXCEPT !.referenceCount = @ + 1, !.object = "built"]
        /\ \A d \in Blocks : d # e => header'[d] = header[d]
    BY <1>i, <1>0, <1>2 DEF TypeOK
  <1>5. /\ header'[e] \in HeaderType /\ header'[e].class = "primary" /\ header'[e].object = "built"
        /\ header'[e].referenceCount = 1 /\ header'[e].exceptionDestructor
    <2>1. header[e].referenceCount + 1 = 1 /\ HeaderOK(e)
      BY <1>i, <1>2 DEF HeadersOK
    <2>2. header'[e] = [header[e] EXCEPT !.referenceCount = 1, !.object = "built"]
      BY <1>4, <2>1
    <2>3. header'[e] \in HeaderType
      <3> DEFINE h == header[e]
                 g == header'[e]
      <3>1. h \in HeaderType /\ g = [h EXCEPT !.referenceCount = 1, !.object = "built"]
        BY <1>2, <2>2
      <3> HIDE DEF g, h
      <3>2. g \in HeaderType
        BY <3>1, HeaderUpdates, Zenon
      <3> QED BY <3>2 DEF g
    <2>4. header'[e].exceptionDestructor = header[e].exceptionDestructor
      BY <1>2, <2>2 DEF HeaderType
    <2>5. header[e].exceptionDestructor
      BY <1>2, <2>1 DEF HeaderOK
    <2> QED BY <1>2, <2>2, <2>3, <2>4, <2>5 DEF HeaderType
  <1>6. /\ stack' \in [Threads -> Seq(ScopeType)] /\ Kept(t, m) /\ m \in Nat
        /\ Depth(t)' = m
    BY <1>i, <1>0, <1>1, Replace0
  <1>7. SameScopes({"destroy"}) /\ SubScopes({"construct"})
    BY <1>1, <1>6 DEF SameScopes, SubScopes, Kept, Pos
  <1>8. SameLive
    BY <1>1, <1>6 DEF SameLive, Kept, Pos, LiveKinds
  <1>9. Objs \subseteq Blocks
    BY DEF Blocks
  <1>10. ThreadsLinked' /\ OneThread' /\ \A d : Live(d)' <=> Live(d)
    <2>1. \A d \in Objs : Live(d) => header'[d] = header[d]
      BY <1>3, <1>4, <1>9
    <2> QED BY <1>i, <1>0, <1>8, <2>1, SameLiveStep
  <1>11. TypeOK'
    <2>1. header' \in [Blocks -> HeaderType]
      <3>1. header' \in [Blocks -> HeaderType] <=> \A c \in Blocks : header'[c] \in HeaderType
        BY <1>i, <1>0 DEF TypeOK
      <3> QED BY <1>i, <1>4, <1>5, <3>1 DEF TypeOK
    <2> QED BY <1>i, <1>0, <1>2, <1>6, <2>1 DEF TypeOK
  <1>12. DestroysOK' /\ \A d : InDestroy(d)' <=> InDestroy(d)
    <2>1. \A d \in Objs : InDestroy(d) => header'[d] = header[d]
      BY <1>3, <1>4, <1>9
    <2> QED BY <1>i, <1>7, <2>1, DestroyFrame
  <1>13. \A d : d # e /\ InConstruct(d) => InConstruct(d)'
    <2>1. \A u \in Threads : \A j \in Pos(u) : u # t \/ j # Depth(t) =>
              j \in Pos(u)' /\ stack'[u][j] = stack[u][j]
      BY <1>1, <1>6 DEF Kept, Pos
    <2> QED BY <1>e, <1>1, <2>1 DEF InConstruct
  <1>14. ConstructsOK'
    <2>1. ASSUME NEW u \in Threads, NEW j \in Pos(u)', stack'[u][j].kind = "construct"
          PROVE  /\ j \in Pos(u) /\ stack'[u][j] = stack[u][j]
                 /\ header'[stack[u][j].ex] = header[stack[u][j].ex]
      <3>1. j \in Pos(u) /\ stack'[u][j] = stack[u][j]
        BY <1>7, <2>1 DEF SubScopes
      <3>2. ConstructOK(stack[u][j])
        BY <1>i, <2>1, <3>1 DEF ConstructsOK
      <3>3. ~(u = t /\ j = Depth(t))
        BY <1>1, <1>6 DEF Pos
      <3>4. stack[u][j].ex # e
        BY <1>i, <1>e, <1>1, <2>1, <3>1, <3>3 DEF ConstructsOK
      <3> QED BY <1>4, <1>9, <3>1, <3>2, <3>4 DEF ConstructOK
    <2> QED BY <1>i, <2>1, ConstructSub
  <1>15. \A d : Built(d)' <=> Built(d) \/ d = e
    BY <1>2, <1>4, <1>5, <1>9 DEF Built
  <1>16. LiveOK'
    <2>1. \A d : Live(d) => d # e /\ d \in Blocks
      BY <1>3, ScopeClasses
    <2> QED BY <1>i, <1>4, <1>10, <1>15, <2>1 DEF LiveOK
  <1>17. HeadersOK'
    <2> DEFINE S == {e}
    <2>1. HeaderOK(e)'
      BY <1>2, <1>5 DEF HeaderOK
    <2>2. ASSUME NEW d \in Blocks, d \notin S
          PROVE  /\ Counted(d)
                 /\ InConstruct(d) => InConstruct(d)'
                 /\ InDestroy(d) => InDestroy(d)'
                 /\ Live(d) => Live(d)'
                 /\ header[d].class = "dependent" => Built(header[d].primaryException)'
      BY <1>i, <1>4, <1>10, <1>12, <1>13, <1>15, <2>2 DEF Counted, HeadersOK, HeaderOK
    <2>3. \A d \in Blocks : d \in S => HeaderOK(d)'
      BY <2>1
    <2> HIDE DEF S
    <2> QED BY <1>i, <2>2, <2>3, HeadersStep
  <1>18. PtrsOK'
    BY <1>i, <1>0, <1>15 DEF PtrsOK, TypeOK
  <1>19. ASSUME NEW d \in Objs PROVE RefOK(d)' /\ OwnStep(d)
    <2>0. e # Null
      BY <1>2, ExceptionsAssumption
    <2>1. \A v \in Slots : ptr'[v] = IF v = s THEN e ELSE ptr[v]
      BY <1>i, <1>0 DEF TypeOK
    <2>2. \A b \in Objs : header'[b].class = header[b].class
                          /\ (header[b].class = "dependent" => header'[b] = header[b])
      BY <1>2, <1>4, <1>5, <1>9
    <2>3. CASE d = e
      <3>1. Holders(e) = {}
        BY <1>2, <1>3, NoHolders
      <3>2. ~Thrown(e)'
        <4>1. ~Live(e)'
          BY <1>3, <1>10
        <4> QED BY <4>1 DEF Thrown, Live, Scopes, Pos, LiveKinds
      <3>3. Holders(e)' = {s}
        BY <2>1, <2>2, <3>1, <3>2 DEF Holders, isDependent
      <3>4. Cardinality(Holders(e)') = 1
        BY <3>3, FS_Singleton
      <3>5. RefOK(e)'
        BY <1>5, <3>4 DEF RefOK
      <3>6. header[e].object # "built" /\ Built(e)'
        BY <1>2, <1>5 DEF Built
      <3> QED BY <1>2, <2>3, <3>3, <3>5, <3>6, OwnCreate
    <2>4. CASE d # e
      <3>1. RefOK(d) /\ header'[d] = header[d]
        BY <1>i, <1>4, <1>9, <2>4 DEF RefsOK
      <3>2. \A v \in Slots : ptr'[v] = d <=> ptr[v] = d
        BY <1>0, <2>1, <2>4, ExceptionsAssumption
      <3>3. Holders(d)' = Holders(d)
        BY <1>10, <2>2, <3>2, HoldersSame
      <3> QED BY <3>1, <3>3, RefFrame
    <2> QED BY <2>3, <2>4
  <1> QED BY <1>10, <1>11, <1>12, <1>14, <1>16, <1>17, <1>18, <1>19 DEF IInv, RefsOK, OwnersStep

LEMMA DestructorReturnsInv ==
    ASSUME IInv, NEW t \in Threads, DestructorReturns(t)
    PROVE  IInv' /\ OwnersStep
  <1>e. PICK e : e = Top(t).ex
    OBVIOUS
  <1>a. PICK a : a = Top(t).aux
    OBVIOUS
  <1> DEFINE m == Depth(t) - 1
  <1>i. TypeOK /\ ThreadsLinked /\ OneThread /\ ConstructsOK /\ DestroysOK /\ LiveOK /\ HeadersOK
        /\ PtrsOK /\ RefsOK
    BY DEF IInv
  <1>0. /\ In(t, "destroy") /\ eh' = eh /\ ptr' = ptr /\ stack' = Replace(t, 1, << >>)
        /\ header' = [d \in Blocks |-> IF d \in {e, a} THEN Freed ELSE header[d]]
    BY <1>e, <1>a DEF DestructorReturns
  <1>1. /\ Depth(t) \in Nat /\ Depth(t) >= 1 /\ Depth(t) \in Pos(t) /\ 1 \in 0 .. Depth(t)
        /\ stack[t][Depth(t)] = Top(t) /\ Top(t).kind = "destroy"
    BY <1>i, <1>0, TopScope
  <1>2. DestroyOK(Top(t))
    BY <1>i, <1>1 DEF DestroysOK
  <1>3. \A d \in Blocks : /\ d \in {e, a} => header[d].class = "dying" /\ header'[d] = Freed
                          /\ d \notin {e, a} => header'[d] = header[d]
    BY <1>e, <1>a, <1>0, <1>2, ExceptionsAssumption DEF DestroyOK, Blocks
  <1>4. \A d \in Blocks : d \in {e, a} => ~InConstruct(d) /\ ~Live(d) /\ ~Built(d)
    <2>1. SUFFICES ASSUME NEW d \in Blocks, header[d].class = "dying"
                   PROVE  ~InConstruct(d) /\ ~Live(d) /\ ~Built(d)
      BY <1>3
    <2>2. ~Built(d)
      BY <2>1 DEF Built
    <2> QED BY <2>1, <2>2, ScopeClasses DEF Blocks
  <1>5. /\ stack' \in [Threads -> Seq(ScopeType)] /\ Kept(t, m) /\ m \in Nat
        /\ Depth(t)' = m
    BY <1>i, <1>0, <1>1, Replace0
  <1>6. SameScopes({"construct"}) /\ SubScopes({"destroy"})
    BY <1>1, <1>5 DEF SameScopes, SubScopes, Kept, Pos
  <1>7. SameLive
    BY <1>1, <1>5 DEF SameLive, Kept, Pos, LiveKinds
  <1>8. Objs \subseteq Blocks
    BY DEF Blocks
  <1>9. ThreadsLinked' /\ OneThread' /\ \A d : Live(d)' <=> Live(d)
    <2>1. \A d \in Objs : Live(d) => header'[d] = header[d]
      BY <1>3, <1>4, <1>8
    <2> QED BY <1>i, <1>0, <1>7, <2>1, SameLiveStep
  <1>10. TypeOK'
    <2>1. header' \in [Blocks -> HeaderType]
      BY <1>i, <1>0, HeaderUpdates DEF TypeOK
    <2> QED BY <1>i, <1>0, <1>5, <2>1 DEF TypeOK
  <1>11. ConstructsOK' /\ \A d : InConstruct(d)' <=> InConstruct(d)
    <2>1. \A d \in Objs : InConstruct(d) => header'[d] = header[d]
      BY <1>3, <1>4, <1>8
    <2> QED BY <1>i, <1>6, <2>1, ConstructFrame
  <1>12. \A d : d \notin {e, a} /\ InDestroy(d) => InDestroy(d)'
    <2>1. \A u \in Threads : \A j \in Pos(u) : u # t \/ j # Depth(t) =>
              j \in Pos(u)' /\ stack'[u][j] = stack[u][j]
      BY <1>1, <1>5 DEF Kept, Pos
    <2> QED BY <1>e, <1>a, <1>1, <2>1 DEF InDestroy
  <1>13. DestroysOK'
    <2>1. ASSUME NEW u \in Threads, NEW j \in Pos(u)', stack'[u][j].kind = "destroy"
          PROVE  j \in Pos(u) /\ stack'[u][j] = stack[u][j] /\ DestroyKept(stack[u][j])
      <3>1. j \in Pos(u) /\ stack'[u][j] = stack[u][j]
        BY <1>6, <2>1 DEF SubScopes
      <3>2. DestroyOK(stack[u][j])
        BY <1>i, <2>1, <3>1 DEF DestroysOK
      <3>3. ~(u = t /\ j = Depth(t))
        BY <1>1, <1>5 DEF Pos
      <3>4. /\ stack[u][j].ex # e /\ stack[u][j].ex # a
            /\ stack[u][j].aux # Null => stack[u][j].aux # e /\ stack[u][j].aux # a
        BY <1>i, <1>e, <1>a, <1>1, <2>1, <3>1, <3>3 DEF DestroysOK
      <3> QED BY <1>3, <1>8, <3>1, <3>2, <3>4 DEF DestroyOK, DestroyKept
    <2> QED BY <1>i, <2>1, DestroySub
  <1>14. \A d : Built(d)' <=> Built(d)
    <2>1. Freed.class = "free"
      BY DEF Freed
    <2> QED BY <1>3, <1>4, <1>8, <2>1 DEF Built
  <1>15. LiveOK'
    <2>1. \A d : Live(d) => d \notin {e, a} /\ d \in Blocks
      BY <1>4, ScopeClasses
    <2> QED BY <1>i, <1>3, <1>9, <1>14, <2>1 DEF LiveOK
  <1>16. HeadersOK'
    <2> DEFINE S == {e, a}
    <2>1. ASSUME NEW d \in Blocks, d \notin S
          PROVE  /\ Counted(d)
                 /\ InConstruct(d) => InConstruct(d)'
                 /\ InDestroy(d) => InDestroy(d)'
                 /\ Live(d) => Live(d)'
                 /\ header[d].class = "dependent" => Built(header[d].primaryException)'
      BY <1>i, <1>3, <1>9, <1>11, <1>12, <1>14, <2>1 DEF Counted, HeadersOK, HeaderOK
    <2>2. \A d \in Blocks : d \in S => HeaderOK(d)'
      <3>1. Freed.class = "free"
        BY DEF Freed
      <3> QED BY <1>3, <3>1 DEF HeaderOK
    <2> HIDE DEF S
    <2> QED BY <1>i, <2>1, <2>2, HeadersStep
  <1>17. PtrsOK'
    BY <1>i, <1>0, <1>14 DEF PtrsOK
  <1>18. ASSUME NEW d \in Objs PROVE RefOK(d)' /\ OwnStep(d)
    <2>1. CASE d \in {e, a}
      <3>1. header[d].class = "dying" /\ header'[d].class = "free"
        BY <1>3, <1>8, <2>1 DEF Freed
      <3> QED BY <3>1, OwnDestroyed DEF RefOK
    <2>2. CASE d \notin {e, a}
      <3>1. RefOK(d) /\ header'[d] = header[d]
        BY <1>i, <1>3, <1>8, <2>2 DEF RefsOK
      <3>2. \A b \in Objs : (header'[b].class = "dependent" /\ header'[b].primaryException = d)
                  <=> (header[b].class = "dependent" /\ header[b].primaryException = d)
        BY <1>3, <1>8 DEF Freed
      <3>3. Holders(d)' = Holders(d)
        BY <1>0, <1>9, <3>2, HoldersSame
      <3> QED BY <3>1, <3>3, RefFrame
    <2> QED BY <2>1, <2>2
  <1> QED BY <1>9, <1>10, <1>11, <1>13, <1>15, <1>16, <1>17, <1>18 DEF IInv, RefsOK, OwnersStep
-----------------------------------------------------------------------------
(***************************************************************************)
(* exception_ptr.                                                          *)
(***************************************************************************)
\* An exception_ptr s is made to point to p.
LEMMA TakeRef ==
    ASSUME IInv, NEW s \in Slots, ptr[s] = Null, NEW p, Built(p),
           header' = [header EXCEPT ![p].referenceCount = @ + 1],
           ptr' = [ptr EXCEPT ![s] = p], eh' = eh, stack' = stack
    PROVE  IInv' /\ OwnersStep
  <1>i. TypeOK /\ ThreadsLinked /\ OneThread /\ PtrsOK /\ RefsOK
    BY DEF IInv
  <1>1. p \in Objs /\ p \in Blocks /\ header[p] \in HeaderType /\ header[p].class = "primary" /\ p # Null
    BY <1>i, ExceptionsAssumption DEF Built, Blocks, TypeOK
  <1>2. /\ header'[p] = [header[p] EXCEPT !.referenceCount = @ + 1]
        /\ \A d \in Blocks : d # p => header'[d] = header[d]
    BY <1>i, <1>1 DEF TypeOK
  <1>3. /\ header'[p].class = header[p].class /\ header'[p].object = header[p].object
        /\ header'[p].referenceCount = header[p].referenceCount + 1
        /\ header'[p].exceptionDestructor = header[p].exceptionDestructor
        /\ header'[p].primaryException = header[p].primaryException
        /\ header'[p].handlerCount = header[p].handlerCount
        /\ header'[p].nextException = header[p].nextException
        /\ header'[p] \in HeaderType
    <2>1. header[p].referenceCount + 1 \in Int
      BY <1>1 DEF HeaderType
    <2>2. header'[p] \in HeaderType
      BY <1>1, <1>2, <2>1, HeaderUpdates
    <2> QED BY <1>1, <1>2, <2>2 DEF HeaderType
  <1>4. TypeOK'
    <2>1. header' \in [Blocks -> HeaderType]
      <3>1. header' \in [Blocks -> HeaderType] <=> \A c \in Blocks : header'[c] \in HeaderType
        BY <1>i DEF TypeOK
      <3> QED BY <1>i, <1>2, <1>3, <3>1 DEF TypeOK
    <2> QED BY <1>i, <1>1, <2>1 DEF TypeOK
  <1>5. SameScopes({"construct"}) /\ SameScopes({"destroy"}) /\ SameLive
    BY DEF SameScopes, SameLive, Pos, Depth
  <1>6. Objs \subseteq Blocks
    BY DEF Blocks
  <1>7. ThreadsLinked' /\ OneThread' /\ \A e : Live(e)' <=> Live(e)
    <2>1. \A e \in Objs : /\ header'[e].handlerCount = header[e].handlerCount
                          /\ header'[e].nextException = header[e].nextException
      BY <1>2, <1>3, <1>6
    <2> QED BY <1>i, <1>5, <2>1, SameLiveStep
  <1>8. ~InConstruct(p)
    BY ScopeClasses
  <1>9. \A d \in Blocks : Counted(d)
    BY <1>1, <1>2, <1>3, <1>8 DEF Counted
  <1>10. /\ ConstructsOK' /\ DestroysOK' /\ LiveOK' /\ HeadersOK'
         /\ \A e : Built(e)' <=> Built(e)
    BY <1>5, <1>7, <1>9, CountingStep
  <1>11. \A v \in Slots : ptr'[v] = IF v = s THEN p ELSE ptr[v]
    BY <1>i DEF TypeOK
  <1>12. PtrsOK'
    BY <1>i, <1>10, <1>11 DEF PtrsOK
  <1>13. ASSUME NEW d \in Objs PROVE RefOK(d)' /\ OwnStep(d)
    <2>0. RefOK(d)
      BY <1>i DEF RefsOK
    <2>1. \A b \in Objs : /\ header'[b].class = header[b].class
                          /\ header'[b].primaryException = header[b].primaryException
      BY <1>2, <1>3, <1>6
    <2>2. CASE d = p
      <3>1. s \notin Holders(p)
        BY <1>1, ExceptionsAssumption DEF Holders
      <3>2. Thrown(p)' <=> Thrown(p)
        BY DEF Thrown, Scopes, Depth
      <3>3. Holders(p)' = Plus(Holders(p), s)
        BY <1>11, <2>1, <3>2 DEF Holders, isDependent, Plus
      <3> QED BY <1>1, <1>3, <1>10, <2>0, <2>2, <3>1, <3>3, RefAdd
    <2>3. CASE d # p
      <3>1. header'[d] = header[d]
        BY <1>2, <1>6, <2>3
      <3>2. d # Null
        BY ExceptionsAssumption
      <3>3. \A v \in Slots : ptr'[v] = d <=> ptr[v] = d
        BY <1>11, <2>3, <3>2
      <3>4. Holders(d)' = Holders(d)
        BY <1>7, <2>1, <3>3, HoldersSame
      <3> QED BY <2>0, <3>1, <3>4, RefFrame
    <2> QED BY <2>2, <2>3
  <1> QED BY <1>4, <1>7, <1>10, <1>12, <1>13 DEF IInv, RefsOK, OwnersStep

LEMMA CopyPtrInv ==
    ASSUME IInv, NEW t \in Threads, NEW s \in Slots, NEW s2 \in Slots, CopyPtr(t, s, s2)
    PROVE  IInv' /\ OwnersStep
  <1>p. PICK p : p = ptr[s]
    OBVIOUS
  <1>1. Built(p)
    BY <1>p DEF IInv, PtrsOK, CopyPtr
  <1> QED BY <1>p, <1>1, TakeRef DEF CopyPtr

\* The current exception of a thread, if it is one of C++.
LEMMA CurrentIsLive ==
    ASSUME IInv, NEW t \in Threads, Current(t) # Null
    PROVE  /\ LiveIn(t, Current(t)) /\ Live(Current(t)) /\ Current(t) \in Blocks
           /\ \E i \in AllHandlers(t) : /\ stack[t][i].ex = Current(t)
                                        /\ \A j \in AllHandlers(t) : j <= i
  <1> DEFINE H == AllHandlers(t)
             U == Flights(t)
             x == Exs(t)
             r == eh[t]
  <1>1. Linked(H, U, x, header, r) /\ TypeOK
    BY DEF IInv, ThreadsLinked, ThreadLinked
  <1>2. r.caught # Null
    BY DEF Current
  <1>3. \A i \in H \cup U : LiveIn(t, x[i]) /\ x[i] = stack[t][i].ex
    BY <1>1, PositionsHere
  <1> HIDE DEF H, U, x, r
  <1>4. \E i \in H : x[i] = r.caught /\ \A j \in H : j <= i
    BY <1>1, <1>2, InnermostHandler
  <1>5. LiveIn(t, r.caught) /\ \E i \in H : stack[t][i].ex = r.caught /\ \A j \in H : j <= i
    BY <1>3, <1>4
  <1>6. Live(r.caught)
    BY <1>5 DEF Live, LiveIn
  <1> QED BY <1>5, <1>6, ScopeClasses DEF Current, r, H

LEMMA CurrentExceptionInv ==
    ASSUME IInv, ProperUse, NEW t \in Threads, NEW s \in Slots, CurrentException(t, s)
    PROVE  IInv' /\ OwnersStep /\ program' = program
  <1>c. PICK c : c = Current(t)
    OBVIOUS
  <1>1. c # Null /\ c \in Objs
    <2>1. c # Null /\ ~isForeign(c)
      BY <1>c DEF CurrentException, ProperUse
    <2> QED BY <1>c, <2>1, CurrentIsLive DEF isForeign, Blocks
  <1>2. ~isForeign(c)
    BY <1>1, ExceptionsAssumption DEF isForeign
  <1>3. Built(c) \/ header[c].class = "dependent"
    BY <1>c, <1>1, CurrentIsLive, ScopeClasses
  <1>4. header[c].class = "dependent" => Built(header[c].primaryException)
    BY <1>1 DEF IInv, HeadersOK, HeaderOK, Blocks
  <1>5. Built(realException(c))
    BY <1>3, <1>4 DEF realException, isDependent, Built
  <1>p. PICK p : p = realException(c)
    OBVIOUS
  <1> QED BY <1>c, <1>p, <1>2, <1>5, TakeRef DEF CurrentException

-----------------------------------------------------------------------------
(***************************************************************************)
(* Rethrowing.                                                             *)
(***************************************************************************)
\* The current exception takes off again; the thread info and the sign of its
\* handler count say so.
LEMMA RethrowStep ==
    ASSUME IInv, NEW t \in Threads, NEW e \in Blocks, e = Current(t),
           stack' = Replace(t, 0, << Scope("unwind", e, "search") >>), ptr' = ptr,
           \A u \in Threads : u # t => eh'[u] = eh[u], eh' \in [Threads -> ThreadInfo],
           header' \in [Blocks -> HeaderType],
           \A d \in Blocks : d # e => header'[d] = header[d],
           Counted(e), header'[e].referenceCount = header[e].referenceCount,
           /\ Linked(AllHandlers(t), Flights(t), Exs(t), header, eh[t])
           /\ Depth(t) + 1 \in Nat \ {0}
           /\ \A i \in AllHandlers(t) \cup Flights(t) : i < Depth(t) + 1
           /\ \A i \in AllHandlers(t) \cup Flights(t) : Exs(t)'[i] = Exs(t)[i]
           /\ Exs(t)'[Depth(t) + 1] = e
           => Linked(AllHandlers(t), Flights(t) \cup {Depth(t) + 1}, Exs(t)', header', eh'[t])
    PROVE  IInv' /\ OwnersStep
  <1> DEFINE f == Scope("unwind", e, "search")
             m == Depth(t)
  <1>i. TypeOK /\ ThreadsLinked /\ OneThread
    BY DEF IInv
  <1>1. f \in ScopeType /\ f.kind = "unwind" /\ f.ex = e
    BY DEF Scope, ScopeType, LiveKinds
  <1>2. m \in Nat /\ 0 \in 0 .. Depth(t)
    BY <1>i DEF TypeOK, Depth
  <1>3. stack' = Replace(t, 0, << f >>)
    OBVIOUS
  <1>l. LiveIn(t, e) /\ e # Null
    <2>1. e # Null
      BY ExceptionsAssumption DEF Blocks
    <2> QED BY <2>1, CurrentIsLive
  <1> HIDE DEF f
  <1>4. /\ stack' \in [Threads -> Seq(ScopeType)] /\ Kept(t, Depth(t) - 0)
        /\ Depth(t)' = Depth(t) - 0 + 1 /\ stack'[t][Depth(t) - 0 + 1] = f
    <2>1. f \in ScopeType
      BY <1>1
    <2> QED BY <1>i, <1>2, <1>3, <2>1, Replace1
  <1>5. m <= Depth(t) /\ Kept(t, m) /\ Depth(t)' = m + 1 /\ stack'[t][m + 1] = f
    BY <1>2, <1>4
  <1>6. /\ SameScopes({"construct"}) /\ SameScopes({"destroy"})
        /\ \A i \in Pos(t) : ~(i > m)
    BY <1>1, <1>2, <1>5, PushKeeps
  <1>7. /\ AllHandlers(t)' = AllHandlers(t)
        /\ Flights(t)' = Flights(t) \cup {m + 1}
        /\ \A i \in AllHandlers(t) \cup Flights(t) : i < m + 1 /\ Exs(t)'[i] = Exs(t)[i]
        /\ Exs(t)'[m + 1] = e
        /\ \A d : LiveIn(t, d)' <=> LiveIn(t, d) \/ d = e
    <2>1. stack'[t][m + 1].kind = "unwind" /\ stack'[t][m + 1].ex = e
      BY <1>1, <1>5
    <2>2. \A i \in Pos(t) : i > m => stack[t][i].kind \notin LiveKinds
      BY <1>6
    <2>3. m \in Nat /\ m <= Depth(t) /\ Kept(t, m) /\ Depth(t)' = m + 1
      BY <1>2, <1>5
    <2> HIDE DEF m
    <2> QED BY <1>i, <2>1, <2>2, <2>3, FlightPush
  <1>8. ThreadLinked(t)'
    <2>1. Linked(AllHandlers(t), Flights(t), Exs(t), header, eh[t]) /\ m + 1 \in Nat \ {0}
      BY <1>i, <1>2 DEF ThreadsLinked, ThreadLinked
    <2>2. Linked(AllHandlers(t), Flights(t) \cup {m + 1}, Exs(t)', header', eh'[t])
      BY <1>7, <2>1
    <2> QED BY <1>7, <2>2 DEF ThreadLinked
  <1>9. Objs \subseteq Blocks
    BY DEF Blocks
  <1>10. /\ ThreadsLinked' /\ OneThread' /\ \A d : Live(d)' <=> Live(d)
    <2>1. \A d \in Objs : Live(d) /\ ~LiveIn(t, d) => header'[d] = header[d]
      BY <1>9, <1>l
    <2>2. /\ ThreadsLinked' /\ OneThread'
          /\ \A d : Live(d)' <=> LiveIn(t, d)' \/ (Live(d) /\ ~LiveIn(t, d))
      <3>1. \A d : LiveIn(t, d)' => LiveIn(t, d) \/ ~Live(d)
        BY <1>7, <1>l
      <3> QED BY <1>i, <1>5, <1>8, <2>1, <3>1, OthersStep
    <2>3. \A d : LiveIn(t, d) => Live(d)
      BY DEF Live, LiveIn
    <2> QED BY <1>7, <1>l, <2>2, <2>3
  <1>11. TypeOK'
    BY <1>i, <1>4 DEF TypeOK
  <1>12. \A d \in Blocks : Counted(d)
    BY DEF Counted
  <1>13. \A d \in Objs : header'[d].referenceCount = header[d].referenceCount
    BY <1>9
  <1> QED BY <1>6, <1>10, <1>11, <1>12, <1>13, QuietStep

\* The handler that Innermost chooses.
LEMMA InnermostIs ==
    ASSUME NEW t \in Threads, NEW I, I \subseteq Nat, NEW i \in I, \A j \in I : j <= i
    PROVE  Innermost(t, I) = stack[t][i].ex
  <1>1. \A j \in I : (\A k \in I : k <= j) => j = i
    BY DEF Innermost
  <1>2. (CHOOSE j \in I : \A k \in I : k <= j) = i
    BY <1>1
  <1> QED BY <1>2 DEF Innermost

\* What the program handles and is not in flight has a positive handlerCount,
\* as the assertion of __cxa_rethrow asks for.
LEMMA RethrowCount ==
    ASSUME IInv, NEW t \in Threads, Current(t) # Null, eh[t].foreign = "none"
    PROVE  /\ ~isForeign(Current(t))
           /\ ~Propagates(t, Innermost(t, AllHandlers(t))) => header[Current(t)].handlerCount > 0
  <1>i. ThreadsLinked /\ TypeOK
    BY DEF IInv
  <1> DEFINE H == AllHandlers(t)
             U == Flights(t)
             x == Exs(t)
             e == Current(t)
  <1>1. Linked(H, U, x, header, eh[t])
    BY <1>i DEF ThreadsLinked, ThreadLinked
  <1>2. Positions(H, U, x) /\ H \subseteq Nat
    <2>1. Positions(H, U, x)
      BY <1>1 DEF Linked
    <2> HIDE DEF H, U, x
    <2> QED BY <2>1, PositionsFinite
  <1>3. PICK i \in H : \A j \in H : j <= i
    <2>1. H # {}
      BY <1>1 DEF Linked, HeadIs, Current
    <2> HIDE DEF H, U, x
    <2> QED BY <1>2, <2>1, PositionsFinite
  <1>4. e = x[i] /\ x[i] = stack[t][i].ex
    BY <1>1, <1>3, <1>i, PositionsHere DEF Linked, HeadIs, Current
  <1>5. e \in Objs /\ e \notin ForeignObjs
    <2>1. x[i] \notin ForeignObjs
      BY <1>1, <1>3 DEF Linked, ForeignIs
    <2>2. x[i] \in Blocks
      BY <1>2, <1>3 DEF Positions
    <2> QED BY <1>4, <2>1, <2>2 DEF Blocks
  <1>6. ASSUME ~Propagates(t, Innermost(t, H)) PROVE header[e].handlerCount > 0
    <2>1. Innermost(t, H) = e
      <3> HIDE DEF H, x
      <3> QED BY <1>2, <1>3, <1>4, InnermostIs
    <2>2. \A j \in U : x[j] # e
      <3>1. \A j \in U : j \in 1 .. Depth(t) /\ stack[t][j].kind = "unwind" /\ x[j] = stack[t][j].ex
        BY DEF Flights, Pos, Exs
      <3> QED BY <1>6, <2>1, <3>1 DEF Propagates
    <2>3. header[e].handlerCount = Cardinality(Handling(H, x, e))
      BY <1>1, <1>3, <1>4, <1>5, <2>2 DEF Linked, CountIs
    <2>4. Cardinality(Handling(H, x, e)) \in Nat /\ Cardinality(Handling(H, x, e)) # 0
      <3> HIDE DEF H, U, x, e
      <3> QED BY <1>2, <1>3, <1>4, HandlingFinite
    <2> QED BY <2>3, <2>4
  <1> QED BY <1>5, <1>6 DEF isForeign

LEMMA RethrowInv ==
    ASSUME IInv, NEW t \in Threads, Rethrow(t), ~isForeign(Current(t)),
           header[Current(t)].handlerCount > 0
    PROVE  IInv' /\ OwnersStep /\ program' = program
  <1>e. PICK e : e = Current(t)
    OBVIOUS
  <1>i. TypeOK /\ ThreadsLinked
    BY DEF IInv
  <1>0. /\ e # Null /\ eh[t].foreign = "none" /\ ~isForeign(e) /\ header[e].handlerCount > 0
        /\ header' = [header EXCEPT ![e].handlerCount = -@]
        /\ eh' = [eh EXCEPT ![t].uncaught = @ + 1] /\ ptr' = ptr
        /\ stack' = Replace(t, 0, << Scope("unwind", e, "search") >>)
        /\ program' = program
    BY <1>e DEF Rethrow
  <1>1. Live(e) /\ e \in Blocks /\ e \in Objs
    BY <1>e, <1>0, CurrentIsLive DEF isForeign, Blocks
  <1>2. header[e] \in HeaderType /\ header[e].handlerCount \in Int /\ eh[t] \in ThreadInfo
    BY <1>i, <1>1 DEF TypeOK, HeaderType
  <1>3. /\ header'[e] = [header[e] EXCEPT !.handlerCount = -header[e].handlerCount]
        /\ \A d \in Blocks : d # e => header'[d] = header[d]
    BY <1>i, <1>0, <1>1 DEF TypeOK
  <1>4. header'[e] \in HeaderType
    <2>1. -header[e].handlerCount \in Int
      BY <1>2
    <2> QED BY <1>2, <1>3, <2>1, HeaderUpdates
  <1>5. header' \in [Blocks -> HeaderType]
    <2>1. header' \in [Blocks -> HeaderType] <=> \A c \in Blocks : header'[c] \in HeaderType
      BY <1>i, <1>0 DEF TypeOK
    <2> QED BY <1>i, <1>3, <1>4, <2>1 DEF TypeOK
  <1>6. /\ header'[e].handlerCount = -header[e].handlerCount
        /\ header'[e].nextException = header[e].nextException
        /\ header'[e].referenceCount = header[e].referenceCount
        /\ header'[e].class = header[e].class /\ header'[e].object = header[e].object
        /\ header'[e].exceptionDestructor = header[e].exceptionDestructor
        /\ header'[e].primaryException = header[e].primaryException
    BY <1>2, <1>3 DEF HeaderType
  <1>7. Built(e) \/ header[e].class = "dependent"
    BY <1>1, ScopeClasses
  <1>8. Counted(e)
    <2>1. ~InConstruct(e) /\ header[e].class \in {"primary", "dependent"}
      BY <1>7, ScopeClasses DEF Built
    <2> QED BY <1>6, <2>1 DEF Counted
  <1>9. /\ eh' \in [Threads -> ThreadInfo] /\ \A u \in Threads : u # t => eh'[u] = eh[u]
        /\ eh'[t].caught = eh[t].caught /\ eh'[t].foreign = eh[t].foreign
        /\ eh'[t].uncaught = eh[t].uncaught + 1
    <2> DEFINE r == eh[t]
    <2>1. eh' = [eh EXCEPT ![t] = [r EXCEPT !.uncaught = r.uncaught + 1]]
      BY <1>0
    <2>2. [r EXCEPT !.uncaught = r.uncaught + 1] \in ThreadInfo
      BY <1>2 DEF ThreadInfo
    <2>3. eh'[t] = [r EXCEPT !.uncaught = r.uncaught + 1] /\ \A u \in Threads : u # t => eh'[u] = eh[u]
      BY <1>i, <2>1 DEF TypeOK
    <2>4. eh' \in [Threads -> ThreadInfo]
      BY <1>i, <2>1, <2>2 DEF TypeOK
    <2> QED BY <1>2, <2>3, <2>4 DEF ThreadInfo
  <1> DEFINE H == AllHandlers(t)
             U == Flights(t)
             x == Exs(t)
             y == Exs(t)'
             r == eh[t]
             q == eh'[t]
             p == Depth(t) + 1
  <1>10. /\ Linked(H, U, x, header, r) /\ p \in Nat \ {0}
         /\ \A i \in H \cup U : i < p
         /\ \A i \in H \cup U : y[i] = x[i]
         /\ y[p] = e
         => Linked(H, U \cup {p}, y, header', q)
    <2>1. \A i \in H \cup U : x[i] \in Objs /\ x[i] # e =>
              /\ header'[x[i]].handlerCount = header[x[i]].handlerCount
              /\ header'[x[i]].nextException = header[x[i]].nextException
      BY <1>3 DEF Blocks
    <2>2. e = r.caught /\ r \in ThreadInfo /\ q.caught = r.caught /\ q.foreign = r.foreign
          /\ q.uncaught = r.uncaught + 1
      BY <1>e, <1>2, <1>9 DEF Current
    <2> HIDE DEF H, U, x, y, r, q, p
    <2>g. PICK g, z, k : g = header' /\ z = y /\ k = q
      OBVIOUS
    <2>s. SUFFICES ASSUME Linked(H, U, x, header, r), p \in Nat \ {0},
                          \A i \in H \cup U : i < p, \A i \in H \cup U : z[i] = x[i], z[p] = e
                   PROVE  Linked(H, U \cup {p}, z, g, k)
      BY <2>g
    <2>3. e \in Objs /\ e = r.caught /\ r \in ThreadInfo
      BY <1>0, <1>1, <2>2
    <2>4. header[e].handlerCount > 0 /\ header[e].handlerCount \in Int
      BY <1>0, <1>2
    <2>5. g[e].handlerCount = -header[e].handlerCount /\ g[e].nextException = header[e].nextException
      BY <1>6, <2>g
    <2>6. k.caught = r.caught /\ k.foreign = r.foreign /\ k.uncaught = r.uncaught + 1
      BY <2>2, <2>g
    <2>7. \A i \in H \cup U : x[i] \in Objs /\ x[i] # e =>
              /\ g[x[i]].handlerCount = header[x[i]].handlerCount
              /\ g[x[i]].nextException = header[x[i]].nextException
      BY <2>1, <2>g
    <2> QED BY ONLY <2>s, <2>3, <2>4, <2>5, <2>6, <2>7, LinkedRethrow
  <1>11. IInv' /\ OwnersStep
    BY <1>e, <1>0, <1>1, <1>3, <1>5, <1>6, <1>8, <1>9, <1>10, RethrowStep
  <1> QED BY <1>0, <1>11

LEMMA RethrowForeignInv ==
    ASSUME IInv, NEW t \in Threads, RethrowForeign(t)
    PROVE  IInv' /\ OwnersStep
  <1>e. PICK e : e = Current(t)
    OBVIOUS
  <1>i. TypeOK /\ ThreadsLinked
    BY DEF IInv
  <1>0. /\ e # Null /\ eh[t].foreign # "none" /\ header' = header
        /\ eh' = [eh EXCEPT ![t].foreign = "rethrown"] /\ ptr' = ptr
        /\ stack' = Replace(t, 0, << Scope("unwind", e, "search") >>)
    BY <1>e DEF RethrowForeign
  <1>1. e \in Blocks
    BY <1>e, <1>0, CurrentIsLive
  <1>2. eh[t] \in ThreadInfo
    BY <1>i DEF TypeOK
  <1>3. /\ eh' \in [Threads -> ThreadInfo] /\ \A u \in Threads : u # t => eh'[u] = eh[u]
        /\ eh'[t].caught = eh[t].caught /\ eh'[t].foreign = "rethrown"
        /\ eh'[t].uncaught = eh[t].uncaught
    <2> DEFINE r == eh[t]
    <2>1. eh' = [eh EXCEPT ![t] = [r EXCEPT !.foreign = "rethrown"]]
      BY <1>0
    <2>2. [r EXCEPT !.foreign = "rethrown"] \in ThreadInfo
      BY <1>2 DEF ThreadInfo
    <2>3. eh'[t] = [r EXCEPT !.foreign = "rethrown"] /\ \A u \in Threads : u # t => eh'[u] = eh[u]
      BY <1>i, <2>1 DEF TypeOK
    <2>4. eh' \in [Threads -> ThreadInfo]
      BY <1>i, <2>1, <2>2 DEF TypeOK
    <2> QED BY <1>2, <2>3, <2>4 DEF ThreadInfo
  <1> DEFINE H == AllHandlers(t)
             U == Flights(t)
             x == Exs(t)
             y == Exs(t)'
             r == eh[t]
             q == eh'[t]
             p == Depth(t) + 1
  <1>4. /\ Linked(H, U, x, header, r) /\ p \in Nat \ {0}
        /\ \A i \in H \cup U : i < p
        /\ \A i \in H \cup U : y[i] = x[i]
        /\ y[p] = e
        => Linked(H, U \cup {p}, y, header', q)
    <2>1. e = r.caught /\ r \in ThreadInfo /\ q.caught = r.caught /\ q.foreign = "rethrown"
          /\ q.uncaught = r.uncaught /\ r.foreign # "none"
      BY <1>e, <1>0, <1>2, <1>3 DEF Current
    <2> HIDE DEF H, U, x, y, r, q, p
    <2> SUFFICES ASSUME Linked(H, U, x, header, r), p \in Nat \ {0},
                        \A i \in H \cup U : i < p, \A i \in H \cup U : y[i] = x[i], y[p] = e
                 PROVE  Linked(H, U \cup {p}, y, header', q)
      OBVIOUS
    <2>2. Linked(H, U \cup {p}, y, header, q)
      BY <2>1, LinkedRethrowForeign
    <2> QED BY <1>0, <2>2
  <1>5. header' \in [Blocks -> HeaderType] /\ Counted(e)
    BY <1>i, <1>0 DEF TypeOK, Counted
  <1> QED BY <1>e, <1>0, <1>1, <1>3, <1>4, <1>5, RethrowStep

-----------------------------------------------------------------------------
(***************************************************************************)
(* Catching.                                                               *)
(***************************************************************************)
\* The exception in flight on top becomes the innermost handler.
LEMMA CatchTop ==
    ASSUME TypeOK, NEW t \in Threads, NEW p \in Nat \ {0}, p = Depth(t), Kept(t, p - 1),
           Depth(t)' = p, stack[t][p].kind = "unwind",
           stack'[t][p].kind \in {"catch", "unexpected"}, stack'[t][p].ex = stack[t][p].ex
    PROVE  /\ p \in Flights(t) /\ \A i \in (AllHandlers(t) \cup Flights(t)) \ {p} : i < p
           /\ AllHandlers(t)' = Plus(AllHandlers(t), p)
           /\ Flights(t)' = Minus(Flights(t), p)
           /\ \A i \in Plus(AllHandlers(t), p) \cup Minus(Flights(t), p) : Exs(t)'[i] = Exs(t)[i]
           /\ Exs(t)[p] = stack[t][p].ex
           /\ \A d : LiveIn(t, d)' <=> LiveIn(t, d)
           /\ SameScopes({"construct"}) /\ SameScopes({"destroy"})
  <1>1. Pos(t) = 1 .. p /\ Pos(t)' = 1 .. p /\ p \in 1 .. p
    BY DEF Pos
  <1>2. \A i \in 1 .. p : i # p => stack'[t][i] = stack[t][i] /\ i < p
    BY <1>1 DEF Kept
  <1>3. AllHandlers(t) = {i \in 1 .. p : stack[t][i].kind \in {"catch", "unexpected"}}
    BY DEF AllHandlers
  <1>4. AllHandlers(t)' = {i \in 1 .. p : stack'[t][i].kind \in {"catch", "unexpected"}}
    BY DEF AllHandlers
  <1>5. Flights(t) = {i \in 1 .. p : stack[t][i].kind = "unwind"}
    BY <1>1 DEF Flights
  <1>6. Flights(t)' = {i \in 1 .. p : stack'[t][i].kind = "unwind"}
    BY <1>1 DEF Flights
  <1>7. p \in Flights(t) /\ p \notin AllHandlers(t)
        /\ \A i \in (AllHandlers(t) \cup Flights(t)) \ {p} : i < p
    BY <1>1, <1>2, <1>3, <1>5
  <1>8. AllHandlers(t)' = Plus(AllHandlers(t), p)
    BY <1>1, <1>2, <1>3, <1>4 DEF Plus
  <1>9. Flights(t)' = Minus(Flights(t), p)
    BY <1>1, <1>2, <1>5, <1>6 DEF Minus
  <1>10. \A i \in 1 .. p : Exs(t)'[i] = Exs(t)[i] /\ Exs(t)[i] = stack[t][i].ex
    BY <1>1, <1>2 DEF Exs
  <1>11. \A i \in Plus(AllHandlers(t), p) \cup Minus(Flights(t), p) : i \in 1 .. p
    BY <1>1, <1>3, <1>5 DEF Plus, Minus
  <1>12. \A d : LiveIn(t, d)' <=> LiveIn(t, d)
    BY <1>1, <1>2 DEF LiveIn, LiveKinds
  <1>13. SameScopes({"construct"}) /\ SameScopes({"destroy"})
    BY <1>1, <1>2 DEF SameScopes, Kept, Pos
  <1> QED BY <1>1, <1>7, <1>8, <1>9, <1>10, <1>11, <1>12, <1>13

\* A handler of the exception on top begins.
LEMMA CatchStepInv ==
    ASSUME IInv, NEW t \in Threads, In(t, "unwind"), NEW e \in Blocks, e = Top(t).ex,
           NEW kind \in {"catch", "unexpected"},
           stack' = Replace(t, 1, << Scope(kind, e, Null) >>), ptr' = ptr,
           \A u \in Threads : u # t => eh'[u] = eh[u], eh' \in [Threads -> ThreadInfo],
           header' \in [Blocks -> HeaderType],
           \A d \in Blocks : d # e => header'[d] = header[d],
           Counted(e), header'[e].referenceCount = header[e].referenceCount,
           \A p \in Flights(t) :
               /\ Linked(AllHandlers(t), Flights(t), Exs(t), header, eh[t])
               /\ \A i \in (AllHandlers(t) \cup Flights(t)) \ {p} : i < p
               /\ Exs(t)[p] = e
               => Linked(Plus(AllHandlers(t), p), Minus(Flights(t), p), Exs(t), header', eh'[t])
    PROVE  IInv' /\ OwnersStep
  <1> DEFINE f == Scope(kind, e, Null)
             p == Depth(t)
  <1>i. TypeOK /\ ThreadsLinked /\ OneThread
    BY DEF IInv
  <1>1. /\ Depth(t) \in Nat /\ Depth(t) >= 1 /\ Depth(t) \in Pos(t) /\ 1 \in 0 .. Depth(t)
        /\ stack[t][Depth(t)] = Top(t) /\ Top(t) \in ScopeType /\ Top(t).kind = "unwind"
    BY <1>i, TopScope
  <1>2. f \in ScopeType /\ f.kind = kind /\ f.ex = e
    BY DEF Scope, ScopeType, LiveKinds
  <1>3. stack' = Replace(t, 1, << f >>)
    OBVIOUS
  <1> HIDE DEF f
  <1>4. /\ stack' \in [Threads -> Seq(ScopeType)] /\ Kept(t, Depth(t) - 1)
        /\ Depth(t)' = Depth(t) - 1 + 1 /\ stack'[t][Depth(t) - 1 + 1] = f
    <2>1. f \in ScopeType /\ 1 \in 0 .. Depth(t)
      BY <1>1, <1>2
    <2> QED BY <1>i, <1>3, <2>1, Replace1
  <1>5. /\ p \in Nat \ {0} /\ Kept(t, p - 1) /\ Depth(t)' = p
        /\ stack'[t][p].kind \in {"catch", "unexpected"} /\ stack'[t][p].ex = stack[t][p].ex
        /\ stack[t][p].kind = "unwind"
    BY <1>1, <1>2, <1>4
  <1>6. /\ p \in Flights(t) /\ \A i \in (AllHandlers(t) \cup Flights(t)) \ {p} : i < p
        /\ AllHandlers(t)' = Plus(AllHandlers(t), p)
        /\ Flights(t)' = Minus(Flights(t), p)
        /\ \A i \in Plus(AllHandlers(t), p) \cup Minus(Flights(t), p) : Exs(t)'[i] = Exs(t)[i]
        /\ Exs(t)[p] = stack[t][p].ex
        /\ \A d : LiveIn(t, d)' <=> LiveIn(t, d)
        /\ SameScopes({"construct"}) /\ SameScopes({"destroy"})
    BY <1>i, <1>5, CatchTop
  <1>7. Exs(t)[p] = e /\ LiveIn(t, e)
    BY <1>1, <1>6 DEF LiveIn, LiveKinds
  <1>8. ThreadLinked(t)'
    <2> DEFINE K == Plus(AllHandlers(t), p)
               V == Minus(Flights(t), p)
               x == Exs(t)
               y == Exs(t)'
               q == eh'[t]
    <2>1. Linked(AllHandlers(t), Flights(t), Exs(t), header, eh[t])
      BY <1>i DEF ThreadsLinked, ThreadLinked
    <2>2. Linked(K, V, x, header', q)
      BY <1>6, <1>7, <2>1
    <2>3. \A i \in K \cup V : y[i] = x[i]
      BY <1>6
    <2> HIDE DEF K, V, x, y, q
    <2>4. Linked(K, V, y, header', q)
      BY <2>2, <2>3, LinkedFrame
    <2> QED BY <1>6, <2>4 DEF ThreadLinked, K, V, y, q
  <1>9. Objs \subseteq Blocks
    BY DEF Blocks
  <1>10. ThreadsLinked' /\ OneThread' /\ \A d : Live(d)' <=> Live(d)
    <2>1. \A d \in Objs : Live(d) /\ ~LiveIn(t, d) => header'[d] = header[d]
      BY <1>7, <1>9
    <2>2. /\ ThreadsLinked' /\ OneThread'
          /\ \A d : Live(d)' <=> LiveIn(t, d)' \/ (Live(d) /\ ~LiveIn(t, d))
      <3>1. \A d : LiveIn(t, d)' => LiveIn(t, d) \/ ~Live(d)
        BY <1>6
      <3> QED BY <1>i, <1>5, <1>8, <2>1, <3>1, OthersStep
    <2>3. \A d : LiveIn(t, d) => Live(d)
      BY DEF Live, LiveIn
    <2> QED BY <1>6, <2>2, <2>3
  <1>11. TypeOK'
    BY <1>i, <1>4 DEF TypeOK
  <1>12. \A d \in Blocks : Counted(d)
    BY DEF Counted
  <1>13. \A d \in Objs : header'[d].referenceCount = header[d].referenceCount
    BY <1>9
  <1> QED BY <1>6, <1>10, <1>11, <1>12, <1>13, QuietStep

\* What is in flight on top.
LEMMA TopFlight ==
    ASSUME IInv, NEW t \in Threads, In(t, "unwind")
    PROVE  /\ Live(Top(t).ex) /\ LiveIn(t, Top(t).ex) /\ Top(t).ex \in Blocks
           /\ ~isForeign(Top(t).ex) => Top(t).ex \in Objs
  <1>1. Depth(t) \in Pos(t) /\ stack[t][Depth(t)] = Top(t) /\ Top(t).kind = "unwind"
    BY TopScope DEF IInv
  <1>2. Live(Top(t).ex) /\ LiveIn(t, Top(t).ex)
    BY <1>1 DEF Live, LiveIn, LiveKinds
  <1> QED BY <1>2, ScopeClasses DEF isForeign, Blocks

LEMMA BeginCatchInv ==
    ASSUME IInv, ProperUse, NEW t \in Threads, NEW kind \in {"catch", "unexpected"},
           BeginCatch(t, kind)
    PROVE  IInv' /\ OwnersStep
  <1>e. PICK e : e = Top(t).ex
    OBVIOUS
  <1>i. TypeOK /\ ThreadsLinked
    BY DEF IInv
  <1> DEFINE k == header[e].handlerCount
             r == eh[t]
             q == [caught |-> IF k = 0 THEN e ELSE r.caught, uncaught |-> r.uncaught - 1,
                   foreign |-> "none"]
             n == IF k = 0 THEN r.caught ELSE header[e].nextException
             c == IF k < 0 THEN -k + 1 ELSE k + 1
  <1>0. /\ In(t, "unwind") /\ ~isForeign(e) /\ r.caught \notin ForeignObjs
        /\ header' = CaughtHeader(t, e) /\ eh' = CaughtEh(t, e) /\ ptr' = ptr
        /\ stack' = Replace(t, 1, << Scope(kind, e, Null) >>)
    <2>1. Null \notin ForeignObjs
      BY ExceptionsAssumption
    <2> QED BY <1>e, <2>1 DEF BeginCatch, Unwinding, ProperUse, isForeign, Current
  <1>1. Live(e) /\ e \in Blocks /\ e \in Objs
    BY <1>e, <1>0, TopFlight
  <1>2. /\ header[e] \in HeaderType /\ k \in Int /\ r \in ThreadInfo
        /\ header[e].nextException \in Blocks \cup {Null}
        /\ r.caught \in Blocks \cup {Null} /\ r.uncaught \in Int
    BY <1>i, <1>1 DEF TypeOK, HeaderType, ThreadInfo
  <1>3. n \in Blocks \cup {Null} /\ c \in Int /\ q \in ThreadInfo
    BY <1>1, <1>2 DEF ThreadInfo
  <1>4. /\ header'[e] = [header[e] EXCEPT !.nextException = n, !.handlerCount = c]
        /\ \A d \in Blocks : d # e => header'[d] = header[d]
        /\ header' \in [Blocks -> HeaderType] <=> \A d \in Blocks : header'[d] \in HeaderType
    BY <1>i, <1>0, <1>1 DEF TypeOK, CaughtHeader, Current
  <1>5. eh' = [eh EXCEPT ![t] = q]
    BY <1>0 DEF CaughtEh
  <1>6. eh' \in [Threads -> ThreadInfo] /\ eh'[t] = q /\ \A u \in Threads : u # t => eh'[u] = eh[u]
    BY <1>i, <1>3, <1>5 DEF TypeOK
  <1>7. header'[e] \in HeaderType
    <2> DEFINE h == header[e]
               g == header'[e]
    <2>1. h \in HeaderType /\ g = [h EXCEPT !.nextException = n, !.handlerCount = c]
      BY <1>2, <1>4
    <2> HIDE DEF g, h, n, c
    <2>2. g \in HeaderType
      BY <1>3, <2>1, HeaderUpdates, Zenon
    <2> QED BY <2>2 DEF g
  <1>8. /\ header'[e].handlerCount = c /\ header'[e].nextException = n
        /\ header'[e].referenceCount = header[e].referenceCount
        /\ header'[e].class = header[e].class /\ header'[e].object = header[e].object
        /\ header'[e].exceptionDestructor = header[e].exceptionDestructor
        /\ header'[e].primaryException = header[e].primaryException
    <2> HIDE DEF n, c
    <2> QED BY <1>2, <1>4 DEF HeaderType
  <1>9. header' \in [Blocks -> HeaderType]
    BY <1>i, <1>4, <1>7 DEF TypeOK
  <1>10. Counted(e)
    <2>1. Built(e) \/ header[e].class = "dependent"
      BY <1>1, ScopeClasses
    <2>2. ~InConstruct(e) /\ header[e].class \in {"primary", "dependent"}
      BY <2>1, ScopeClasses DEF Built
    <2> QED BY <1>8, <2>2 DEF Counted
  <1>11. ASSUME NEW p \in Flights(t),
                Linked(AllHandlers(t), Flights(t), Exs(t), header, eh[t]),
                \A i \in (AllHandlers(t) \cup Flights(t)) \ {p} : i < p, Exs(t)[p] = e
         PROVE  Linked(Plus(AllHandlers(t), p), Minus(Flights(t), p), Exs(t), header', eh'[t])
    <2> DEFINE H == AllHandlers(t)
               U == Flights(t)
               x == Exs(t)
               b == eh'[t]
    <2>1. \A i \in H \cup U : x[i] \in Objs /\ x[i] # e =>
              /\ header'[x[i]].handlerCount = header[x[i]].handlerCount
              /\ header'[x[i]].nextException = header[x[i]].nextException
      BY <1>4 DEF Blocks
    <2>2. /\ b.caught = IF header[e].handlerCount = 0 THEN e ELSE r.caught
          /\ b.foreign = "none" /\ b.uncaught = r.uncaught - 1
          /\ r.caught \notin ForeignObjs /\ r \in ThreadInfo
      BY <1>0, <1>2, <1>6
    <2>3. /\ header'[e].handlerCount = IF header[e].handlerCount < 0 THEN -header[e].handlerCount + 1
                                       ELSE header[e].handlerCount + 1
          /\ header'[e].nextException = IF header[e].handlerCount = 0 THEN r.caught
                                        ELSE header[e].nextException
      BY <1>8
    <2>4. /\ p \in U /\ Linked(H, U, x, header, r) /\ x[p] = e /\ e \in Objs
          /\ \A i \in (H \cup U) \ {p} : i < p
      BY <1>1, <1>11
    <2> HIDE DEF H, U, x, b, r, q, n, c, k
    <2>5. Linked(Plus(H, p), Minus(U, p), x, header', b)
      BY <2>1, <2>2, <2>3, <2>4, LinkedCatch
    <2> QED BY <2>5 DEF H, U, x, b
  <1>12. header'[e].referenceCount = header[e].referenceCount
    BY <1>8
  <1> HIDE DEF r, q, n, c, k
  <1> QED BY <1>e, <1>0, <1>1, <1>4, <1>6, <1>9, <1>10, <1>11, <1>12, CatchStepInv

LEMMA BeginCatchForeignInv ==
    ASSUME IInv, NEW t \in Threads, NEW kind \in {"catch", "unexpected"},
           BeginCatchForeign(t, kind), Current(t) = Null
    PROVE  IInv' /\ OwnersStep /\ program' = program
  <1>e. PICK e : e = Top(t).ex
    OBVIOUS
  <1>i. TypeOK /\ ThreadsLinked
    BY DEF IInv
  <1> DEFINE r == eh[t]
             q == [[r EXCEPT !.caught = e] EXCEPT !.foreign = "caught"]
  <1>0. /\ In(t, "unwind") /\ e \in ForeignObjs /\ r.caught = Null
        /\ header' = header /\ eh' = [eh EXCEPT ![t].caught = e, ![t].foreign = "caught"]
        /\ ptr' = ptr /\ stack' = Replace(t, 1, << Scope(kind, e, Null) >>)
        /\ program' = program
    BY <1>e DEF BeginCatchForeign, Unwinding, isForeign, Current
  <1>1. e \in Blocks /\ r \in ThreadInfo
    BY <1>i, <1>0 DEF TypeOK, Blocks
  <1>2. q \in ThreadInfo /\ q.caught = e /\ q.foreign = "caught" /\ q.uncaught = r.uncaught
    BY <1>1 DEF ThreadInfo
  <1>3. eh' \in [Threads -> ThreadInfo] /\ eh'[t] = q /\ \A u \in Threads : u # t => eh'[u] = eh[u]
    <2>1. eh' = [eh EXCEPT ![t] = q]
      BY <1>i, <1>0 DEF TypeOK
    <2> HIDE DEF q
    <2> QED BY <1>i, <1>2, <2>1 DEF TypeOK
  <1>4. header' \in [Blocks -> HeaderType] /\ Counted(e)
    BY <1>i, <1>0 DEF TypeOK, Counted
  <1>5. ASSUME NEW p \in Flights(t),
               Linked(AllHandlers(t), Flights(t), Exs(t), header, eh[t]),
               \A i \in (AllHandlers(t) \cup Flights(t)) \ {p} : i < p, Exs(t)[p] = e
        PROVE  Linked(Plus(AllHandlers(t), p), Minus(Flights(t), p), Exs(t), header', eh'[t])
    <2> DEFINE H == AllHandlers(t)
               U == Flights(t)
               x == Exs(t)
               b == eh'[t]
    <2>1. /\ p \in U /\ Linked(H, U, x, header, r) /\ x[p] \in ForeignObjs /\ r.caught = Null
          /\ b.caught = x[p] /\ b.foreign = "caught" /\ b.uncaught = r.uncaught /\ r \in ThreadInfo
      BY <1>0, <1>1, <1>2, <1>3, <1>5
    <2> HIDE DEF H, U, x, b, r, q
    <2>2. Linked(Plus(H, p), Minus(U, p), x, header, b)
      BY <2>1, LinkedCatchForeign
    <2> QED BY <1>0, <2>2 DEF H, U, x, b
  <1> HIDE DEF r, q
  <1>6. IInv' /\ OwnersStep
    BY <1>e, <1>0, <1>1, <1>3, <1>4, <1>5, CatchStepInv
  <1> QED BY <1>0, <1>6

-----------------------------------------------------------------------------
(***************************************************************************)
(* Release.                                                                *)
(***************************************************************************)
\* Thread t calls a destructor, in scope g; the destructors that run go on.
DestroyPushed(t, g) ==
    /\ \E k \in Pos(t)' :
          /\ stack'[t][k] = g
          /\ \A u \in Threads : \A j \in Pos(u)' :
                stack'[u][j].kind = "destroy" /\ ~(u = t /\ j = k) =>
                    j \in Pos(u) /\ stack'[u][j] = stack[u][j]
    /\ \A u \in Threads : \A j \in Pos(u) : stack[u][j].kind = "destroy" =>
          j \in Pos(u)' /\ stack'[u][j] = stack[u][j]

LEMMA DestroyPush ==
    ASSUME IInv, NEW t \in Threads, NEW g, g.kind = "destroy", DestroyPushed(t, g),
           DestroyOK(g)', ~InDestroy(g.ex), g.aux # Null => ~InDestroy(g.aux),
           \A d \in Objs : InDestroy(d) => header'[d] = header[d]
    PROVE  /\ DestroysOK' /\ \A d : InDestroy(d) => InDestroy(d)'
           /\ InDestroy(g.ex)' /\ InDestroy(g.aux)'
  <1>k. PICK k \in Pos(t)' :
          /\ stack'[t][k] = g
          /\ \A u \in Threads : \A j \in Pos(u)' :
                stack'[u][j].kind = "destroy" /\ ~(u = t /\ j = k) =>
                    j \in Pos(u) /\ stack'[u][j] = stack[u][j]
    BY DEF DestroyPushed
  <1>1. ASSUME NEW u \in Threads, NEW j \in Pos(u)', stack'[u][j].kind = "destroy",
               ~(u = t /\ j = k)
        PROVE  j \in Pos(u) /\ stack'[u][j] = stack[u][j] /\ DestroyKept(stack[u][j])
    <2>1. j \in Pos(u) /\ stack'[u][j] = stack[u][j]
      BY <1>k, <1>1
    <2>2. DestroyOK(stack[u][j])
      BY <1>1, <2>1 DEF IInv, DestroysOK
    <2>3. InDestroy(stack[u][j].ex) /\ InDestroy(stack[u][j].aux)
      BY <1>1, <2>1 DEF InDestroy
    <2> QED BY <2>1, <2>2, <2>3 DEF DestroyOK, DestroyKept
  <1>2. DestroysOK
    BY DEF IInv
  <1>3. DestroysOK'
    BY <1>k, <1>1, <1>2, DestroyAdd
  <1>4. \A d : InDestroy(d) => InDestroy(d)'
    BY DEF InDestroy, DestroyPushed
  <1>5. InDestroy(g.ex)' /\ InDestroy(g.aux)'
    BY <1>k DEF InDestroy
  <1> QED BY <1>3, <1>4, <1>5

\* The headers after releaseException(e), where p is its primary exception.
Releases(e, p) ==
    LET last == header[p].referenceCount - 1 = 0
    IN  /\ \A d \in Blocks : d # e /\ d # p => header'[d] = header[d]
        /\ header'[p].referenceCount = header[p].referenceCount - 1
        /\ header'[p].object = header[p].object
        /\ header'[p].exceptionDestructor = header[p].exceptionDestructor
        /\ header'[p].class = IF last THEN "dying" ELSE header[p].class
        /\ e # p => IF last THEN header'[e].class = "dying" /\ header'[e].object = header[e].object
                     ELSE header'[e] = Freed

\* x, an exception_ptr or what was thrown, no longer holds p.
LEMMA ReleaseInv ==
    ASSUME IInv, TypeOK', OneThread', ThreadsLinked', SameScopes({"construct"}),
           NEW t \in Threads, NEW e \in Objs, NEW p, Built(p),
           e = p \/ (header[e].class = "dependent" /\ header[e].primaryException = p),
           Releases(e, p),
           NEW x \in Holders(p), x = e \/ (x \in Slots /\ e = p),
           \A d : (x = e => d # e) => (Live(d)' <=> Live(d)), x = e => ~Live(e)',
           \A s \in Slots : ptr'[s] = IF s = x THEN Null ELSE ptr[s],
           IF header[p].referenceCount - 1 = 0
           THEN DestroyPushed(t, Scope("destroy", p, IF p = e THEN Null ELSE e))
           ELSE SameScopes({"destroy"})
    PROVE  IInv' /\ OwnersStep
  <1> DEFINE last == header[p].referenceCount - 1 = 0
             g == Scope("destroy", p, IF p = e THEN Null ELSE e)
  <1>i. TypeOK /\ ConstructsOK /\ DestroysOK /\ LiveOK /\ HeadersOK /\ PtrsOK /\ RefsOK
    BY DEF IInv
  <1>1. /\ p \in Objs /\ header[p].class = "primary" /\ header[p].object = "built"
        /\ Objs \subseteq Blocks /\ p # Null /\ e # Null
        /\ e # p => ~Built(e) /\ header[e].class = "dependent" /\ header[e].primaryException = p
    BY ExceptionsAssumption DEF Built, Blocks
  <1>2. \A d \in {e, p} : ~InConstruct(d) /\ ~InDestroy(d)
    BY <1>1, ScopeClasses
  <1>3. x \in Slots => x # p /\ x \notin Objs
    BY <1>1, ExceptionsAssumption
  <1>4. /\ \A d \in Blocks : d # e /\ d # p => header'[d] = header[d]
        /\ header'[p].referenceCount = header[p].referenceCount - 1
        /\ header'[p].object = "built"
        /\ header'[p].exceptionDestructor = header[p].exceptionDestructor
        /\ header'[p].class = IF last THEN "dying" ELSE "primary"
        /\ e # p => IF last THEN header'[e].class = "dying" /\ header'[e].object = header[e].object
                     ELSE header'[e] = Freed
    BY <1>1 DEF Releases
  <1>f. Freed.class = "free"
    BY DEF Freed
  <1>5. RefOK(p)
    BY <1>i, <1>1 DEF RefsOK
  <1>6. last <=> Holders(p) = {x}
    BY <1>1, <1>5, RefRemove
  <1>7. Holders(p)' = Minus(Holders(p), x)
    <2>1. Thrown(p)' <=> Thrown(p) /\ p # x
      <3>1. Live(p)' <=> Live(p) /\ p # x
        BY <1>3
      <3>2. (Thrown(p) <=> Live(p)) /\ (Thrown(p)' <=> Live(p)')
        BY DEF Thrown, Live, Scopes, Pos, LiveKinds
      <3> QED BY <3>1, <3>2
    <2>2. \A s \in Slots : ptr'[s] = p <=> ptr[s] = p /\ s # x
      BY <1>1
    <2>3. \A b \in Objs : (header'[b].class = "dependent" /\ header'[b].primaryException = p)
                  <=> (header[b].class = "dependent" /\ header[b].primaryException = p /\ b # x)
      BY <1>1, <1>3, <1>4, <1>f
    <2> QED BY <2>1, <2>2, <2>3 DEF Holders, isDependent, Minus
  <1>8. last => /\ Live(p) => x = p
                /\ \A s \in Slots : ptr[s] = p => s = x
                /\ \A b \in Objs : header[b].class = "dependent" /\ header[b].primaryException = p
                                      => b = x
    <2>1. Live(p) => p \in Holders(p)
      BY ThrownIsLive DEF Holders
    <2>2. \A s \in Slots : ptr[s] = p => s \in Holders(p)
      BY DEF Holders
    <2>3. \A b \in Objs : header[b].class = "dependent" /\ header[b].primaryException = p
                             => b \in Holders(p)
      BY DEF Holders, isDependent
    <2> QED BY <1>6, <2>1, <2>2, <2>3
  <1>9. ConstructsOK' /\ \A d : InConstruct(d)' <=> InConstruct(d)
    <2>1. \A d \in Objs : InConstruct(d) => header'[d] = header[d]
      BY <1>1, <1>2, <1>4
    <2> QED BY <1>i, <2>1, ConstructFrame
  <1>10. \A d \in Objs : InDestroy(d) => header'[d] = header[d]
    BY <1>1, <1>2, <1>4
  <1>11. DestroysOK' /\ \A d : InDestroy(d) => InDestroy(d)'
    <2>1. CASE ~last
      BY <1>i, <1>10, <2>1, DestroyFrame
    <2>2. CASE last
      <3>1. g.kind = "destroy" /\ g.ex = p /\ g.aux = IF p = e THEN Null ELSE e
        BY DEF Scope
      <3>2. DestroyOK(g)'
        BY <1>1, <1>4, <2>2, <3>1 DEF DestroyOK
      <3>3. DestroyPushed(t, g)
        BY <2>2
      <3>4. ~InDestroy(g.ex) /\ (g.aux # Null => ~InDestroy(g.aux))
        BY <1>2, <3>1
      <3> HIDE DEF g
      <3> QED BY <1>10, <3>1, <3>2, <3>3, <3>4, DestroyPush
    <2> QED BY <2>1, <2>2
  <1>12. last => InDestroy(p)' /\ (e # p => InDestroy(e)')
    <2> SUFFICES ASSUME last PROVE InDestroy(p)' /\ (e # p => InDestroy(e)')
      OBVIOUS
    <2>1. g.kind = "destroy" /\ g.ex = p /\ g.aux = IF p = e THEN Null ELSE e
      BY DEF Scope
    <2>2. DestroyPushed(t, g)
      OBVIOUS
    <2> HIDE DEF g
    <2>3. PICK k \in Pos(t)' : stack'[t][k] = g
      BY <2>2 DEF DestroyPushed
    <2> QED BY <2>1, <2>3 DEF InDestroy
  <1> HIDE DEF g
  <1>13. \A d : Built(d) /\ (d = p => ~last) => Built(d)'
    BY <1>1, <1>4 DEF Built
  <1>14. ASSUME NEW d, Live(d)' PROVE Live(d) /\ (e # p => d # e) /\ (d = p => ~last)
    <2>1. x = e => d # e
      BY <1>14
    <2>2. x # p \/ x = e
      BY <1>3
    <2> QED BY <1>1, <1>8, <1>14, <2>1, <2>2
  <1>15. LiveOK'
    <2>1. SUFFICES ASSUME NEW d, Live(d)'
                   PROVE  \/ Built(d)'
                          \/ d \in Objs /\ header'[d].class = "dependent"
                          \/ d \in ForeignObjs /\ header'[d].class = "foreign"
      BY DEF LiveOK
    <2>2. Live(d) /\ (e # p => d # e) /\ (d = p => ~last)
      BY <1>14, <2>1
    <2>3. d \in Blocks
      BY <2>2, ScopeClasses
    <2>4. CASE d = p
      BY <1>13, <2>2, <2>4
    <2>5. CASE d # p
      <3>1. header'[d] = header[d]
        BY <1>4, <2>2, <2>3, <2>5
      <3> QED BY <1>i, <1>13, <2>2, <2>5, <3>1 DEF LiveOK
    <2> QED BY <2>4, <2>5
  <1>16. HeadersOK'
    <2> DEFINE S == {e, p}
    <2>1. HeaderOK(p)'
      <3>1. header[p].exceptionDestructor
        BY <1>i, <1>1 DEF HeadersOK, HeaderOK
      <3> QED BY <1>1, <1>4, <1>12, <3>1 DEF HeaderOK
    <2>2. e # p => HeaderOK(e)'
      BY <1>4, <1>12, <1>f DEF HeaderOK
    <2>3. ASSUME NEW d \in Blocks, d \notin S
          PROVE  /\ Counted(d)
                 /\ InConstruct(d) => InConstruct(d)'
                 /\ InDestroy(d) => InDestroy(d)'
                 /\ Live(d) => Live(d)'
                 /\ header[d].class = "dependent" => Built(header[d].primaryException)'
      <3>1. header'[d] = header[d] /\ Counted(d)
        BY <1>4, <2>3 DEF Counted
      <3>2. ASSUME header[d].class = "dependent" PROVE Built(header[d].primaryException)'
        <4>b. PICK b : b = header[d].primaryException
          OBVIOUS
        <4>1. Built(b) /\ d \in Objs
          BY <1>i, <3>2, <4>b DEF HeadersOK, HeaderOK
        <4>2. b = p => ~last
          BY <1>8, <2>3, <3>2, <4>b, <4>1, <1>3
        <4>3. Built(b)'
          BY <1>13, <4>1, <4>2
        <4> QED BY <3>1, <4>b, <4>3
      <3>3. Live(d) => Live(d)'
        BY <2>3
      <3> QED BY <1>9, <1>11, <3>1, <3>2, <3>3
    <2>4. \A d \in Blocks : d \in S => HeaderOK(d)'
      BY <2>1, <2>2
    <2> HIDE DEF S
    <2> QED BY <1>i, <2>3, <2>4, HeadersStep
  <1>17. PtrsOK'
    <2> SUFFICES ASSUME NEW s \in Slots, ptr'[s] # Null PROVE Built(ptr[s])'
      BY DEF PtrsOK
    <2>b. PICK b : b = ptr[s]
      OBVIOUS
    <2>1. s # x /\ ptr'[s] = b /\ Built(b)
      BY <1>i, <2>b DEF PtrsOK
    <2>2. b = p => ~last
      BY <1>8, <2>b, <2>1
    <2> QED BY <1>13, <2>1, <2>2
  <1>18. ASSUME NEW d \in Objs PROVE RefOK(d)' /\ OwnStep(d)
    <2>1. CASE d = p
      <3>1. RefOK(p)'
        BY <1>1, <1>4, <1>5, <1>7, RefRemove DEF RefOK
      <3>2. CASE last
        <4>1. ~Built(p)'
          BY <1>4, <3>2 DEF Built
        <4> QED BY <1>1, <1>5, <2>1, <3>1, <3>2, <4>1, RefRemove
      <3>3. CASE ~last
        <4>1. Built(p)'
          BY <1>13, <3>3
        <4> QED BY <1>1, <1>4, <1>5, <1>7, <2>1, <3>1, <3>3, <4>1, RefRemove
      <3> QED BY <3>2, <3>3
    <2>2. CASE d = e /\ d # p
      <3>1. header[e].class = "dependent" /\ header[e].object = "none"
        BY <1>i, <1>1, <2>2 DEF HeadersOK, HeaderOK
      <3>2. header'[e].object # "built" \/ header'[e].class \notin {"primary", "dying"}
        BY <1>4, <1>f, <2>2, <3>1
      <3>3. header'[e].class # "primary"
        BY <1>4, <1>f, <2>2
      <3> QED BY <2>2, <3>1, <3>2, <3>3, OwnNone DEF RefOK
    <2>3. CASE d # e /\ d # p
      <3>1. RefOK(d) /\ header'[d] = header[d]
        BY <1>i, <1>1, <1>4, <2>3 DEF RefsOK
      <3>2. \A s \in Slots : ptr'[s] = d <=> ptr[s] = d
        <4>1. ASSUME NEW s \in Slots, s = x PROVE ptr[s] = p
          <5>1. x \in Slots /\ x \notin Objs /\ x # p
            BY <1>3, <4>1
          <5> QED BY <4>1, <5>1 DEF Holders
        <4>2. d # Null
          BY ExceptionsAssumption
        <4> QED BY <2>3, <4>1, <4>2
      <3>3. \A b \in Objs : (header'[b].class = "dependent" /\ header'[b].primaryException = d)
                  <=> (header[b].class = "dependent" /\ header[b].primaryException = d)
        BY <1>1, <1>4, <1>f, <2>3
      <3>4. Live(d)' <=> Live(d)
        BY <1>3, <2>3
      <3>5. Holders(d)' = Holders(d)
        BY <3>2, <3>3, <3>4, HoldersSame
      <3> QED BY <3>1, <3>5, RefFrame
    <2> QED BY <2>1, <2>2, <2>3
  <1> QED BY <1>9, <1>11, <1>15, <1>16, <1>17, <1>18 DEF IInv, RefsOK, OwnersStep

LEMMA PushedAt ==
    ASSUME NEW t \in Threads, NEW m \in Nat, NEW k \in Nat, Depth(t) \in Nat, m <= Depth(t),
           Kept(t, m), m < k, Depth(t)' = k, NEW g, stack'[t][k] = g,
           \A i \in Pos(t) : i > m => stack[t][i].kind # "destroy",
           \A i \in Pos(t)' : i > m /\ i # k => stack'[t][i].kind # "destroy"
    PROVE  DestroyPushed(t, g)
  <1>1. k \in Pos(t)'
    BY DEF Pos
  <1>2. ASSUME NEW u \in Threads, NEW j \in Pos(u)', stack'[u][j].kind = "destroy", ~(u = t /\ j = k)
        PROVE  j \in Pos(u) /\ stack'[u][j] = stack[u][j]
    <2>1. j \in Nat /\ (u # t \/ j <= m)
      BY <1>2 DEF Pos
    <2> QED BY <2>1 DEF Kept
  <1>3. ASSUME NEW u \in Threads, NEW j \in Pos(u), stack[u][j].kind = "destroy"
        PROVE  j \in Pos(u)' /\ stack'[u][j] = stack[u][j]
    <2>1. j \in Nat /\ (u # t \/ j <= m)
      BY <1>3 DEF Pos
    <2> QED BY <2>1 DEF Kept
  <1> QED BY <1>1, <1>2, <1>3 DEF DestroyPushed

LEMMA ReleasedFacts ==
    ASSUME TypeOK, NEW e \in Objs, NEW p \in Objs, p = realException(e),
           NEW g, g = ReleasedHeader(e)
    PROVE  LET last == header[p].referenceCount - 1 = 0
           IN  /\ g \in [Blocks -> HeaderType]
               /\ \A d \in Blocks : d # e /\ d # p => g[d] = header[d]
               /\ g[p].referenceCount = header[p].referenceCount - 1
               /\ g[p].object = header[p].object
               /\ g[p].exceptionDestructor = header[p].exceptionDestructor
               /\ g[p].handlerCount = header[p].handlerCount
               /\ g[p].nextException = header[p].nextException
               /\ g[p].class = IF last THEN "dying" ELSE header[p].class
               /\ e # p => IF last THEN g[e].class = "dying" /\ g[e].object = header[e].object
                            ELSE g[e] = Freed
  <1> DEFINE last == header[p].referenceCount - 1 = 0
             c == IF last THEN "dying" ELSE header[p].class
             n == header[p].referenceCount - 1
             hp == header[p]
             he == header[e]
  <1>1. /\ header \in [Blocks -> HeaderType] /\ e \in Blocks /\ p \in Blocks
        /\ hp \in HeaderType /\ he \in HeaderType
    BY DEF TypeOK, Blocks
  <1>2. c \in Classes /\ n \in Int /\ "dying" \in Classes
    BY <1>1 DEF HeaderType, Classes
  <1>3. g = [x \in Blocks |->
                CASE x = p -> [hp EXCEPT !.referenceCount = n, !.class = c]
                  [] x = e /\ x # p -> IF last THEN [he EXCEPT !.class = "dying"] ELSE Freed
                  [] OTHER -> header[x]]
    BY DEF ReleasedHeader
  <1>4. g[p] = [hp EXCEPT !.referenceCount = n, !.class = c]
    BY <1>1, <1>3
  <1>5. e # p => g[e] = IF last THEN [he EXCEPT !.class = "dying"] ELSE Freed
    BY <1>1, <1>3
  <1>6. \A d \in Blocks : d # e /\ d # p => g[d] = header[d]
    BY <1>3
  <1>7. g[p] \in HeaderType
    <2> DEFINE gp == g[p]
    <2>1. gp = [hp EXCEPT !.referenceCount = n, !.class = c]
      BY <1>4
    <2> HIDE DEF gp, hp, n, c
    <2>2. gp \in HeaderType
      BY <1>1, <1>2, <2>1, HeaderUpdates, Zenon
    <2> QED BY <2>2 DEF gp
  <1>8. /\ g[p].referenceCount = n /\ g[p].object = hp.object
        /\ g[p].exceptionDestructor = hp.exceptionDestructor
        /\ g[p].handlerCount = hp.handlerCount
        /\ g[p].nextException = hp.nextException /\ g[p].class = c
    <2> HIDE DEF hp, n, c
    <2> QED BY <1>1, <1>4 DEF HeaderType
  <1>9. e # p => /\ g[e] \in HeaderType
                 /\ IF last THEN g[e].class = "dying" /\ g[e].object = he.object ELSE g[e] = Freed
    <2> HIDE DEF he
    <2>1. [he EXCEPT !.class = "dying"] \in HeaderType
      BY <1>1, <1>2, HeaderUpdates, Zenon
    <2>2. /\ [he EXCEPT !.class = "dying"].class = "dying"
          /\ [he EXCEPT !.class = "dying"].object = he.object
      BY <1>1 DEF HeaderType
    <2> QED BY <1>5, <2>1, <2>2, HeaderUpdates
  <1>10. g \in [Blocks -> HeaderType]
    <2>1. g \in [Blocks -> HeaderType] <=> \A d \in Blocks : g[d] \in HeaderType
      BY <1>3
    <2> QED BY <1>1, <1>6, <1>7, <1>9, <2>1
  <1> QED BY <1>6, <1>8, <1>9, <1>10

LEMMA DropPtrInv ==
    ASSUME IInv, NEW t \in Threads, NEW s \in Slots, DropPtr(t, s)
    PROVE  IInv' /\ OwnersStep
  <1>p. PICK p : p = ptr[s]
    OBVIOUS
  <1> DEFINE last == header[p].referenceCount - 1 = 0
             g == Scope("destroy", p, Null)
             m == Depth(t)
  <1>i. TypeOK /\ ThreadsLinked /\ OneThread
    BY DEF IInv
  <1>1. Built(p) /\ p \in Objs /\ p # Null /\ p = realException(p) /\ p \in Blocks
    BY <1>p, ExceptionsAssumption DEF IInv, PtrsOK, DropPtr, Built, realException, isDependent, Blocks
  <1>0. /\ header' = ReleasedHeader(p) /\ eh' = eh
        /\ stack' = Replace(t, 0, IF last THEN << g >> ELSE << >>)
        /\ ptr' = [ptr EXCEPT ![s] = Null] /\ ptr[s] = p
    BY <1>p, <1>1 DEF DropPtr, ReleaseScopes
  <1>2. /\ header' \in [Blocks -> HeaderType]
        /\ \A d \in Blocks : d # p => header'[d] = header[d]
        /\ header'[p].handlerCount = header[p].handlerCount
        /\ header'[p].nextException = header[p].nextException
        /\ Releases(p, p)
    <2>h. PICK h : h = header'
      OBVIOUS
    <2>1. h = ReleasedHeader(p)
      BY <1>0, <2>h
    <2>2. /\ h \in [Blocks -> HeaderType]
          /\ \A d \in Blocks : d # p => h[d] = header[d]
          /\ h[p].referenceCount = header[p].referenceCount - 1
          /\ h[p].object = header[p].object
          /\ h[p].exceptionDestructor = header[p].exceptionDestructor
          /\ h[p].handlerCount = header[p].handlerCount
          /\ h[p].nextException = header[p].nextException
          /\ h[p].class = IF last THEN "dying" ELSE header[p].class
      BY <1>i, <1>1, <2>1, ReleasedFacts
    <2> QED BY <2>h, <2>2 DEF Releases
  <1>3. g \in ScopeType /\ g.kind = "destroy"
    BY <1>1 DEF Scope, ScopeType
  <1>4. m \in Nat /\ 0 \in 0 .. Depth(t)
    BY <1>i DEF TypeOK, Depth
  <1> HIDE DEF g
  <1>5. /\ stack' \in [Threads -> Seq(ScopeType)]
        /\ SameScopes({"construct"}) /\ SameLive
        /\ IF last THEN DestroyPushed(t, g) ELSE SameScopes({"destroy"})
    <2>1. CASE last
      <3>1. stack' = Replace(t, 0, << g >>) /\ g \in ScopeType
        BY <1>0, <1>3, <2>1
      <3>2. /\ stack' \in [Threads -> Seq(ScopeType)] /\ Kept(t, Depth(t) - 0)
            /\ Depth(t)' = Depth(t) - 0 + 1 /\ stack'[t][Depth(t) - 0 + 1] = g
        BY <1>i, <1>4, <3>1, Replace1
      <3>3. Kept(t, m) /\ Depth(t)' = m + 1 /\ stack'[t][m + 1] = g
        BY <1>4, <3>2
      <3>4. SameScopes({"construct"}) /\ SameLive
        BY <1>3, <1>4, <3>3 DEF SameScopes, SameLive, Kept, Pos, LiveKinds
      <3>5. /\ \A i \in Pos(t) : i > m => stack[t][i].kind # "destroy"
            /\ \A i \in Pos(t)' : i > m /\ i # m + 1 => stack'[t][i].kind # "destroy"
        BY <1>4, <3>3 DEF Pos
      <3>6. m + 1 \in Nat /\ m <= Depth(t) /\ m < m + 1
        BY <1>4
      <3>7. DestroyPushed(t, g)
        BY <1>4, <3>3, <3>5, <3>6, PushedAt
      <3> QED BY <2>1, <3>2, <3>4, <3>7
    <2>2. CASE ~last
      <3>1. stack' = Replace(t, 0, << >>)
        BY <1>0, <2>2
      <3>2. /\ stack' \in [Threads -> Seq(ScopeType)] /\ Kept(t, Depth(t) - 0)
            /\ Depth(t)' = Depth(t) - 0
        BY <1>i, <1>4, <3>1, Replace0
      <3>3. Kept(t, m) /\ Depth(t)' = m
        BY <1>4, <3>2
      <3>4. SameScopes({"construct"}) /\ SameLive /\ SameScopes({"destroy"})
        BY <1>4, <3>3 DEF SameScopes, SameLive, Kept, Pos, LiveKinds
      <3> QED BY <2>2, <3>2, <3>4
    <2> QED BY <2>1, <2>2
  <1>6. ThreadsLinked' /\ OneThread' /\ \A d : Live(d)' <=> Live(d)
    <2>1. \A d \in Objs : /\ header'[d].handlerCount = header[d].handlerCount
                          /\ header'[d].nextException = header[d].nextException
      BY <1>2 DEF Blocks
    <2> QED BY <1>i, <1>0, <1>5, <2>1, SameLiveStep
  <1>7. TypeOK'
    BY <1>i, <1>0, <1>2, <1>5 DEF TypeOK
  <1>8. s \in Holders(p)
    BY <1>p DEF Holders
  <1>9. \A v \in Slots : ptr'[v] = IF v = s THEN Null ELSE ptr[v]
    BY <1>i, <1>0 DEF TypeOK
  <1>10. s # p
    BY <1>1, ExceptionsAssumption
  <1>11. IF header[p].referenceCount - 1 = 0
         THEN DestroyPushed(t, Scope("destroy", p, IF p = p THEN Null ELSE p))
         ELSE SameScopes({"destroy"})
    BY <1>5 DEF g
  <1> QED BY <1>1, <1>2, <1>5, <1>6, <1>7, <1>8, <1>9, <1>10, <1>11, ReleaseInv

-----------------------------------------------------------------------------
(***************************************************************************)
(* The end of a handler.                                                   *)
(***************************************************************************)
\* The innermost handler, at p, returns, or the exception above it leaves it.
\* Nothing but a destructor call replaces it.
HandlerEnds(t, p) ==
    /\ p \in Nat \ {0} /\ stack[t][p].kind \in {"catch", "unexpected"} /\ Kept(t, p - 1)
    /\ Depth(t)' \in Nat
    /\ \/ /\ Depth(t) = p /\ Depth(t)' >= p - 1
          /\ \A i \in Pos(t)' : i >= p => stack'[t][i].kind = "destroy"
       \/ /\ Depth(t) = p + 1 /\ Depth(t)' >= p
          /\ stack[t][p + 1].kind = "unwind" /\ stack'[t][p].kind = "unwind"
          /\ stack'[t][p].ex = stack[t][p + 1].ex
          /\ \A i \in Pos(t)' : i > p => stack'[t][i].kind = "destroy"

LEMMA EndShape ==
    ASSUME TypeOK, NEW t \in Threads, NEW p, HandlerEnds(t, p)
    PROVE  /\ p \in AllHandlers(t) /\ \A j \in AllHandlers(t) : j <= p
           /\ \A i, j \in Flights(t) : p < i /\ p < j => i = j
           /\ Exs(t)[p] = stack[t][p].ex /\ LiveIn(t, stack[t][p].ex)
           /\ SameScopes({"construct"})
           /\ (\A i \in Pos(t)' : i >= p => stack'[t][i].kind # "destroy") => SameScopes({"destroy"})
           /\ \A d : LiveIn(t, d)' <=>
                 \E i \in Minus(AllHandlers(t), p) \cup Flights(t) : Exs(t)[i] = d
  <1>1. p \in Nat /\ p >= 1 /\ p \in Pos(t) /\ Depth(t) \in {p, p + 1}
    BY DEF HandlerEnds, Pos
  <1>2. Pos(t) = 1 .. Depth(t)
    BY DEF Pos
  <1>3. p \in AllHandlers(t)
    BY <1>1 DEF HandlerEnds, AllHandlers, Pos
  <1>4. \A j \in Pos(t) : j \in Nat /\ (j <= p \/ (j = p + 1 /\ stack[t][j].kind = "unwind"))
    BY <1>1, <1>2 DEF HandlerEnds
  <1>5. \A j \in AllHandlers(t) : j <= p /\ j \in Pos(t) /\ stack[t][j].kind \in {"catch", "unexpected"}
    BY <1>4 DEF AllHandlers, Pos
  <1>6. \A i, j \in Flights(t) : p < i /\ p < j => i = j
    BY <1>1, <1>4 DEF Flights
  <1>7. Exs(t)[p] = stack[t][p].ex /\ LiveIn(t, stack[t][p].ex)
    BY <1>1 DEF Exs, LiveIn, LiveKinds, HandlerEnds
  <1>8. \A j \in 1 .. p - 1 : j \in Pos(t) /\ j \in Pos(t)' /\ stack'[t][j] = stack[t][j]
    BY <1>1, <1>2 DEF HandlerEnds, Kept
  <1>9. SameScopes({"construct"})
    BY <1>1 DEF HandlerEnds, SameScopes, Kept, Pos
  <1>10. (\A i \in Pos(t)' : i >= p => stack'[t][i].kind # "destroy") => SameScopes({"destroy"})
    BY <1>1 DEF HandlerEnds, SameScopes, Kept, Pos
  <1>11. ASSUME NEW d, LiveIn(t, d)'
         PROVE  \E i \in Minus(AllHandlers(t), p) \cup Flights(t) : Exs(t)[i] = d
    <2>1. PICK j \in Pos(t)' : stack'[t][j].kind \in LiveKinds /\ stack'[t][j].ex = d
      BY <1>11 DEF LiveIn
    <2>2. j \in Nat /\ j >= 1
      BY <2>1 DEF Pos
    <2>3. CASE j <= p - 1
      <3>1. j \in Pos(t) /\ stack'[t][j] = stack[t][j]
        BY <1>1, <1>8, <2>2, <2>3
      <3>2. j \in Minus(AllHandlers(t), p) \cup Flights(t)
        BY <1>1, <2>1, <2>3, <3>1 DEF AllHandlers, Flights, Pos, LiveKinds, Minus
      <3> QED BY <2>1, <3>1, <3>2 DEF Exs
    <2>4. CASE ~(j <= p - 1)
      <3>1. j = p /\ Depth(t) = p + 1 /\ stack[t][p + 1].kind = "unwind" /\ stack[t][p + 1].ex = d
        BY <1>1, <2>1, <2>2, <2>4 DEF HandlerEnds, LiveKinds
      <3>2. p + 1 \in Pos(t)
        BY <1>1, <3>1 DEF Pos
      <3> QED BY <3>1, <3>2 DEF Exs, Flights
    <2> QED BY <2>3, <2>4
  <1>12. ASSUME NEW d, NEW i \in Minus(AllHandlers(t), p) \cup Flights(t), Exs(t)[i] = d
         PROVE  LiveIn(t, d)'
    <2>1. i \in Pos(t) /\ i # p /\ stack[t][i].kind \in LiveKinds
      BY <1>1 DEF Minus, AllHandlers, Flights, LiveKinds, Pos, HandlerEnds
    <2>d. d = stack[t][i].ex
      BY <1>12, <2>1 DEF Exs
    <2>2. CASE i <= p
      <3>1. i \in 1 .. p - 1
        BY <1>1, <1>2, <2>1, <2>2
      <3> QED BY <1>8, <2>1, <2>d, <3>1 DEF LiveIn
    <2>3. CASE ~(i <= p)
      <3>1. i = p + 1 /\ Depth(t) = p + 1
        BY <1>1, <1>2, <2>1, <2>3
      <3>2. p \in Pos(t)' /\ stack'[t][p].kind = "unwind" /\ stack'[t][p].ex = stack[t][p + 1].ex
        BY <1>1, <3>1 DEF HandlerEnds, Pos
      <3> QED BY <2>1, <2>d, <3>1, <3>2 DEF LiveIn, LiveKinds
    <2> QED BY <2>2, <2>3
  <1> QED BY <1>3, <1>5, <1>6, <1>7, <1>9, <1>10, <1>11, <1>12

LEMMA EndLinked ==
    ASSUME TypeOK, NEW t \in Threads, NEW p, HandlerEnds(t, p),
           Linked(Minus(AllHandlers(t), p), Flights(t), Exs(t), header', eh'[t])
    PROVE  ThreadLinked(t)'
  <1> DEFINE K == Minus(AllHandlers(t), p)
             U == Flights(t)
             x == Exs(t)
             y == Exs(t)'
             r == eh'[t]
             q == p + 1
  <1>1. p \in Nat /\ p >= 1 /\ p \in Pos(t) /\ Depth(t) \in {p, p + 1} /\ Depth(t)' \in Nat
    BY DEF HandlerEnds, Pos
  <1>2. Pos(t) = 1 .. Depth(t) /\ Pos(t)' = 1 .. Depth(t)'
    BY DEF Pos
  <1>3. \A j \in 1 .. p - 1 : j \in Pos(t) /\ j \in Pos(t)' /\ stack'[t][j] = stack[t][j]
    BY <1>1, <1>2 DEF HandlerEnds, Kept
  <1>4. AllHandlers(t) = {i \in Pos(t) : stack[t][i].kind \in {"catch", "unexpected"}}
    BY DEF AllHandlers, Pos
  <1>5. AllHandlers(t)' = {i \in Pos(t)' : stack'[t][i].kind \in {"catch", "unexpected"}}
    BY DEF AllHandlers, Pos
  <1>6. \A i \in K : i \in 1 .. p - 1
    BY <1>1, <1>2, <1>4 DEF Minus, HandlerEnds
  <1>7. AllHandlers(t)' = K
    <2>1. \A i \in AllHandlers(t)' : i \in 1 .. p - 1
      BY <1>1, <1>2, <1>5 DEF HandlerEnds
    <2>2. \A i \in 1 .. p - 1 : i \in AllHandlers(t)' <=> i \in K
      BY <1>1, <1>3, <1>4, <1>5 DEF Minus
    <2> QED BY <1>6, <2>1, <2>2
  <1>8. \A i \in 1 .. p - 1 : y[i] = x[i]
    BY <1>3 DEF Exs
  <1>9. CASE Depth(t) = p
    <2>1. \A i \in U : i \in 1 .. p - 1
      BY <1>1, <1>2, <1>9 DEF Flights, HandlerEnds
    <2>2. \A i \in Flights(t)' : i \in 1 .. p - 1
      BY <1>1, <1>2, <1>9 DEF Flights, HandlerEnds
    <2>3. \A i \in 1 .. p - 1 : i \in Flights(t)' <=> i \in U
      BY <1>3 DEF Flights
    <2>4. Flights(t)' = U
      BY <2>1, <2>2, <2>3
    <2>5. \A i \in K \cup U : y[i] = x[i]
      BY <1>6, <1>8, <2>1
    <2>6. Linked(K, U, x, header', r)
      OBVIOUS
    <2> HIDE DEF K, U, x, y, r
    <2>7. Linked(K, U, y, header', r)
      BY <2>5, <2>6, LinkedFrame
    <2> QED BY <1>7, <2>4, <2>7 DEF ThreadLinked, y, r
  <1>10. CASE Depth(t) = p + 1
    <2>0. /\ stack[t][q].kind = "unwind" /\ stack'[t][p].kind = "unwind" /\ p \in Pos(t)'
          /\ stack'[t][p].ex = stack[t][q].ex /\ q \in Pos(t)
          /\ stack[t][p].kind \in {"catch", "unexpected"}
          /\ \A i \in Pos(t)' : i > p => stack'[t][i].kind = "destroy"
      BY <1>1, <1>2, <1>10 DEF HandlerEnds
    <2>1. q \in U /\ \A i \in U : i = q \/ i \in 1 .. p - 1
      BY <1>1, <1>2, <1>10, <2>0 DEF Flights
    <2>2. p \in Flights(t)' /\ \A i \in Flights(t)' : i = p \/ i \in 1 .. p - 1
      BY <1>1, <1>2, <2>0 DEF Flights
    <2>3. \A i \in 1 .. p - 1 : i \in Flights(t)' <=> i \in U
      BY <1>3 DEF Flights
    <2>4. Flights(t)' = Plus(Minus(U, q), p)
      <3> DEFINE V == Flights(t)'
      <3>1. q \notin 1 .. p - 1 /\ q # p
        BY <1>1
      <3>2. p \in V /\ \A i \in V : i = p \/ i \in 1 .. p - 1
        BY <2>2
      <3>3. \A i \in 1 .. p - 1 : i \in V <=> i \in U
        BY <2>3
      <3> HIDE DEF V, U, q
      <3>4. \A i : i \in V <=> i \in (U \ {q}) \cup {p}
        BY <2>1, <3>1, <3>2, <3>3
      <3> QED BY <3>4 DEF Plus, Minus, V
    <2>5. /\ p \in Nat \ {0} /\ p \notin K \cup U /\ p < q
          /\ \A i \in (K \cup U) \ {q} : i < p
          /\ \A i \in (K \cup U) \ {q} : y[i] = x[i]
      BY <1>1, <1>6, <1>8, <2>1
    <2>6. y[p] = x[q]
      BY <2>0 DEF Exs
    <2>7. Linked(K, U, x, header', r)
      OBVIOUS
    <2> HIDE DEF K, U, x, y, r, q
    <2>8. Linked(K, Plus(Minus(U, q), p), y, header', r)
      BY <2>1, <2>5, <2>6, <2>7, LinkedMove
    <2> QED BY <1>7, <2>4, <2>8 DEF ThreadLinked, y, r
  <1> QED BY <1>1, <1>9, <1>10

\* The exception stays in flight or handled.
LEMMA EndStays ==
    ASSUME IInv, NEW t \in Threads, NEW p, HandlerEnds(t, p), NEW e \in Blocks, e = stack[t][p].ex,
           \E i \in Minus(AllHandlers(t), p) \cup Flights(t) : Exs(t)[i] = e,
           \A i \in Pos(t)' : i >= p => stack'[t][i].kind # "destroy",
           Linked(Minus(AllHandlers(t), p), Flights(t), Exs(t), header', eh'[t]),
           stack' \in [Threads -> Seq(ScopeType)], ptr' = ptr,
           \A u \in Threads : u # t => eh'[u] = eh[u], eh' \in [Threads -> ThreadInfo],
           header' \in [Blocks -> HeaderType],
           \A d \in Blocks : d # e => header'[d] = header[d],
           Counted(e), header'[e].referenceCount = header[e].referenceCount
    PROVE  IInv' /\ OwnersStep
  <1>i. TypeOK /\ ThreadsLinked /\ OneThread
    BY DEF IInv
  <1>1. /\ p \in AllHandlers(t) /\ Exs(t)[p] = e /\ LiveIn(t, e)
        /\ SameScopes({"construct"}) /\ SameScopes({"destroy"})
        /\ \A d : LiveIn(t, d)' <=>
              \E i \in Minus(AllHandlers(t), p) \cup Flights(t) : Exs(t)[i] = d
    BY <1>i, EndShape
  <1>2. \A d : LiveIn(t, d)' <=> LiveIn(t, d)
    <2>1. \A d : LiveIn(t, d) <=> \E i \in AllHandlers(t) \cup Flights(t) : Exs(t)[i] = d
      BY <1>i, PositionsHere
    <2> QED BY <1>1, <2>1 DEF Minus
  <1>3. ThreadLinked(t)'
    BY <1>i, EndLinked
  <1>4. Objs \subseteq Blocks /\ Kept(t, p - 1)
    BY DEF Blocks, HandlerEnds
  <1>5. ThreadsLinked' /\ OneThread' /\ \A d : Live(d)' <=> Live(d)
    <2>1. \A d \in Objs : Live(d) /\ ~LiveIn(t, d) => header'[d] = header[d]
      BY <1>1, <1>4
    <2>2. /\ ThreadsLinked' /\ OneThread'
          /\ \A d : Live(d)' <=> LiveIn(t, d)' \/ (Live(d) /\ ~LiveIn(t, d))
      <3>1. \A d : LiveIn(t, d)' => LiveIn(t, d) \/ ~Live(d)
        BY <1>2
      <3> QED BY <1>i, <1>3, <1>4, <2>1, <3>1, OthersStep
    <2>3. \A d : LiveIn(t, d) => Live(d)
      BY DEF Live, LiveIn
    <2> QED BY <1>2, <2>2, <2>3
  <1>6. TypeOK'
    BY <1>i DEF TypeOK
  <1>7. \A d \in Blocks : Counted(d)
    BY DEF Counted
  <1>8. \A d \in Objs : header'[d].referenceCount = header[d].referenceCount
    BY <1>4
  <1> QED BY <1>1, <1>5, <1>6, <1>7, <1>8, QuietStep

\* It was its last handler.
LEMMA EndGoes ==
    ASSUME IInv, NEW t \in Threads, NEW p, HandlerEnds(t, p), NEW e, e = stack[t][p].ex,
           \A i \in Minus(AllHandlers(t), p) \cup Flights(t) : Exs(t)[i] # e,
           Linked(Minus(AllHandlers(t), p), Flights(t), Exs(t), header', eh'[t]),
           \A u \in Threads : u # t => eh'[u] = eh[u],
           \A d \in Objs : d # e => /\ header'[d].handlerCount = header[d].handlerCount
                                    /\ header'[d].nextException = header[d].nextException
    PROVE  /\ ThreadsLinked' /\ OneThread' /\ SameScopes({"construct"})
           /\ \A d : Live(d)' <=> Live(d) /\ d # e
           /\ Live(e)
  <1>i. TypeOK /\ ThreadsLinked /\ OneThread
    BY DEF IInv
  <1>1. /\ p \in AllHandlers(t) /\ Exs(t)[p] = e /\ LiveIn(t, e)
        /\ SameScopes({"construct"})
        /\ \A d : LiveIn(t, d)' <=>
              \E i \in Minus(AllHandlers(t), p) \cup Flights(t) : Exs(t)[i] = d
    BY <1>i, EndShape
  <1>2. \A d : LiveIn(t, d)' <=> LiveIn(t, d) /\ d # e
    <2>1. \A d : LiveIn(t, d) <=> \E i \in AllHandlers(t) \cup Flights(t) : Exs(t)[i] = d
      BY <1>i, PositionsHere
    <2> QED BY <1>1, <2>1 DEF Minus
  <1>3. ThreadLinked(t)'
    BY <1>i, EndLinked
  <1>4. Kept(t, p - 1)
    BY DEF HandlerEnds
  <1>5. \A d \in Objs : Live(d) /\ ~LiveIn(t, d) =>
            /\ header'[d].handlerCount = header[d].handlerCount
            /\ header'[d].nextException = header[d].nextException
    BY <1>1
  <1>6. /\ ThreadsLinked' /\ OneThread'
        /\ \A d : Live(d)' <=> LiveIn(t, d)' \/ (Live(d) /\ ~LiveIn(t, d))
    <2>1. \A d : LiveIn(t, d)' => LiveIn(t, d) \/ ~Live(d)
      BY <1>2
    <2> QED BY <1>i, <1>3, <1>4, <1>5, <2>1, OthersStep
  <1>7. \A d : LiveIn(t, d) => Live(d)
    BY DEF Live, LiveIn
  <1> QED BY <1>1, <1>2, <1>6, <1>7

\* The scopes that __cxa_end_catch is called from: the handler at p returns,
\* or is left by the exception on top.
Ending(t, p, n, over) ==
    \/ n = 1 /\ over = << >> /\ Depth(t) = p /\ In(t, "catch")
    \/ /\ n = 2 /\ over = << Found(t) >> /\ Depth(t) = p + 1 /\ In(t, "unwind") /\ p > 0
       /\ stack[t][p].kind \in {"catch", "unexpected"}

LEMMA EndReplace ==
    ASSUME TypeOK, NEW t \in Threads, NEW p \in Nat, NEW n, NEW over, Ending(t, p, n, over),
           stack' = Replace(t, n, over)
    PROVE  /\ HandlerEnds(t, p) /\ stack' \in [Threads -> Seq(ScopeType)]
           /\ \A i \in Pos(t)' : i >= p => stack'[t][i].kind # "destroy"
  <1>1. CASE n = 1 /\ over = << >> /\ Depth(t) = p /\ In(t, "catch")
    <2>1. /\ Depth(t) \in Nat /\ Depth(t) >= 1 /\ 1 \in 0 .. Depth(t)
          /\ stack[t][Depth(t)] = Top(t) /\ Top(t).kind = "catch"
      BY <1>1, TopScope
    <2>2. stack' = Replace(t, 1, << >>)
      BY <1>1
    <2>3. /\ stack' \in [Threads -> Seq(ScopeType)] /\ Kept(t, Depth(t) - 1)
          /\ Depth(t)' = Depth(t) - 1
      BY <2>1, <2>2, Replace0
    <2> QED BY <1>1, <2>1, <2>3 DEF HandlerEnds, Pos
  <1>2. CASE /\ n = 2 /\ over = << Found(t) >> /\ Depth(t) = p + 1 /\ In(t, "unwind") /\ p > 0
             /\ stack[t][p].kind \in {"catch", "unexpected"}
    <2> DEFINE f == Found(t)
    <2>1. /\ Depth(t) \in Nat /\ Depth(t) >= 1 /\ 1 \in 0 .. Depth(t)
          /\ stack[t][Depth(t)] = Top(t) /\ Top(t).kind = "unwind" /\ Top(t) \in ScopeType
      BY <1>2, TopScope
    <2>2. f \in ScopeType /\ f.kind = "unwind" /\ f.ex = Top(t).ex
      BY <2>1 DEF Found, ScopeType
    <2>3. stack' = Replace(t, 2, << f >>)
      BY <1>2
    <2>4. 2 \in 0 .. Depth(t)
      BY <1>2, <2>1
    <2> HIDE DEF f
    <2>5. /\ stack' \in [Threads -> Seq(ScopeType)] /\ Kept(t, Depth(t) - 2)
          /\ Depth(t)' = Depth(t) - 2 + 1 /\ stack'[t][Depth(t) - 2 + 1] = f
      <3>1. f \in ScopeType
        BY <2>2
      <3> QED BY <2>3, <2>4, <3>1, Replace1
    <2>6. /\ Kept(t, p - 1) /\ Depth(t)' = p /\ stack'[t][p] = f /\ p \in Nat \ {0}
          /\ stack[t][p + 1] = Top(t)
      BY <1>2, <2>1, <2>5
    <2>7. \A i \in Pos(t)' : i >= p => i = p
      BY <2>6 DEF Pos
    <2>8. /\ stack[t][p + 1].kind = "unwind" /\ stack'[t][p].kind = "unwind"
          /\ stack'[t][p].ex = stack[t][p + 1].ex
      BY <2>1, <2>2, <2>6
    <2>9. Depth(t)' \in Nat /\ Depth(t)' >= p /\ \A i \in Pos(t)' : ~(i > p)
      BY <2>6, <2>7 DEF Pos
    <2>10. HandlerEnds(t, p)
      BY <1>2, <2>6, <2>8, <2>9 DEF HandlerEnds
    <2>11. \A i \in Pos(t)' : i >= p => stack'[t][i].kind # "destroy"
      BY <2>7, <2>8
    <2> QED BY <2>5, <2>10, <2>11
  <1> QED BY <1>1, <1>2 DEF Ending

\* The last n scopes are replaced by f, and g after it.
LEMMA ReplaceBoth ==
    ASSUME TypeOK, NEW t \in Threads, NEW n \in 0 .. Depth(t),
           NEW f \in ScopeType, NEW g \in ScopeType,
           stack' = Replace(t, n, << f >> \o << g >>)
    PROVE  /\ stack' \in [Threads -> Seq(ScopeType)] /\ Kept(t, Depth(t) - n)
           /\ Depth(t)' = Depth(t) - n + 2
           /\ stack'[t][Depth(t) - n + 1] = f /\ stack'[t][Depth(t) - n + 2] = g
  <1> DEFINE a == << f >>
             b == << g >>
             new == a \o b
  <1>1. /\ a \in Seq(ScopeType) /\ Len(a) = 1 /\ a[1] = f
        /\ b \in Seq(ScopeType) /\ Len(b) = 1 /\ b[1] = g
    OBVIOUS
  <1>2. stack' = Replace(t, n, new)
    OBVIOUS
  <1> HIDE DEF a, b
  <1>3. /\ new \in Seq(ScopeType) /\ Len(new) = Len(a) + Len(b)
        /\ \A i \in 1 .. Len(a) + Len(b) :
              new[i] = IF i <= Len(a) THEN a[i] ELSE b[i - Len(a)]
    BY <1>1, ConcatProperties
  <1> HIDE DEF new
  <1>4. Len(new) = 2 /\ new[1] = f /\ new[2] = g
    <2>1. /\ Len(new) = 2
          /\ \A i \in 1 .. 2 : new[i] = IF i <= 1 THEN a[i] ELSE b[i - 1]
      BY <1>1, <1>3
    <2>2. 1 \in 1 .. 2 /\ 2 \in 1 .. 2 /\ ~(2 <= 1) /\ 2 - 1 = 1 /\ 1 <= 1
      OBVIOUS
    <2> QED BY <1>1, <2>1, <2>2
  <1>5. stack' \in [Threads -> Seq(ScopeType)] /\ Kept(t, Depth(t) - n) /\ Depth(t) \in Nat
    BY <1>2, <1>3, ReplaceKeeps
  <1>6. /\ Len(stack'[t]) = Depth(t) - n + Len(new)
        /\ \A i \in 1 .. Len(new) : stack'[t][Depth(t) - n + i] = new[i]
    BY <1>2, <1>3, ReplaceStack
  <1>7. 1 \in 1 .. Len(new) /\ 2 \in 1 .. Len(new)
    BY <1>4
  <1>8. stack'[t][Depth(t) - n + 1] = f /\ stack'[t][Depth(t) - n + 2] = g
    BY <1>4, <1>6, <1>7
  <1>9. Depth(t)' = Depth(t) - n + 2
    BY <1>4, <1>6 DEF Depth
  <1> QED BY <1>5, <1>8, <1>9

LEMMA EndReplaceDestroy ==
    ASSUME TypeOK, NEW t \in Threads, NEW p \in Nat, NEW n, NEW over, Ending(t, p, n, over),
           NEW g \in ScopeType, g.kind = "destroy", stack' = Replace(t, n, over \o << g >>)
    PROVE  /\ HandlerEnds(t, p) /\ stack' \in [Threads -> Seq(ScopeType)]
           /\ DestroyPushed(t, g)
  <1>1. CASE n = 1 /\ over = << >> /\ Depth(t) = p /\ In(t, "catch")
    <2>1. /\ Depth(t) \in Nat /\ Depth(t) >= 1 /\ 1 \in 0 .. Depth(t)
          /\ stack[t][Depth(t)] = Top(t) /\ Top(t).kind = "catch"
      BY <1>1, TopScope
    <2>2. stack' = Replace(t, 1, << g >>)
      BY <1>1
    <2>3. /\ stack' \in [Threads -> Seq(ScopeType)] /\ Kept(t, Depth(t) - 1)
          /\ Depth(t)' = Depth(t) - 1 + 1 /\ stack'[t][Depth(t) - 1 + 1] = g
      BY <2>1, <2>2, Replace1
    <2>4. /\ Kept(t, p - 1) /\ Depth(t)' = p /\ stack'[t][p] = g /\ p \in Nat \ {0} /\ p - 1 \in Nat
          /\ p - 1 <= Depth(t) /\ p - 1 < p
      BY <1>1, <2>1, <2>3
    <2>5. /\ \A i \in Pos(t)' : i >= p => i = p
          /\ \A i \in Pos(t) : i > p - 1 => i = p
          /\ \A i \in Pos(t)' : i > p - 1 => i = p
      BY <1>1, <2>4 DEF Pos
    <2>6. HandlerEnds(t, p)
      BY <1>1, <2>1, <2>4, <2>5 DEF HandlerEnds
    <2>7. /\ \A i \in Pos(t) : i > p - 1 => stack[t][i].kind # "destroy"
          /\ \A i \in Pos(t)' : i > p - 1 /\ i # p => stack'[t][i].kind # "destroy"
      BY <1>1, <2>1, <2>5
    <2>m. PICK m \in Nat : m = p - 1
      BY <2>4
    <2>8. DestroyPushed(t, g)
      BY <2>1, <2>4, <2>7, <2>m, PushedAt
    <2> QED BY <2>3, <2>6, <2>8
  <1>2. CASE /\ n = 2 /\ over = << Found(t) >> /\ Depth(t) = p + 1 /\ In(t, "unwind") /\ p > 0
             /\ stack[t][p].kind \in {"catch", "unexpected"}
    <2> DEFINE f == Found(t)
    <2>1. /\ Depth(t) \in Nat /\ Depth(t) >= 1 /\ 1 \in 0 .. Depth(t)
          /\ stack[t][Depth(t)] = Top(t) /\ Top(t).kind = "unwind" /\ Top(t) \in ScopeType
      BY <1>2, TopScope
    <2>2. f \in ScopeType /\ f.kind = "unwind" /\ f.ex = Top(t).ex
      BY <2>1 DEF Found, ScopeType
    <2>3. stack' = Replace(t, 2, << f >> \o << g >>)
      BY <1>2
    <2>4. 2 \in 0 .. Depth(t)
      BY <1>2, <2>1
    <2> HIDE DEF f
    <2>5. /\ stack' \in [Threads -> Seq(ScopeType)] /\ Kept(t, Depth(t) - 2)
          /\ Depth(t)' = Depth(t) - 2 + 2
          /\ stack'[t][Depth(t) - 2 + 1] = f /\ stack'[t][Depth(t) - 2 + 2] = g
      <3>1. f \in ScopeType
        BY <2>2
      <3> HIDE DEF Ending
      <3> QED BY <2>3, <2>4, <3>1, ReplaceBoth
    <2>6. /\ Kept(t, p - 1) /\ Depth(t)' = p + 1 /\ stack'[t][p] = f /\ stack'[t][p + 1] = g
          /\ stack[t][p + 1] = Top(t) /\ p \in Nat \ {0} /\ p - 1 \in Nat /\ p + 1 \in Nat
          /\ p - 1 <= Depth(t) /\ p - 1 < p + 1
      BY <1>2, <2>1, <2>5
    <2>7. /\ \A i \in Pos(t)' : i > p => i = p + 1
          /\ \A i \in Pos(t)' : i > p - 1 /\ i # p + 1 => i = p
          /\ \A i \in Pos(t) : i > p - 1 => i = p \/ i = p + 1
      BY <1>2, <2>6 DEF Pos
    <2>8. HandlerEnds(t, p)
      BY <1>2, <2>1, <2>2, <2>6, <2>7 DEF HandlerEnds
    <2>9. /\ \A i \in Pos(t) : i > p - 1 => stack[t][i].kind # "destroy"
          /\ \A i \in Pos(t)' : i > p - 1 /\ i # p + 1 => stack'[t][i].kind # "destroy"
      BY <1>2, <2>1, <2>2, <2>6, <2>7
    <2>m. PICK m \in Nat : m = p - 1
      BY <2>6
    <2>k. PICK k \in Nat : k = p + 1
      BY <2>6
    <2>10. DestroyPushed(t, g)
      BY <2>1, <2>6, <2>9, <2>m, <2>k, PushedAt
    <2> QED BY <2>5, <2>8, <2>10
  <1> QED BY <1>1, <1>2 DEF Ending

\* The handler that ends is the innermost one, of the current exception.
LEMMA EndingHandler ==
    ASSUME IInv, NEW t \in Threads, NEW p \in Nat, NEW n, NEW over, Ending(t, p, n, over)
    PROVE  /\ p \in AllHandlers(t) /\ \A j \in AllHandlers(t) : j <= p
           /\ \A i, j \in Flights(t) : p < i /\ p < j => i = j
           /\ Exs(t)[p] = Current(t) /\ stack[t][p].ex = Current(t)
           /\ Current(t) \in Blocks /\ Current(t) # Null
           /\ eh[t].foreign # "none" <=> Current(t) \in ForeignObjs
  <1>i. TypeOK /\ ThreadsLinked
    BY DEF IInv
  <1>1. /\ p \in Pos(t) /\ stack[t][p].kind \in {"catch", "unexpected"} /\ Depth(t) \in Nat
        /\ Depth(t) = p \/ (Depth(t) = p + 1 /\ stack[t][p + 1].kind = "unwind")
    <2>1. CASE n = 1 /\ over = << >> /\ Depth(t) = p /\ In(t, "catch")
      <3>1. Depth(t) \in Nat /\ Depth(t) \in Pos(t) /\ stack[t][Depth(t)] = Top(t) /\ Top(t).kind = "catch"
        BY <1>i, <2>1, TopScope
      <3> QED BY <2>1, <3>1
    <2>2. CASE /\ n = 2 /\ over = << Found(t) >> /\ Depth(t) = p + 1 /\ In(t, "unwind") /\ p > 0
               /\ stack[t][p].kind \in {"catch", "unexpected"}
      <3>1. Depth(t) \in Nat /\ stack[t][Depth(t)] = Top(t) /\ Top(t).kind = "unwind"
        BY <1>i, <2>2, TopScope
      <3> QED BY <2>2, <3>1 DEF Pos
    <2> QED BY <2>1, <2>2 DEF Ending
  <1>2. p \in AllHandlers(t) /\ \A j \in AllHandlers(t) : j <= p
    BY <1>1 DEF AllHandlers, Pos
  <1>3. \A i, j \in Flights(t) : p < i /\ p < j => i = j
    BY <1>1 DEF Flights, Pos
  <1>4. Exs(t)[p] = stack[t][p].ex
    BY <1>1 DEF Exs
  <1>5. ThreadLinked(t)
    BY <1>i DEF ThreadsLinked
  <1>6. HeadIs(AllHandlers(t), Exs(t), eh[t].caught) /\ Positions(AllHandlers(t), Flights(t), Exs(t))
    BY <1>5 DEF ThreadLinked, Linked
  <1>7. Exs(t)[p] = Current(t) /\ Current(t) \in Blocks
    BY <1>2, <1>6 DEF HeadIs, Positions, Current
  <1>8. Null \notin Blocks
    BY ExceptionsAssumption DEF Blocks
  <1>9. eh[t].foreign # "none" <=> eh[t].caught \in ForeignObjs
    <2> DEFINE H == AllHandlers(t)
               U == Flights(t)
               x == Exs(t)
               r == eh[t]
    <2>1. Linked(H, U, x, header, r)
      BY <1>5 DEF ThreadLinked
    <2> HIDE DEF H, U, x, r
    <2>2. r.foreign # "none" <=> r.caught \in ForeignObjs
      BY <2>1, ForeignCurrent
    <2> QED BY <2>2 DEF r
  <1> QED BY <1>2, <1>3, <1>4, <1>7, <1>8, <1>9 DEF Current

\* A block is freed that nothing refers to any longer.
LEMMA FreedInv ==
    ASSUME IInv, TypeOK', OneThread', ThreadsLinked', NEW e \in Blocks, header[e].class \in {"raw", "foreign"},
           header'[e] = Freed, \A d \in Blocks : d # e => header'[d] = header[d], ptr' = ptr,
           \A d : Live(d)' <=> Live(d) /\ d # e,
           SubScopes({"construct"}), \A d : InConstruct(d)' <=> InConstruct(d) /\ d # e,
           SameScopes({"destroy"})
    PROVE  IInv' /\ OwnersStep
  <1>i. /\ TypeOK /\ ConstructsOK /\ DestroysOK /\ LiveOK /\ HeadersOK /\ PtrsOK /\ RefsOK
    BY DEF IInv
  <1>f. Freed.class = "free" /\ "free" \notin {"primary", "dependent"}
    BY DEF Freed
  <1>1. /\ ~Built(e) /\ ~InDestroy(e) /\ e # Null
        /\ \A d \in Blocks : header[d].class = "dependent" => header[d].primaryException # e
    <2>1. ~Built(e)
      BY DEF Built
    <2>2. e # Null
      BY ExceptionsAssumption DEF Blocks
    <2>3. ~InDestroy(e)
      BY <2>2, ScopeClasses
    <2>4. \A d \in Blocks : header[d].class = "dependent" => Built(header[d].primaryException)
      BY <1>i DEF HeadersOK, HeaderOK
    <2> QED BY <2>1, <2>2, <2>3, <2>4
  <1>2. \A d : Built(d)' <=> Built(d)
    <2>1. ~Built(e)'
      BY <1>f DEF Built
    <2>2. \A d \in Blocks : d # e => (Built(d)' <=> Built(d))
      BY DEF Built
    <2>3. \A d : d \notin Blocks => ~Built(d) /\ ~Built(d)'
      BY DEF Built, Blocks
    <2> QED BY <1>1, <2>1, <2>2, <2>3
  <1>3. ConstructsOK'
    <2>1. ASSUME NEW u \in Threads, NEW j \in Pos(u)', stack'[u][j].kind = "construct"
          PROVE  /\ j \in Pos(u) /\ stack'[u][j] = stack[u][j]
                 /\ header'[stack[u][j].ex] = header[stack[u][j].ex]
      <3>1. j \in Pos(u) /\ stack'[u][j] = stack[u][j]
        BY <2>1 DEF SubScopes
      <3>2. InConstruct(stack[u][j].ex)'
        BY <2>1, <3>1 DEF InConstruct
      <3>3. InConstruct(stack[u][j].ex) /\ stack[u][j].ex # e
        <4>1. PICK d : d = stack[u][j].ex
          OBVIOUS
        <4>2. InConstruct(d)'
          BY <2>1, <3>1, <4>1 DEF InConstruct
        <4>3. InConstruct(d) /\ d # e
          BY <4>2
        <4> QED BY <4>1, <4>3
      <3>4. stack[u][j].ex \in Blocks
        BY <3>3, ScopeClasses DEF Blocks
      <3> QED BY <3>1, <3>3, <3>4
    <2> QED BY <1>i, <2>1, ConstructSub
  <1>4. DestroysOK' /\ \A d : InDestroy(d)' <=> InDestroy(d)
    <2>1. \A d \in Objs : InDestroy(d) =>
               header'[d].class = header[d].class /\ header'[d].object = header[d].object
      BY <1>1 DEF Blocks
    <2> QED BY <1>i, <2>1, DestroyFrame
  <1>5. LiveOK'
    <2>1. ASSUME NEW d, Live(d)'
          PROVE  \/ Built(d)'
                 \/ d \in Objs /\ header'[d].class = "dependent"
                 \/ d \in ForeignObjs /\ header'[d].class = "foreign"
      <3>1. Live(d) /\ d # e
        BY <2>1
      <3>2. \/ Built(d)
            \/ d \in Objs /\ header[d].class = "dependent"
            \/ d \in ForeignObjs /\ header[d].class = "foreign"
        BY <1>i, <3>1 DEF LiveOK
      <3>3. d \in Objs \cup ForeignObjs => header'[d] = header[d]
        BY <3>1 DEF Blocks
      <3> QED BY <1>2, <3>2, <3>3
    <2> QED BY <2>1 DEF LiveOK
  <1>6. HeadersOK'
    <2> DEFINE S == {e}
    <2>1. \A d \in Blocks : d \notin S =>
               /\ Counted(d)
               /\ InConstruct(d) => InConstruct(d)'
               /\ InDestroy(d) => InDestroy(d)'
               /\ Live(d) => Live(d)'
               /\ header[d].class = "dependent" => Built(header[d].primaryException)'
      <3>1. ASSUME NEW d \in Blocks, d # e, header[d].class = "dependent"
            PROVE  Built(header[d].primaryException)'
        <4>1. Built(header[d].primaryException)
          BY <1>i, <3>1 DEF HeadersOK, HeaderOK
        <4>2. PICK c : c = header[d].primaryException
          OBVIOUS
        <4>3. Built(c)'
          BY <1>2, <4>1, <4>2
        <4>4. header'[d].primaryException = c
          BY <3>1, <4>2
        <4> QED BY <4>3, <4>4
      <3> QED BY <1>4, <3>1 DEF Counted
    <2>2. \A d \in Blocks : d \in S => HeaderOK(d)'
      BY <1>f DEF HeaderOK
    <2> HIDE DEF S
    <2> QED BY <1>i, <2>1, <2>2, HeadersStep
  <1>7. PtrsOK'
    BY <1>i, <1>2 DEF PtrsOK
  <1>8. RefsOK' /\ OwnersStep
    <2>1. ASSUME NEW d \in Objs PROVE RefOK(d)' /\ OwnStep(d)
      <3>1. CASE d = e
        <4>1. header[d].class \notin {"primary", "dying"} /\ header'[d].class = "free"
          BY <1>f, <3>1
        <4> QED BY <4>1, OwnNone DEF RefOK
      <3>2. CASE d # e
        <4>1. header'[d] = header[d]
          BY <3>2 DEF Blocks
        <4>2. \A c \in Objs : header'[c].class = "dependent" /\ header'[c].primaryException = d <=>
                              header[c].class = "dependent" /\ header[c].primaryException = d
          <5>1. \A c \in Objs : c # e => header'[c] = header[c]
            BY DEF Blocks
          <5> QED BY <1>f, <5>1
        <4>3. Live(d)' <=> Live(d)
          BY <3>2
        <4>4. Holders(d)' = Holders(d)
          BY <4>2, <4>3, HoldersSame
        <4>5. RefOK(d)
          BY <1>i DEF RefsOK
        <4> QED BY <4>1, <4>4, <4>5, RefFrame
      <3> QED BY <3>1, <3>2
    <2> QED BY <2>1 DEF RefsOK, OwnersStep
  <1> QED BY <1>3, <1>4, <1>5, <1>6, <1>7, <1>8 DEF IInv

\* No scope in which an exception is constructed comes or goes.
LEMMA SameConstructs ==
    ASSUME TypeOK, stack' \in [Threads -> Seq(ScopeType)], SameScopes({"construct"})
    PROVE  SubScopes({"construct"}) /\ \A d : InConstruct(d)' <=> InConstruct(d)
  <1>1. \A u \in Threads : \A j : (j \in Pos(u) \/ j \in Pos(u)') => j \in Nat
    BY DEF TypeOK, Pos, Depth
  <1>2. SubScopes({"construct"})
    BY <1>1 DEF SameScopes, SubScopes
  <1>3. \A d : InConstruct(d)' => InConstruct(d)
    BY <1>2 DEF SubScopes, InConstruct
  <1>4. \A d : InConstruct(d) => InConstruct(d)'
    <2>1. \A u \in Threads : \A j \in Pos(u) : stack[u][j].kind = "construct" =>
              j \in Pos(u)' /\ stack'[u][j] = stack[u][j]
      BY <1>1 DEF SameScopes
    <2> QED BY <2>1 DEF InConstruct
  <1> QED BY <1>2, <1>3, <1>4

\* __cxa_end_catch of a foreign exception.
LEMMA EndForeignInv ==
    ASSUME IInv, NEW t \in Threads, NEW p \in Nat, NEW n, NEW over, Ending(t, p, n, over),
           eh[t].foreign # "none", EndCatch(t, n, over), ptr' = ptr
    PROVE  IInv' /\ OwnersStep /\ program' = program
  <1>i. TypeOK /\ ThreadsLinked
    BY DEF IInv
  <1>e. PICK e : e = Current(t)
    OBVIOUS
  <1>1. /\ p \in AllHandlers(t) /\ \A j \in AllHandlers(t) : j <= p
        /\ \A i, j \in Flights(t) : p < i /\ p < j => i = j
        /\ Exs(t)[p] = e /\ stack[t][p].ex = e /\ e \in Blocks /\ e # Null /\ e \in ForeignObjs
    BY <1>e, EndingHandler
  <1>2. /\ header' = EndForeign(t)
        /\ eh' = [eh EXCEPT ![t].caught = Null, ![t].foreign = "none"]
        /\ stack' = Replace(t, n, over) /\ program' = program
    BY <1>1, <1>e DEF EndCatch
  <1>3. /\ HandlerEnds(t, p) /\ stack' \in [Threads -> Seq(ScopeType)]
        /\ \A i \in Pos(t)' : i >= p => stack'[t][i].kind # "destroy"
    BY <1>i, <1>2, EndReplace
  <1>4. /\ eh' \in [Threads -> ThreadInfo] /\ \A u \in Threads : u # t => eh'[u] = eh[u]
        /\ eh'[t].caught = Null /\ eh'[t].foreign = "none" /\ eh'[t].uncaught = eh[t].uncaught
    BY <1>2, <1>i DEF TypeOK, ThreadInfo
  <1>5. \A d \in Blocks : d # e => header'[d] = header[d]
    BY <1>2, <1>e, <1>i DEF EndForeign, TypeOK
  <1> DEFINE H == AllHandlers(t)
             U == Flights(t)
             x == Exs(t)
             r == eh[t]
             q == eh'[t]
  <1>6. Linked(H, U, x, header, r) /\ r \in ThreadInfo
    BY <1>i DEF ThreadsLinked, ThreadLinked, TypeOK
  <1>7. \A i \in H \cup U : x[i] \in Objs => header'[x[i]] = header[x[i]]
    BY <1>1, <1>5, ExceptionsAssumption DEF Blocks
  <1>8. Linked(Minus(H, p), U, x, header', q)
    <2>1. /\ p \in H /\ r.foreign # "none" /\ \A i, j \in U : p < i /\ p < j => i = j
          /\ q.caught = Null /\ q.foreign = "none" /\ q.uncaught = r.uncaught
      BY <1>1, <1>4
    <2> HIDE DEF H, U, x, r, q
    <2> QED BY <1>6, <1>7, <2>1, LinkedEndForeign
  <1>9. /\ r.foreign = "caught" => \A j \in U : x[j] # e
        /\ r.foreign = "rethrown" => \E j \in U : x[j] = e
        /\ \A i \in Minus(H, p) : x[i] # e
    <2>1. ForeignIs(H, U, x, r)
      BY <1>6 DEF Linked
    <2>2. r.caught = e
      BY <1>e DEF Current
    <2>3. p \in H /\ x[p] = e /\ e \in ForeignObjs
      BY <1>1
    <2> HIDE DEF H, U, x, r
    <2>4. \A j \in H : j = p
      BY <2>1, <2>3 DEF ForeignIs
    <2> QED BY <2>1, <2>2, <2>4 DEF ForeignIs, Minus
  <1>10. r.foreign \in {"caught", "rethrown"}
    BY <1>6 DEF ThreadInfo
  <1>11. CASE r.foreign = "rethrown"
    <2>1. header' = header
      BY <1>2, <1>11 DEF EndForeign
    <2>2. header' \in [Blocks -> HeaderType] /\ Counted(e) /\ header'[e].referenceCount = header[e].referenceCount
      BY <2>1, <1>i DEF TypeOK, Counted
    <2>3. \E i \in Minus(AllHandlers(t), p) \cup Flights(t) : Exs(t)[i] = e
      BY <1>9, <1>11
    <2>4. e \in Blocks /\ e = stack[t][p].ex
      BY <1>1
    <2>5. Linked(Minus(AllHandlers(t), p), Flights(t), Exs(t), header', eh'[t])
      BY <1>8
    <2>6. IInv' /\ OwnersStep
      BY <1>3, <1>4, <1>5, <2>2, <2>3, <2>4, <2>5, EndStays
    <2> QED BY <1>2, <2>6
  <1>12. CASE r.foreign = "caught"
    <2>1. header' = [header EXCEPT ![e] = Freed]
      BY <1>2, <1>12, <1>e DEF EndForeign
    <2>2. header'[e] = Freed /\ header' \in [Blocks -> HeaderType]
      BY <2>1, <1>1, <1>i, HeaderUpdates DEF TypeOK
    <2>3. TypeOK'
      BY <1>3, <1>4, <2>2, <1>i DEF TypeOK
    <2>4. /\ ThreadsLinked' /\ OneThread' /\ SameScopes({"construct"})
          /\ \A d : Live(d)' <=> Live(d) /\ d # e
          /\ Live(e)
      <3>1. \A i \in Minus(AllHandlers(t), p) \cup Flights(t) : Exs(t)[i] # e
        BY <1>9, <1>12
      <3>2. \A d \in Objs : d # e => /\ header'[d].handlerCount = header[d].handlerCount
                                     /\ header'[d].nextException = header[d].nextException
        BY <1>5 DEF Blocks
      <3>3. e = stack[t][p].ex
        BY <1>1
      <3>4. Linked(Minus(AllHandlers(t), p), Flights(t), Exs(t), header', eh'[t])
        BY <1>8
      <3> QED BY <1>3, <1>4, <3>1, <3>2, <3>3, <3>4, EndGoes
    <2>5. SameScopes({"destroy"})
      BY <1>3, <1>i, EndShape
    <2>6. SubScopes({"construct"}) /\ \A d : InConstruct(d)' <=> InConstruct(d)
      BY <1>3, <1>i, <2>4, SameConstructs
    <2>7. header[e].class = "foreign" /\ ~InConstruct(e)
      <3>1. e \notin Objs
        BY <1>1, ExceptionsAssumption
      <3> QED BY <1>1, <2>4, <3>1, ScopeClasses
    <2>8. header[e].class \in {"raw", "foreign"} /\ \A d : InConstruct(d)' <=> InConstruct(d) /\ d # e
      BY <2>6, <2>7
    <2>9. e \in Blocks /\ header'[e] = Freed
      BY <1>1, <2>2
    <2>10. IInv' /\ OwnersStep
      BY <1>5, <2>3, <2>4, <2>5, <2>6, <2>8, <2>9, FreedInv
    <2> QED BY <1>2, <2>10
  <1> QED BY <1>10, <1>11, <1>12

\* The hypotheses of LinkedEndLast, under one name.
LastEnds(H, U, x, h, r, p, e, g, q) ==
    /\ r \in ThreadInfo /\ Linked(H, U, x, h, r) /\ p \in H /\ \A j \in H : j <= p
    /\ e \in Objs /\ x[p] = e
    /\ h[e].handlerCount \in Int /\ (h[e].handlerCount = 1 \/ h[e].handlerCount + 1 = 0)
    /\ h[e].handlerCount < 0 => g[e].handlerCount = 0
    /\ \A i \in H \cup U : x[i] \in Objs /\ x[i] # e =>
                      /\ g[x[i]].handlerCount = h[x[i]].handlerCount
                      /\ g[x[i]].nextException = h[x[i]].nextException
    /\ q.caught = h[e].nextException /\ q.foreign = r.foreign /\ q.uncaught = r.uncaught

LEMMA LastEndsLinked ==
    ASSUME NEW H, NEW U, NEW x, NEW h, NEW r, NEW p, NEW e, NEW g, NEW q,
           LastEnds(H, U, x, h, r, p, e, g, q)
    PROVE  /\ Linked(Minus(H, p), U, x, g, q)
           /\ h[e].handlerCount < 0 <=> \E j \in U : x[j] = e
           /\ \A i \in Minus(H, p) : x[i] # e
  BY LinkedEndLast DEF LastEnds

\* The exception whose handler ends, when it is one of C++.
LEMMA EndingException ==
    ASSUME IInv, NEW t \in Threads, NEW p \in Nat, NEW n, NEW over, Ending(t, p, n, over),
           eh[t].foreign = "none", NEW e, e = Current(t)
    PROVE  /\ p \in AllHandlers(t) /\ \A j \in AllHandlers(t) : j <= p
           /\ Exs(t)[p] = e /\ stack[t][p].ex = e /\ e \in Blocks /\ e \in Objs /\ e # Null
           /\ Linked(AllHandlers(t), Flights(t), Exs(t), header, eh[t]) /\ eh[t] \in ThreadInfo
           /\ Live(e) /\ header[e] \in HeaderType /\ ~InConstruct(e)
           /\ Built(e) \/ header[e].class = "dependent"
           /\ header[e].class \in {"primary", "dependent"}
  <1>i. TypeOK /\ ThreadsLinked
    BY DEF IInv
  <1>1. /\ p \in AllHandlers(t) /\ \A j \in AllHandlers(t) : j <= p
        /\ Exs(t)[p] = e /\ stack[t][p].ex = e /\ e \in Blocks /\ e # Null /\ e \notin ForeignObjs
    BY EndingHandler
  <1>2. e \in Objs
    BY <1>1 DEF Blocks
  <1>3. Live(e)
    BY <1>1, CurrentIsLive
  <1>4. /\ Built(e) \/ header[e].class = "dependent"
        /\ ~InConstruct(e)
    BY <1>2, <1>3, ScopeClasses
  <1>5. header[e].class \in {"primary", "dependent"}
    BY <1>4 DEF Built
  <1>6. Linked(AllHandlers(t), Flights(t), Exs(t), header, eh[t]) /\ eh[t] \in ThreadInfo
    BY <1>i DEF ThreadsLinked, ThreadLinked, TypeOK
  <1>7. header[e] \in HeaderType
    BY <1>1, <1>i DEF TypeOK
  <1> QED BY <1>1, <1>2, <1>3, <1>4, <1>5, <1>6, <1>7

\* There is another handler of the same exception further out.
LEMMA EndInnerInv ==
    ASSUME IInv, NEW t \in Threads, NEW p \in Nat, NEW n, NEW over, Ending(t, p, n, over),
           eh[t].foreign = "none", HandlersLeft(Current(t)) # 0, EndCatch(t, n, over), ptr' = ptr
    PROVE  IInv' /\ OwnersStep /\ program' = program
  <1>i. TypeOK /\ ThreadsLinked
    BY DEF IInv
  <1>e. PICK e : e = Current(t)
    OBVIOUS
  <1> DEFINE H == AllHandlers(t)
             U == Flights(t)
             x == Exs(t)
             r == eh[t]
  <1>1. /\ p \in H /\ \A j \in H : j <= p
        /\ x[p] = e /\ stack[t][p].ex = e /\ e \in Blocks /\ e \in Objs /\ e # Null
        /\ Linked(H, U, x, header, r) /\ r \in ThreadInfo
        /\ header[e] \in HeaderType /\ ~InConstruct(e)
        /\ header[e].class \in {"primary", "dependent"}
    BY <1>e, EndingException
  <1>2. e \notin ForeignObjs /\ Objs \subseteq Blocks
    BY <1>1, ExceptionsAssumption DEF Blocks
  <1>3. /\ header' = [header EXCEPT ![e].handlerCount = HandlersLeft(e)]
        /\ eh' = eh /\ stack' = Replace(t, n, over) /\ program' = program
    BY <1>1, <1>2, <1>e DEF EndCatch, isForeign
  <1>4. /\ HandlerEnds(t, p) /\ stack' \in [Threads -> Seq(ScopeType)]
        /\ \A i \in Pos(t)' : i >= p => stack'[t][i].kind # "destroy"
    BY <1>i, <1>3, EndReplace
  <1>5. header[e].handlerCount \in Int
    BY <1>1 DEF HeaderType
  <1>6. /\ HandlersLeft(e) \in Int /\ HandlersLeft(e) # 0 /\ header[e].handlerCount \notin {-1, 1}
        /\ HandlersLeft(e) = IF header[e].handlerCount < 0 THEN header[e].handlerCount + 1
                             ELSE header[e].handlerCount - 1
    BY <1>5, <1>e DEF HandlersLeft
  <1>7. /\ header'[e] = [header[e] EXCEPT !.handlerCount = HandlersLeft(e)]
        /\ \A d \in Blocks : d # e => header'[d] = header[d]
    BY <1>1, <1>3, <1>i DEF TypeOK
  <1>8. /\ header'[e].handlerCount = HandlersLeft(e)
        /\ header'[e].nextException = header[e].nextException
        /\ header'[e].class = header[e].class /\ header'[e].object = header[e].object
        /\ header'[e].exceptionDestructor = header[e].exceptionDestructor
        /\ header'[e].primaryException = header[e].primaryException
        /\ header'[e].referenceCount = header[e].referenceCount
    BY <1>1, <1>7 DEF HeaderType
  <1>9. header' \in [Blocks -> HeaderType]
    <2>1. header'[e] \in HeaderType
      BY <1>1, <1>6, <1>7, HeaderUpdates
    <2>2. header' \in [Blocks -> HeaderType] <=> \A d \in Blocks : header'[d] \in HeaderType
      BY <1>3, <1>i DEF TypeOK
    <2> QED BY <1>7, <1>i, <2>1, <2>2 DEF TypeOK
  <1>10. Counted(e)
    BY <1>1, <1>8 DEF Counted
  <1>11. Linked(Minus(H, p), U, x, header', r) /\ \E i \in Minus(H, p) : x[i] = e
    <2>1. \A i \in H \cup U : x[i] \in Objs /\ x[i] # e =>
                      /\ header'[x[i]].handlerCount = header[x[i]].handlerCount
                      /\ header'[x[i]].nextException = header[x[i]].nextException
      BY <1>2, <1>7
    <2>2. header'[e].handlerCount = IF header[e].handlerCount < 0 THEN header[e].handlerCount + 1
                                    ELSE header[e].handlerCount - 1
      BY <1>6, <1>8
    <2>3. header'[e].handlerCount # 0 /\ header'[e].nextException = header[e].nextException
      BY <1>6, <1>8
    <2>4. e \in Objs /\ x[p] = e /\ p \in H /\ \A j \in H : j <= p
      BY <1>1
    <2>5. Linked(H, U, x, header, r) /\ r \in ThreadInfo
      BY <1>1
    <2> HIDE DEF H, U, x, r
    <2>6. Linked(Minus(H, p), U, x, header', r)
      BY <2>1, <2>2, <2>3, <2>4, <2>5, LinkedEndInner
    <2>7. \E i \in Minus(H, p) : x[i] = e
      BY <1>6, <2>4, <2>5, OtherHandler
    <2> QED BY <2>6, <2>7
  <1>12. /\ \E i \in Minus(AllHandlers(t), p) \cup Flights(t) : Exs(t)[i] = e
         /\ Linked(Minus(AllHandlers(t), p), Flights(t), Exs(t), header', eh'[t])
    BY <1>3, <1>11
  <1>13. e \in Blocks /\ e = stack[t][p].ex /\ header'[e].referenceCount = header[e].referenceCount
    BY <1>1, <1>8
  <1>14. eh' \in [Threads -> ThreadInfo] /\ \A u \in Threads : u # t => eh'[u] = eh[u]
    BY <1>3, <1>i DEF TypeOK
  <1>15. \A d \in Blocks : d # e => header'[d] = header[d]
    BY <1>7
  <1> HIDE DEF H, U, x, r
  <1>16. IInv' /\ OwnersStep
    BY <1>4, <1>9, <1>10, <1>12, <1>13, <1>14, <1>15, EndStays
  <1> QED BY <1>3, <1>16

\* Its only handler ends while it is in flight again: it stays alive.
LEMMA EndFlightInv ==
    ASSUME IInv, NEW t \in Threads, NEW p \in Nat, NEW n, NEW over, Ending(t, p, n, over),
           eh[t].foreign = "none", HandlersLeft(Current(t)) = 0, ~DeleteException(Current(t)),
           EndCatch(t, n, over), ptr' = ptr
    PROVE  IInv' /\ OwnersStep /\ program' = program
  <1>i. TypeOK /\ ThreadsLinked
    BY DEF IInv
  <1>e. PICK e : e = Current(t)
    OBVIOUS
  <1> DEFINE H == AllHandlers(t)
             U == Flights(t)
             x == Exs(t)
             r == eh[t]
             q == eh'[t]
  <1>1. /\ p \in H /\ \A j \in H : j <= p
        /\ x[p] = e /\ stack[t][p].ex = e /\ e \in Blocks /\ e \in Objs /\ e # Null
        /\ Linked(H, U, x, header, r) /\ r \in ThreadInfo
        /\ header[e] \in HeaderType /\ ~InConstruct(e)
        /\ header[e].class \in {"primary", "dependent"}
    BY <1>e, EndingException
  <1>2. e \notin ForeignObjs /\ Objs \subseteq Blocks
    BY <1>1, ExceptionsAssumption DEF Blocks
  <1>3. /\ header' = [header EXCEPT ![e].handlerCount = 0]
        /\ eh' = [eh EXCEPT ![t].caught = header[e].nextException]
        /\ stack' = Replace(t, n, over) /\ program' = program
    <2>1. over \o << >> = over
      <3>1. over = << >> \/ over = << Found(t) >>
        BY DEF Ending
      <3>2. << >> \o << >> = << >> /\ \A f : << f >> \o << >> = << f >>
        OBVIOUS
      <3> QED BY <3>1, <3>2
    <2> QED BY <1>1, <1>2, <1>e, <2>1 DEF EndCatch, isForeign
  <1>4. /\ HandlerEnds(t, p) /\ stack' \in [Threads -> Seq(ScopeType)]
        /\ \A i \in Pos(t)' : i >= p => stack'[t][i].kind # "destroy"
    BY <1>i, <1>3, EndReplace
  <1>5. header[e].handlerCount \in Int /\ header[e].nextException \in Blocks \cup {Null}
    BY <1>1 DEF HeaderType
  <1>6. header[e].handlerCount = -1
    BY <1>5, <1>e DEF HandlersLeft, DeleteException
  <1>7. /\ header'[e] = [header[e] EXCEPT !.handlerCount = 0]
        /\ \A d \in Blocks : d # e => header'[d] = header[d]
    BY <1>1, <1>3, <1>i DEF TypeOK
  <1>8. /\ header'[e].handlerCount = 0
        /\ header'[e].nextException = header[e].nextException
        /\ header'[e].class = header[e].class /\ header'[e].object = header[e].object
        /\ header'[e].exceptionDestructor = header[e].exceptionDestructor
        /\ header'[e].primaryException = header[e].primaryException
        /\ header'[e].referenceCount = header[e].referenceCount
    BY <1>1, <1>7 DEF HeaderType
  <1>9. header' \in [Blocks -> HeaderType]
    <2>1. header'[e] \in HeaderType
      <3>1. PICK c \in Int : c = 0
        OBVIOUS
      <3>2. header'[e] = [header[e] EXCEPT !.handlerCount = c]
        BY <1>7, <3>1
      <3> QED BY <1>1, <3>2, HeaderUpdates
    <2>2. header' \in [Blocks -> HeaderType] <=> \A d \in Blocks : header'[d] \in HeaderType
      BY <1>3, <1>i DEF TypeOK
    <2> QED BY <1>7, <1>i, <2>1, <2>2 DEF TypeOK
  <1>10. Counted(e)
    BY <1>1, <1>8 DEF Counted
  <1>11. /\ eh' \in [Threads -> ThreadInfo] /\ \A u \in Threads : u # t => eh'[u] = eh[u]
         /\ q.caught = header[e].nextException /\ q.foreign = r.foreign /\ q.uncaught = r.uncaught
    BY <1>3, <1>5, <1>i DEF TypeOK, ThreadInfo
  <1>12. Linked(Minus(H, p), U, x, header', q) /\ \E j \in U : x[j] = e
    <2>1. \A i \in H \cup U : x[i] \in Objs /\ x[i] # e =>
                      /\ header'[x[i]].handlerCount = header[x[i]].handlerCount
                      /\ header'[x[i]].nextException = header[x[i]].nextException
      BY <1>2, <1>7
    <2>2. header[e].handlerCount \in Int /\ (header[e].handlerCount = 1 \/ header[e].handlerCount + 1 = 0)
      BY <1>5, <1>6
    <2>8. header[e].handlerCount < 0
      BY <1>6
    <2>3. header[e].handlerCount < 0 => header'[e].handlerCount = 0
      BY <1>8
    <2>4. e \in Objs /\ x[p] = e /\ p \in H /\ \A j \in H : j <= p
      BY <1>1
    <2>5. Linked(H, U, x, header, r) /\ r \in ThreadInfo
      BY <1>1
    <2>6. q.caught = header[e].nextException /\ q.foreign = r.foreign /\ q.uncaught = r.uncaught
      BY <1>11
    <2> HIDE DEF H, U, x, r, q
    <2>7. LastEnds(H, U, x, header, r, p, e, header', q)
      BY <2>1, <2>2, <2>3, <2>4, <2>5, <2>6 DEF LastEnds
    <2>9. /\ Linked(Minus(H, p), U, x, header', q)
          /\ header[e].handlerCount < 0 <=> \E j \in U : x[j] = e
      BY <2>7, LastEndsLinked
    <2> QED BY <2>8, <2>9
  <1>13. /\ \E i \in Minus(AllHandlers(t), p) \cup Flights(t) : Exs(t)[i] = e
         /\ Linked(Minus(AllHandlers(t), p), Flights(t), Exs(t), header', eh'[t])
    BY <1>12
  <1>14. e \in Blocks /\ e = stack[t][p].ex /\ header'[e].referenceCount = header[e].referenceCount
    BY <1>1, <1>8
  <1>15. eh' \in [Threads -> ThreadInfo] /\ \A u \in Threads : u # t => eh'[u] = eh[u]
    BY <1>11
  <1>16. \A d \in Blocks : d # e => header'[d] = header[d]
    BY <1>7
  <1> HIDE DEF H, U, x, r, q
  <1>17. IInv' /\ OwnersStep
    BY <1>4, <1>9, <1>10, <1>13, <1>14, <1>15, <1>16, EndStays
  <1> QED BY <1>3, <1>17

\* The primary exception that a C++ exception thrown or handled stands for.
LEMMA PrimaryOf ==
    ASSUME IInv, NEW e \in Objs, Live(e)
    PROVE  /\ Built(realException(e)) /\ realException(e) \in Objs
           /\ e = realException(e) \/ (header[e].class = "dependent" /\ header[e].primaryException = realException(e))
           /\ e \in Holders(realException(e))
           /\ header[e].class = "dependent" <=> e # realException(e)
  <1>1. Built(e) \/ header[e].class = "dependent"
    BY ScopeClasses
  <1>2. HeaderOK(e)
    BY DEF IInv, HeadersOK, Blocks
  <1>3. CASE header[e].class = "dependent"
    <2>1. Built(header[e].primaryException) /\ realException(e) = header[e].primaryException
      BY <1>2, <1>3 DEF HeaderOK, realException, isDependent
    <2>2. e # realException(e)
      BY <1>3, <2>1 DEF Built
    <2> QED BY <1>3, <2>1, <2>2 DEF Built, Holders, isDependent
  <1>4. CASE header[e].class # "dependent"
    <2>1. Built(e) /\ realException(e) = e
      BY <1>1, <1>4 DEF realException, isDependent
    <2>2. Thrown(e)
      BY ThrownIsLive
    <2> QED BY <1>4, <2>1, <2>2 DEF Built, Holders
  <1> QED BY <1>3, <1>4

\* Its only handler ends: releaseException.
LEMMA EndDeleteInv ==
    ASSUME IInv, NEW t \in Threads, NEW p \in Nat, NEW n, NEW over, Ending(t, p, n, over),
           eh[t].foreign = "none", HandlersLeft(Current(t)) = 0, DeleteException(Current(t)),
           EndCatch(t, n, over), ptr' = ptr
    PROVE  IInv' /\ OwnersStep /\ program' = program
  <1>i. TypeOK /\ ThreadsLinked
    BY DEF IInv
  <1>e. PICK e : e = Current(t)
    OBVIOUS
  <1> DEFINE H == AllHandlers(t)
             U == Flights(t)
             x == Exs(t)
             r == eh[t]
             q == eh'[t]
  <1>1. /\ p \in H /\ \A j \in H : j <= p
        /\ x[p] = e /\ stack[t][p].ex = e /\ e \in Blocks /\ e \in Objs /\ e # Null
        /\ Linked(H, U, x, header, r) /\ r \in ThreadInfo
        /\ header[e] \in HeaderType /\ Live(e)
    BY <1>e, EndingException
  <1>2. e \notin ForeignObjs /\ Objs \subseteq Blocks /\ e \notin Slots
    BY <1>1, ExceptionsAssumption DEF Blocks
  <1>m. PICK m : m = realException(e)
    OBVIOUS
  <1>3. /\ Built(m) /\ m \in Objs
        /\ e = m \/ (header[e].class = "dependent" /\ header[e].primaryException = m)
        /\ e \in Holders(m)
    BY <1>1, <1>m, PrimaryOf
  <1>g. PICK g : g = ReleasedHeader(e)
    OBVIOUS
  <1> DEFINE last == header[m].referenceCount - 1 = 0
  <1>4. /\ g \in [Blocks -> HeaderType]
        /\ \A d \in Blocks : d # e /\ d # m => g[d] = header[d]
        /\ g[m].referenceCount = header[m].referenceCount - 1
        /\ g[m].object = header[m].object
        /\ g[m].exceptionDestructor = header[m].exceptionDestructor
        /\ g[m].handlerCount = header[m].handlerCount
        /\ g[m].nextException = header[m].nextException
        /\ g[m].class = IF last THEN "dying" ELSE header[m].class
        /\ e # m => IF last THEN g[e].class = "dying" /\ g[e].object = header[e].object
                     ELSE g[e] = Freed
    BY <1>i, <1>1, <1>3, <1>m, <1>g, ReleasedFacts
  <1>5. /\ header' = [g EXCEPT ![e].handlerCount = 0]
        /\ eh' = [eh EXCEPT ![t].caught = header[e].nextException]
        /\ stack' = Replace(t, n, over \o ReleaseScopes(e)) /\ program' = program
    BY <1>1, <1>2, <1>e, <1>g DEF EndCatch, isForeign
  <1>6. /\ \A d \in Blocks : d # e => header'[d] = g[d]
        /\ header'[e] = [g[e] EXCEPT !.handlerCount = 0]
        /\ g[e] \in HeaderType
    BY <1>1, <1>4, <1>5
  <1>7. /\ header'[e].referenceCount = g[e].referenceCount /\ header'[e].object = g[e].object
        /\ header'[e].exceptionDestructor = g[e].exceptionDestructor
        /\ header'[e].class = g[e].class
        /\ g[e] = Freed => header'[e] = Freed
    <2>1. /\ header'[e].referenceCount = g[e].referenceCount /\ header'[e].object = g[e].object
          /\ header'[e].exceptionDestructor = g[e].exceptionDestructor
          /\ header'[e].class = g[e].class
      BY <1>6 DEF HeaderType
    <2>2. g[e] = Freed => header'[e] = Freed
      <3>1. Freed \in HeaderType /\ Freed.handlerCount = 0
        BY HeaderUpdates DEF Freed
      <3>2. \A h \in HeaderType : h.handlerCount = 0 => [h EXCEPT !.handlerCount = 0] = h
        BY DEF HeaderType
      <3> QED BY <1>6, <3>1, <3>2
    <2> QED BY <2>1, <2>2
  <1>8. header' \in [Blocks -> HeaderType]
    <2>1. PICK c \in Int : c = 0
      OBVIOUS
    <2>2. header'[e] = [g[e] EXCEPT !.handlerCount = c]
      BY <1>6, <2>1
    <2>3. header'[e] \in HeaderType
      BY <1>6, <2>2, HeaderUpdates
    <2>4. header' \in [Blocks -> HeaderType] <=> \A d \in Blocks : header'[d] \in HeaderType
      BY <1>4, <1>5
    <2> QED BY <1>4, <1>6, <2>3, <2>4
  <1>9. Releases(e, m)
    <2>1. \A d \in Blocks : d # e /\ d # m => header'[d] = header[d]
      BY <1>4, <1>6
    <2>2. /\ header'[m].referenceCount = header[m].referenceCount - 1
          /\ header'[m].object = header[m].object
          /\ header'[m].exceptionDestructor = header[m].exceptionDestructor
          /\ header'[m].class = IF last THEN "dying" ELSE header[m].class
      <3>1. CASE e = m
        BY <1>4, <1>7, <3>1
      <3>2. CASE e # m
        BY <1>2, <1>3, <1>4, <1>6, <3>2
      <3> QED BY <3>1, <3>2
    <2>3. e # m => IF last THEN header'[e].class = "dying" /\ header'[e].object = header[e].object
                   ELSE header'[e] = Freed
      BY <1>4, <1>7
    <2> QED BY <2>1, <2>2, <2>3 DEF Releases
  <1>10. header[e].handlerCount \in Int /\ header[e].nextException \in Blocks \cup {Null}
    BY <1>1 DEF HeaderType
  <1>11. header[e].handlerCount = 1
    BY <1>10, <1>e DEF HandlersLeft, DeleteException
  <1>12. \A d \in Objs : d # e => /\ header'[d].handlerCount = header[d].handlerCount
                                  /\ header'[d].nextException = header[d].nextException
    <2>1. ASSUME NEW d \in Objs, d # e
          PROVE  /\ header'[d].handlerCount = header[d].handlerCount
                 /\ header'[d].nextException = header[d].nextException
      <3>1. header'[d] = g[d]
        BY <1>2, <1>6, <2>1
      <3>2. CASE d = m
        BY <1>4, <3>1, <3>2
      <3>3. CASE d # m
        BY <1>2, <1>4, <2>1, <3>1, <3>3
      <3> QED BY <3>2, <3>3
    <2> QED BY <2>1
  <1>13. /\ eh' \in [Threads -> ThreadInfo] /\ \A u \in Threads : u # t => eh'[u] = eh[u]
         /\ q.caught = header[e].nextException /\ q.foreign = r.foreign /\ q.uncaught = r.uncaught
    BY <1>5, <1>10, <1>i DEF TypeOK, ThreadInfo
  <1>14. /\ Linked(Minus(H, p), U, x, header', q)
         /\ \A j \in U : x[j] # e
         /\ \A i \in Minus(H, p) : x[i] # e
    <2>1. \A i \in H \cup U : x[i] \in Objs /\ x[i] # e =>
                      /\ header'[x[i]].handlerCount = header[x[i]].handlerCount
                      /\ header'[x[i]].nextException = header[x[i]].nextException
      BY <1>12
    <2>2. /\ header[e].handlerCount \in Int /\ (header[e].handlerCount = 1 \/ header[e].handlerCount + 1 = 0)
          /\ ~(header[e].handlerCount < 0)
      BY <1>11
    <2>4. e \in Objs /\ x[p] = e /\ p \in H /\ \A j \in H : j <= p
      BY <1>1
    <2>5. Linked(H, U, x, header, r) /\ r \in ThreadInfo
      BY <1>1
    <2>6. q.caught = header[e].nextException /\ q.foreign = r.foreign /\ q.uncaught = r.uncaught
      BY <1>13
    <2> HIDE DEF H, U, x, r, q
    <2>7. LastEnds(H, U, x, header, r, p, e, header', q)
      BY <2>1, <2>2, <2>4, <2>5, <2>6 DEF LastEnds
    <2>9. /\ Linked(Minus(H, p), U, x, header', q)
          /\ header[e].handlerCount < 0 <=> \E j \in U : x[j] = e
          /\ \A i \in Minus(H, p) : x[i] # e
      BY <2>7, LastEndsLinked
    <2> QED BY <2>2, <2>9
  <1>15. /\ HandlerEnds(t, p) /\ stack' \in [Threads -> Seq(ScopeType)]
         /\ IF last THEN DestroyPushed(t, Scope("destroy", m, IF m = e THEN Null ELSE e))
            ELSE SameScopes({"destroy"})
    <2>1. CASE last
      <3> DEFINE s == Scope("destroy", m, IF m = e THEN Null ELSE e)
      <3>1. ReleaseScopes(e) = << s >>
        BY <1>m, <2>1 DEF ReleaseScopes
      <3>2. stack' = Replace(t, n, over \o << s >>)
        BY <1>5, <3>1
      <3>3. s \in ScopeType /\ s.kind = "destroy"
        BY <1>2, <1>1, <1>3 DEF Scope, ScopeType
      <3> HIDE DEF s
      <3>4. HandlerEnds(t, p) /\ stack' \in [Threads -> Seq(ScopeType)] /\ DestroyPushed(t, s)
        BY <1>i, <3>2, <3>3, EndReplaceDestroy
      <3> QED BY <2>1, <3>4 DEF s
    <2>2. CASE ~last
      <3>1. ReleaseScopes(e) = << >>
        BY <1>m, <2>2 DEF ReleaseScopes
      <3>2. over \o << >> = over
        <4>1. over = << >> \/ over = << Found(t) >>
          BY DEF Ending
        <4>2. << >> \o << >> = << >> /\ \A f : << f >> \o << >> = << f >>
          OBVIOUS
        <4> QED BY <4>1, <4>2
      <3>3. stack' = Replace(t, n, over)
        BY <1>5, <3>1, <3>2
      <3>4. /\ HandlerEnds(t, p) /\ stack' \in [Threads -> Seq(ScopeType)]
            /\ \A i \in Pos(t)' : i >= p => stack'[t][i].kind # "destroy"
        BY <1>i, <3>3, EndReplace
      <3>5. SameScopes({"destroy"})
        BY <1>i, <3>4, EndShape
      <3> QED BY <2>2, <3>4, <3>5
    <2> QED BY <2>1, <2>2
  <1>16. /\ ThreadsLinked' /\ OneThread' /\ SameScopes({"construct"})
         /\ \A d : Live(d)' <=> Live(d) /\ d # e
    <2>1. \A i \in Minus(AllHandlers(t), p) \cup Flights(t) : Exs(t)[i] # e
      BY <1>14
    <2>2. e = stack[t][p].ex
      BY <1>1
    <2>3. Linked(Minus(AllHandlers(t), p), Flights(t), Exs(t), header', eh'[t])
      BY <1>14
    <2>4. \A u \in Threads : u # t => eh'[u] = eh[u]
      BY <1>13
    <2> HIDE DEF H, U, x, r, q
    <2> QED BY <1>12, <1>15, <2>1, <2>2, <2>3, <2>4, EndGoes
  <1>17. TypeOK'
    BY <1>8, <1>13, <1>15, <1>i DEF TypeOK
  <1>18. IInv' /\ OwnersStep
    <2>1. e \in Objs /\ e \in Holders(m) /\ Built(m)
      BY <1>1, <1>3
    <2>2. \A d : d # e => (Live(d)' <=> Live(d))
      BY <1>16
    <2>3. ~Live(e)'
      BY <1>16
    <2>4. \A s \in Slots : ptr'[s] = IF s = e THEN Null ELSE ptr[s]
      BY <1>2
    <2>5. e = m \/ (header[e].class = "dependent" /\ header[e].primaryException = m)
      BY <1>3
    <2>6. IF header[m].referenceCount - 1 = 0
          THEN DestroyPushed(t, Scope("destroy", m, IF m = e THEN Null ELSE e))
          ELSE SameScopes({"destroy"})
      BY <1>15
    <2>7. TypeOK' /\ OneThread' /\ ThreadsLinked' /\ SameScopes({"construct"})
      BY <1>16, <1>17
    <2> HIDE DEF H, U, x, r, q, last
    <2> QED BY <1>9, <2>1, <2>2, <2>3, <2>4, <2>5, <2>6, <2>7, ReleaseInv
  <1> QED BY <1>5, <1>18

\* __cxa_end_catch.
LEMMA EndCatchInv ==
    ASSUME IInv, NEW t \in Threads, NEW p \in Nat, NEW n, NEW over, Ending(t, p, n, over),
           EndCatch(t, n, over), ptr' = ptr
    PROVE  IInv' /\ OwnersStep /\ program' = program
  <1>1. CASE eh[t].foreign # "none"
    BY <1>1, EndForeignInv
  <1>2. CASE eh[t].foreign = "none" /\ HandlersLeft(Current(t)) # 0
    BY <1>2, EndInnerInv
  <1>3. CASE eh[t].foreign = "none" /\ HandlersLeft(Current(t)) = 0 /\ ~DeleteException(Current(t))
    BY <1>3, EndFlightInv
  <1>4. CASE eh[t].foreign = "none" /\ HandlersLeft(Current(t)) = 0 /\ DeleteException(Current(t))
    BY <1>4, EndDeleteInv
  <1> QED BY <1>1, <1>2, <1>3, <1>4

LEMMA LeaveCatchInv ==
    ASSUME IInv, NEW t \in Threads, LeaveCatch(t)
    PROVE  IInv' /\ OwnersStep /\ program' = program
  <1>1. Depth(t) \in Nat
    BY TopScope DEF LeaveCatch, IInv
  <1>2. Ending(t, Depth(t), 1, << >>) /\ EndCatch(t, 1, << >>) /\ ptr' = ptr
    BY DEF Ending, LeaveCatch
  <1>3. PICK p \in Nat : p = Depth(t)
    BY <1>1
  <1>4. Ending(t, p, 1, << >>)
    BY <1>2, <1>3
  <1> QED BY <1>2, <1>4, EndCatchInv

LEMMA EscapeCatchInv ==
    ASSUME IInv, NEW t \in Threads, EscapeCatch(t)
    PROVE  IInv' /\ OwnersStep /\ program' = program
  <1>1. /\ Depth(t) > 1 /\ In(t, "unwind") /\ stack[t][Depth(t) - 1].kind \in {"catch", "unexpected"}
        /\ EndCatch(t, 2, << Found(t) >>) /\ ptr' = ptr
    BY DEF EscapeCatch, Unwinding, Under
  <1>2. Depth(t) \in Nat
    BY <1>1, TopScope DEF IInv
  <1>3. PICK p \in Nat : p = Depth(t) - 1
    BY <1>1, <1>2
  <1>4. p > 0 /\ Depth(t) = p + 1 /\ stack[t][p].kind \in {"catch", "unexpected"}
    BY <1>1, <1>2, <1>3
  <1>5. PICK f : f = << Found(t) >>
    OBVIOUS
  <1>6. Ending(t, p, 2, f) /\ EndCatch(t, 2, f)
    BY <1>1, <1>4, <1>5 DEF Ending
  <1> QED BY <1>1, <1>6, EndCatchInv

(***************************************************************************)
(* The list of caught exceptions.                                          *)
(***************************************************************************)
\* S holds the head of a list and, with an exception, the next one.
Closed(S, c, h) ==
    /\ c # Null => c \in S
    /\ \A x \in S \cap Objs : h[x].nextException # Null => h[x].nextException \in S

\* The exceptions of the handlers are closed, and in every closed set.
LEMMA HandlersClosed ==
    ASSUME NEW H, NEW U, NEW x, NEW h, NEW r, Linked(H, U, x, h, r)
    PROVE  Closed({x[i] : i \in H}, r.caught, h)
  <1> DEFINE S == {x[i] : i \in H}
  <1>p. Positions(H, U, x)
    BY DEF Linked
  <1>1. H \subseteq Nat
    BY <1>p, PositionsFinite
  <1>2. r.caught # Null => r.caught \in S
    BY InnermostHandler
  <1>3. ASSUME NEW e \in S, e \in Objs, h[e].nextException # Null
        PROVE  h[e].nextException \in S
    <2> DEFINE I == {i \in H : x[i] = e}
    <2>1. I # {} /\ I \subseteq Nat
      BY <1>1, <1>3
    <2> HIDE DEF I
    <2>2. PICK i \in I : \A j \in I : i <= j
      BY <2>1, LeastPosition
    <2>3. i \in H /\ x[i] = e /\ i \in Nat /\ \A j \in H : x[j] = e => i <= j
      BY <1>1, <2>2 DEF I
    <2>4. ~\A j \in H : i <= j
      BY <1>3, <2>3 DEF Linked, NextIs
    <2> DEFINE J == {j \in H : j < i}
    <2>5. J # {} /\ J \subseteq Nat /\ \A j \in J : j <= i
      <3>1. PICK j \in H : ~(i <= j)
        BY <2>4
      <3>2. j \in J
        BY <1>1, <2>3, <3>1
      <3>3. \A k \in J : k \in Nat /\ k <= i
        BY <1>1, <2>3
      <3> QED BY <3>2, <3>3
    <2> HIDE DEF J
    <2>6. PICK k \in J : \A j \in J : j <= k
      <3>1. i \in Nat
        BY <2>3
      <3> QED BY <2>5, <3>1, BoundedGreatest
    <2>7. k \in H /\ k < i /\ x[k] # x[i] /\ \A j \in H : j <= k \/ i <= j
      BY <1>1, <2>3, <2>6 DEF J
    <2>8. h[e].nextException = x[k]
      BY <1>3, <2>3, <2>7 DEF Linked, NextIs
    <2> QED BY <2>7, <2>8
  <1> QED BY <1>2, <1>3 DEF Closed

LEMMA ClosedHandlers ==
    ASSUME NEW H, NEW U, NEW x, NEW h, NEW r, Linked(H, U, x, h, r),
           NEW S, Closed(S, r.caught, h)
    PROVE  \A i \in H : x[i] \in S
  <1>p. Positions(H, U, x)
    BY DEF Linked
  <1>1. H \subseteq Nat /\ \A i \in H : x[i] \in Blocks /\ x[i] # Null
    <2>1. Null \notin Blocks
      BY ExceptionsAssumption DEF Blocks
    <2> QED BY <1>p, <2>1, PositionsFinite DEF Positions
  <1> DEFINE I == {i \in H : x[i] \notin S}
  <1>2. SUFFICES ASSUME I # {} PROVE FALSE
    OBVIOUS
  <1>3. PICK n \in Nat : H \cup U \subseteq 1 .. n
    BY <1>p DEF Positions
  <1>4. I \subseteq Nat /\ \A i \in I : i <= n
    BY <1>1, <1>3
  <1>5. PICK i \in I : \A j \in I : j <= i
    <2>1. I # {} /\ I \subseteq Nat /\ \A i \in I : i <= n
      BY <1>2, <1>4
    <2> HIDE DEF I
    <2> QED BY <2>1, BoundedGreatest
  <1>6. i \in H /\ i \in Nat /\ x[i] \notin S /\ \A j \in H : i < j => x[j] \in S
    BY <1>1, <1>5
  <1>7. CASE \A j \in H : j <= i
    BY <1>1, <1>6, <1>7 DEF Linked, HeadIs, Closed
  <1>8. CASE \E j \in H : ~(j <= i)
    <2> DEFINE J == {j \in H : i < j}
    <2>1. J # {} /\ J \subseteq Nat
      <3>1. PICK j \in H : ~(j <= i)
        BY <1>8
      <3>2. j \in J
        BY <1>1, <1>6, <3>1
      <3> QED BY <1>1, <3>2
    <2> HIDE DEF J
    <2>2. PICK j \in J : \A k \in J : j <= k
      BY <2>1, LeastPosition
    <2>3. j \in H /\ i < j /\ x[j] \in S /\ \A k \in H : k <= i \/ j <= k
      BY <1>1, <1>6, <2>2 DEF J
    <2>4. x[j] \in Objs
      <3>1. x[j] \notin ForeignObjs
        BY <1>1, <1>6, <2>3 DEF Linked, ForeignIs
      <3> QED BY <1>1, <2>3, <3>1 DEF Blocks
    <2>5. h[x[j]].nextException = x[i]
      BY <1>6, <2>3, <2>4 DEF Linked, NextIs
    <2> QED BY <1>1, <1>6, <2>3, <2>4, <2>5 DEF Closed
  <1> QED BY <1>7, <1>8

\* They are the list of the thread.
LEMMA ListIsHandlers ==
    ASSUME NEW t \in Threads, ThreadLinked(t)
    PROVE  CaughtList(t) = {Exs(t)[i] : i \in AllHandlers(t)}
  <1> DEFINE H == AllHandlers(t)
             U == Flights(t)
             x == Exs(t)
             r == eh[t]
             L == {x[i] : i \in H}
  <1>1. Linked(H, U, x, header, r)
    BY DEF ThreadLinked
  <1>2. CaughtList(t) = {e \in Blocks : \A S \in SUBSET Blocks : Closed(S, r.caught, header) => e \in S}
    BY DEF CaughtList, Closed, Current
  <1>3. L \subseteq Blocks
    BY <1>1 DEF Linked, Positions
  <1> HIDE DEF H, U, x, r
  <1>4. Closed(L, r.caught, header)
    BY <1>1, HandlersClosed
  <1>5. ASSUME NEW S \in SUBSET Blocks, Closed(S, r.caught, header) PROVE L \subseteq S
    <2>1. \A i \in H : x[i] \in S
      BY <1>1, <1>5, ClosedHandlers
    <2> QED BY <2>1
  <1> HIDE DEF L
  <1>6. CaughtList(t) = L
    BY <1>2, <1>3, <1>4, <1>5
  <1> QED BY <1>6 DEF L, H, x

\* __cxa_free_exception of a primary exception that nothing refers to: its
\* destructor is called.
LEMMA DyingInv ==
    ASSUME IInv, TypeOK', OneThread', ThreadsLinked', NEW t \in Threads, NEW e \in Objs,
           header[e].class = "primary", header'[e].class = "dying",
           header'[e].object = header[e].object,
           "makePtrThrows" \notin Habits => header[e].object = "built",
           \A d \in Blocks : d # e => header'[d] = header[d], ptr' = ptr,
           \A d : Live(d)' <=> Live(d) /\ d # e,
           SubScopes({"construct"}), \A d : InConstruct(d)' <=> InConstruct(d) /\ d # e,
           DestroyPushed(t, Scope("destroy", e, Null)),
           ~Held(e)
    PROVE  IInv' /\ OwnersStep
  <1>i. /\ TypeOK /\ ConstructsOK /\ DestroysOK /\ LiveOK /\ HeadersOK /\ PtrsOK /\ RefsOK
    BY DEF IInv
  <1>0. e \in Blocks /\ e # Null /\ e \notin ForeignObjs /\ Objs \subseteq Blocks
    BY ExceptionsAssumption DEF Blocks
  <1>1. /\ ~InDestroy(e)
        /\ \A s \in Slots : ptr[s] # e
        /\ \A d \in Objs : header[d].class = "dependent" => header[d].primaryException # e
    <2>1. ~InDestroy(e)
      BY <1>0, ScopeClasses
    <2> QED BY <2>1 DEF Held, isDependent
  <1>2. \A d : Built(d)' <=> Built(d) /\ d # e
    <2>1. ~Built(e)'
      BY DEF Built
    <2>2. \A d \in Blocks : d # e => (Built(d)' <=> Built(d))
      BY DEF Built
    <2>3. \A d : d \notin Blocks => ~Built(d) /\ ~Built(d)'
      BY DEF Built, Blocks
    <2> QED BY <2>1, <2>2, <2>3
  <1>3. ConstructsOK'
    <2>1. ASSUME NEW u \in Threads, NEW j \in Pos(u)', stack'[u][j].kind = "construct"
          PROVE  /\ j \in Pos(u) /\ stack'[u][j] = stack[u][j]
                 /\ header'[stack[u][j].ex] = header[stack[u][j].ex]
      <3>1. j \in Pos(u) /\ stack'[u][j] = stack[u][j]
        BY <2>1 DEF SubScopes
      <3>2. PICK d : d = stack[u][j].ex
        OBVIOUS
      <3>3. InConstruct(d)'
        BY <2>1, <3>1, <3>2 DEF InConstruct
      <3>4. InConstruct(d) /\ d # e
        BY <3>3
      <3>5. d \in Blocks
        BY <3>4, ScopeClasses DEF Blocks
      <3> QED BY <3>1, <3>2, <3>4, <3>5
    <2> QED BY <1>i, <2>1, ConstructSub
  <1>g. PICK g : g = Scope("destroy", e, Null)
    OBVIOUS
  <1>4. g.kind = "destroy" /\ g.ex = e /\ g.aux = Null
    BY <1>g DEF Scope
  <1>5. DestroysOK' /\ (\A d : InDestroy(d) => InDestroy(d)') /\ InDestroy(e)'
    <2>1. DestroyOK(g)'
      BY <1>4 DEF DestroyOK
    <2>2. \A d \in Objs : InDestroy(d) => header'[d] = header[d]
      BY <1>0, <1>1
    <2>3. DestroyPushed(t, g)
      BY <1>g
    <2>4. ~InDestroy(g.ex) /\ (g.aux # Null => ~InDestroy(g.aux)) /\ g.kind = "destroy"
      BY <1>1, <1>4
    <2>5. DestroysOK' /\ (\A d : InDestroy(d) => InDestroy(d)') /\ InDestroy(g.ex)'
      BY <2>1, <2>2, <2>3, <2>4, DestroyPush
    <2> QED BY <1>4, <2>5
  <1>6. LiveOK'
    <2>1. ASSUME NEW d, Live(d)'
          PROVE  \/ Built(d)'
                 \/ d \in Objs /\ header'[d].class = "dependent"
                 \/ d \in ForeignObjs /\ header'[d].class = "foreign"
      <3>1. Live(d) /\ d # e
        BY <2>1
      <3>2. \/ Built(d)
            \/ d \in Objs /\ header[d].class = "dependent"
            \/ d \in ForeignObjs /\ header[d].class = "foreign"
        BY <1>i, <3>1 DEF LiveOK
      <3>3. d \in Objs \cup ForeignObjs => header'[d] = header[d]
        BY <3>1 DEF Blocks
      <3> QED BY <1>2, <3>1, <3>2, <3>3
    <2> QED BY <2>1 DEF LiveOK
  <1>7. HeadersOK'
    <2> DEFINE S == {e}
    <2>1. \A d \in Blocks : d \notin S =>
               /\ Counted(d)
               /\ InConstruct(d) => InConstruct(d)'
               /\ InDestroy(d) => InDestroy(d)'
               /\ Live(d) => Live(d)'
               /\ header[d].class = "dependent" => Built(header[d].primaryException)'
      <3>1. ASSUME NEW d \in Blocks, d # e, header[d].class = "dependent"
            PROVE  Built(header[d].primaryException)'
        <4>1. Built(header[d].primaryException) /\ d \in Objs
          BY <1>i, <3>1 DEF HeadersOK, HeaderOK
        <4>2. PICK c : c = header[d].primaryException
          OBVIOUS
        <4>3. Built(c)'
          BY <1>1, <1>2, <3>1, <4>1, <4>2
        <4>4. header'[d].primaryException = c
          BY <3>1, <4>2
        <4> QED BY <4>3, <4>4
      <3> QED BY <1>5, <3>1 DEF Counted
    <2>2. \A d \in Blocks : d \in S => HeaderOK(d)'
      BY <1>5 DEF HeaderOK
    <2> HIDE DEF S
    <2> QED BY <1>i, <2>1, <2>2, HeadersStep
  <1>8. PtrsOK'
    BY <1>i, <1>1, <1>2 DEF PtrsOK
  <1>9. RefsOK' /\ OwnersStep
    <2>1. ASSUME NEW d \in Objs PROVE RefOK(d)' /\ OwnStep(d)
      <3>1. CASE d = e
        BY <3>1, OwnUnheld DEF RefOK
      <3>2. CASE d # e
        <4>1. header'[d] = header[d]
          BY <1>0, <3>2
        <4>2. \A c \in Objs : header'[c].class = "dependent" /\ header'[c].primaryException = d <=>
                              header[c].class = "dependent" /\ header[c].primaryException = d
          <5>1. \A c \in Objs : c # e => header'[c] = header[c]
            BY <1>0
          <5> QED BY <5>1
        <4>3. Live(d)' <=> Live(d)
          BY <3>2
        <4>4. Holders(d)' = Holders(d)
          BY <4>2, <4>3, HoldersSame
        <4>5. RefOK(d)
          BY <1>i DEF RefsOK
        <4> QED BY <4>1, <4>4, <4>5, RefFrame
      <3> QED BY <3>1, <3>2
    <2> QED BY <2>1 DEF RefsOK, OwnersStep
  <1> QED BY <1>3, <1>5, <1>6, <1>7, <1>8, <1>9 DEF IInv

(***************************************************************************)
(* A constructor throws.                                                   *)
(***************************************************************************)
\* The exception on top leaves the construction at p.
ConstructLeft(t, p) ==
    /\ p \in Nat \ {0} /\ stack[t][p].kind = "construct" /\ Kept(t, p - 1)
    /\ Depth(t) = p + 1 /\ Depth(t)' \in Nat /\ Depth(t)' >= p
    /\ stack[t][p + 1].kind = "unwind" /\ stack'[t][p].kind = "unwind"
    /\ stack'[t][p].ex = stack[t][p + 1].ex
    /\ \A i \in Pos(t)' : i > p => stack'[t][i].kind = "destroy"

LEMMA ConstructShape ==
    ASSUME TypeOK, NEW t \in Threads, NEW p, ConstructLeft(t, p)
    PROVE  /\ p + 1 \in Flights(t) /\ p \in Pos(t) /\ p \in Nat
           /\ \A i \in (AllHandlers(t) \cup Flights(t)) \ {p + 1} : i < p
           /\ p \notin AllHandlers(t) \cup Flights(t)
           /\ AllHandlers(t)' = AllHandlers(t)
           /\ Flights(t)' = Plus(Minus(Flights(t), p + 1), p)
           /\ \A i \in (AllHandlers(t) \cup Flights(t)) \ {p + 1} : Exs(t)'[i] = Exs(t)[i]
           /\ Exs(t)'[p] = Exs(t)[p + 1]
           /\ SubScopes({"construct"})
           /\ \A u \in Threads : \A j \in Pos(u) : stack[u][j].kind = "construct" /\ ~(u = t /\ j = p) =>
                  j \in Pos(u)' /\ stack'[u][j] = stack[u][j]
           /\ ~(stack'[t][p].kind = "construct")
           /\ (\A i \in Pos(t)' : i >= p => stack'[t][i].kind # "destroy") => SameScopes({"destroy"})
  <1>1. /\ p \in Nat /\ p > 0 /\ Depth(t) = p + 1 /\ p \in Pos(t) /\ p + 1 \in Pos(t) /\ p \in Pos(t)'
        /\ \A i \in Pos(t) : i = p \/ i = p + 1 \/ i \in 1 .. p - 1
        /\ \A i \in Pos(t)' : i = p \/ i > p \/ i \in 1 .. p - 1
    BY DEF ConstructLeft, Pos
  <1>2. \A i \in 1 .. p - 1 : i \in Pos(t)' /\ i \in Pos(t) /\ stack'[t][i] = stack[t][i]
    <2>1. \A i \in 1 .. p - 1 : i \in Pos(t) /\ i \in Nat /\ i <= p - 1
      BY <1>1 DEF Pos
    <2> QED BY <2>1 DEF ConstructLeft, Kept
  <1>3. \A i \in 1 .. p - 1 : i < p /\ i # p /\ i # p + 1 /\ i \in Nat
    BY <1>1
  <1>4. /\ stack[t][p].kind = "construct" /\ stack[t][p + 1].kind = "unwind"
        /\ stack'[t][p].kind = "unwind" /\ stack'[t][p].ex = stack[t][p + 1].ex
        /\ \A i \in Pos(t)' : i > p => stack'[t][i].kind = "destroy"
    BY DEF ConstructLeft
  <1>5. /\ p + 1 \in Flights(t) /\ p \notin AllHandlers(t) /\ p \notin Flights(t)
        /\ p + 1 \notin AllHandlers(t)
        /\ \A i \in AllHandlers(t) \cup Flights(t) : i = p + 1 \/ i \in 1 .. p - 1
    BY <1>1, <1>4 DEF Flights, AllHandlers, Pos
  <1>6. AllHandlers(t)' = AllHandlers(t)
    <2>1. \A i : i \in AllHandlers(t)' => i \in AllHandlers(t)
      <3>1. ASSUME NEW i, i \in AllHandlers(t)' PROVE i \in AllHandlers(t)
        <4>1. i \in Pos(t)' /\ stack'[t][i].kind \in {"catch", "unexpected"}
          BY <3>1 DEF AllHandlers, Pos
        <4>2. i \in 1 .. p - 1
          BY <1>1, <1>4, <4>1
        <4> QED BY <1>2, <4>1, <4>2 DEF AllHandlers, Pos
      <3> QED BY <3>1
    <2>2. \A i \in AllHandlers(t) : i \in AllHandlers(t)'
      <3>1. ASSUME NEW i \in AllHandlers(t) PROVE i \in AllHandlers(t)'
        <4>1. i \in 1 .. p - 1 /\ stack[t][i].kind \in {"catch", "unexpected"}
          BY <1>5 DEF AllHandlers
        <4> QED BY <1>2, <4>1 DEF AllHandlers, Pos
      <3> QED BY <3>1
    <2> QED BY <2>1, <2>2
  <1>7. Flights(t)' = Plus(Minus(Flights(t), p + 1), p)
    <2> DEFINE V == Flights(t)'
               W == Flights(t)
    <2>1. p \in V /\ \A i \in V : i = p \/ i \in 1 .. p - 1
      BY <1>1, <1>4 DEF Flights
    <2>2. \A i \in 1 .. p - 1 : i \in V <=> i \in W
      BY <1>2 DEF Flights
    <2>3. \A i \in W : i = p + 1 \/ i \in 1 .. p - 1
      BY <1>5
    <2> HIDE DEF V, W
    <2>4. \A i : i \in V <=> i \in (W \ {p + 1}) \cup {p}
      BY <1>3, <2>1, <2>2, <2>3
    <2> QED BY <2>4 DEF Plus, Minus, V, W
  <1>8. \A i \in (AllHandlers(t) \cup Flights(t)) \ {p + 1} : i < p /\ Exs(t)'[i] = Exs(t)[i]
    <2>1. \A i \in 1 .. p - 1 : Exs(t)'[i] = Exs(t)[i]
      BY <1>2 DEF Exs
    <2> QED BY <1>3, <1>5, <2>1
  <1>9. Exs(t)'[p] = Exs(t)[p + 1]
    BY <1>1, <1>4 DEF Exs
  <1>10. \A u \in Threads : u # t => \A j \in Nat :
             (j \in Pos(u)' <=> j \in Pos(u)) /\ (j \in Pos(u) => stack'[u][j] = stack[u][j])
    BY DEF ConstructLeft, Kept
  <1>n. \A u \in Threads : \A j : (j \in Pos(u) => j \in Nat) /\ (j \in Pos(u)' => j \in Nat)
    BY DEF Pos
  <1>11. SubScopes({"construct"})
    <2>1. ASSUME NEW u \in Threads, NEW j \in Pos(u)', stack'[u][j].kind = "construct"
          PROVE  j \in Pos(u) /\ stack'[u][j] = stack[u][j]
      <3>1. CASE u = t
        BY <1>1, <1>2, <1>4, <2>1, <3>1
      <3>2. CASE u # t
        BY <1>10, <1>n, <3>2
      <3> QED BY <3>1, <3>2
    <2> QED BY <2>1 DEF SubScopes
  <1>12. \A u \in Threads : \A j \in Pos(u) : stack[u][j].kind = "construct" /\ ~(u = t /\ j = p) =>
                  j \in Pos(u)' /\ stack'[u][j] = stack[u][j]
    <2>1. ASSUME NEW u \in Threads, NEW j \in Pos(u), stack[u][j].kind = "construct", ~(u = t /\ j = p)
          PROVE  j \in Pos(u)' /\ stack'[u][j] = stack[u][j]
      <3>1. CASE u = t
        BY <1>1, <1>2, <1>4, <2>1, <3>1
      <3>2. CASE u # t
        BY <1>10, <1>n, <3>2
      <3> QED BY <3>1, <3>2
    <2> QED BY <2>1
  <1>13. ASSUME \A i \in Pos(t)' : i >= p => stack'[t][i].kind # "destroy"
         PROVE  SameScopes({"destroy"})
    <2>1. ASSUME NEW u \in Threads, NEW j \in Nat
          PROVE  /\ (j \in Pos(u) /\ stack[u][j].kind = "destroy") <=>
                       (j \in Pos(u)' /\ stack'[u][j].kind = "destroy")
                 /\ j \in Pos(u) /\ stack[u][j].kind = "destroy" => stack'[u][j] = stack[u][j]
      <3>1. CASE u = t
        <4>1. CASE j \in 1 .. p - 1
          BY <1>2, <3>1, <4>1
        <4>2. CASE j \notin 1 .. p - 1
          <5>1. j \in Pos(t) => stack[t][j].kind # "destroy"
            BY <1>1, <1>4, <4>2
          <5>2. j \in Pos(t)' => stack'[t][j].kind # "destroy"
            BY <1>1, <1>4, <1>13, <4>2
          <5> QED BY <3>1, <5>1, <5>2
        <4> QED BY <4>1, <4>2
      <3>2. CASE u # t
        BY <1>10, <3>2
      <3> QED BY <3>1, <3>2
    <2> QED BY <2>1 DEF SameScopes
  <1> QED BY <1>1, <1>4, <1>5, <1>6, <1>7, <1>8, <1>9, <1>11, <1>12, <1>13

LEMMA ConstructGone ==
    ASSUME IInv, NEW t \in Threads, NEW p, ConstructLeft(t, p), NEW c, c = stack[t][p].ex,
           eh' = eh, \A d \in Objs : d # c => header'[d] = header[d]
    PROVE  /\ ThreadsLinked' /\ OneThread'
           /\ ConstructOK(stack[t][p]) /\ c \in Objs /\ ~Live(c) /\ ~Held(c)
           /\ \A d : Live(d)' <=> Live(d) /\ d # c
           /\ SubScopes({"construct"})
           /\ \A d : InConstruct(d)' <=> InConstruct(d) /\ d # c
  <1>i. TypeOK /\ ThreadsLinked /\ OneThread /\ ConstructsOK /\ PtrsOK /\ HeadersOK
    BY DEF IInv
  <1> DEFINE H == AllHandlers(t)
             U == Flights(t)
             x == Exs(t)
             y == Exs(t)'
             r == eh[t]
             q == p + 1
  <1>1. /\ q \in U /\ p \in Pos(t) /\ p \in Nat
        /\ \A i \in (H \cup U) \ {q} : i < p
        /\ p \notin H \cup U
        /\ AllHandlers(t)' = H
        /\ Flights(t)' = Plus(Minus(U, q), p)
        /\ \A i \in (H \cup U) \ {q} : y[i] = x[i]
        /\ y[p] = x[q]
        /\ SubScopes({"construct"})
        /\ \A u \in Threads : \A j \in Pos(u) : stack[u][j].kind = "construct" /\ ~(u = t /\ j = p) =>
               j \in Pos(u)' /\ stack'[u][j] = stack[u][j]
        /\ stack'[t][p].kind # "construct"
    BY <1>i, ConstructShape
  <1>2. p \in Nat \ {0} /\ p < q /\ stack[t][p].kind = "construct" /\ Kept(t, p - 1)
    BY DEF ConstructLeft
  <1>3. ConstructOK(stack[t][p]) /\ InConstruct(c)
    BY <1>1, <1>2, <1>i DEF ConstructsOK, InConstruct
  <1>4. c \in Objs /\ header[c].class \in {"raw", "primary"} /\ ~Built(c)
    BY <1>3, ScopeClasses
  <1>5. ~Live(c)
    <2>1. header[c].class # "dependent"
      BY <1>4
    <2> QED BY <1>4, <2>1, ScopeClasses
  <1>6. ~Held(c)
    <2>1. \A s \in Slots : ptr[s] # c
      <3>1. c # Null
        BY <1>4, ExceptionsAssumption
      <3> QED BY <1>4, <1>i, <3>1 DEF PtrsOK
    <2>2. \A d \in Objs : header[d].class = "dependent" => header[d].primaryException # c
      <3>1. \A d \in Objs : header[d].class = "dependent" => Built(header[d].primaryException)
        BY <1>i DEF HeadersOK, HeaderOK, Blocks
      <3> QED BY <1>4, <3>1
    <2> QED BY <2>1, <2>2 DEF Held, isDependent
  <1>7. \A d : LiveIn(t, d)' <=> LiveIn(t, d)
    <2>1. \A d : LiveIn(t, d) <=> \E i \in H \cup U : x[i] = d
      BY <1>i, PositionsHere
    <2>2. \A d : LiveIn(t, d)' <=> \E i \in AllHandlers(t)' \cup Flights(t)' : y[i] = d
      <3>1. \A d : LiveIn(t, d)' <=> \E i \in Pos(t)' : stack'[t][i].kind \in LiveKinds /\ stack'[t][i].ex = d
        BY DEF LiveIn
      <3>2. \A i : i \in AllHandlers(t)' \cup Flights(t)' <=> i \in Pos(t)' /\ stack'[t][i].kind \in LiveKinds
        BY DEF AllHandlers, Flights, LiveKinds, Pos
      <3>3. \A i \in Pos(t)' : y[i] = stack'[t][i].ex
        BY DEF Exs
      <3> QED BY <3>1, <3>2, <3>3
    <2>3. \A i : i \in H \cup Plus(Minus(U, q), p) <=> i \in (H \cup U) \ {q} \/ i = p
      <3>1. q \notin H
        <4>1. H \cap U = {}
          BY <1>i DEF ThreadsLinked, ThreadLinked, Linked, Positions
        <4> QED BY <1>1, <4>1
      <3>2. q # p
        BY <1>1
      <3> HIDE DEF q, H, U
      <3> QED BY <1>1, <3>1, <3>2 DEF Plus, Minus
    <2>4. \A d : LiveIn(t, d)' <=> \E i \in H \cup Plus(Minus(U, q), p) : y[i] = d
      BY <1>1, <2>2
    <2> HIDE DEF H, U, x, y, q
    <2> QED BY <1>1, <2>1, <2>3, <2>4
  <1>8. ThreadLinked(t)'
    <2>1. Linked(H, U, x, header, r)
      BY <1>i DEF ThreadsLinked, ThreadLinked
    <2>2. \A i \in H \cup U : x[i] \in Objs => header'[x[i]] = header[x[i]]
      <3>1. \A i \in H \cup U : LiveIn(t, x[i])
        BY <1>i, PositionsHere
      <3>2. \A d : LiveIn(t, d) => Live(d)
        BY DEF Live, LiveIn
      <3> QED BY <1>5, <3>1, <3>2
    <2>3. /\ p \in Nat \ {0} /\ p \notin H \cup U /\ p < q /\ q \in U
          /\ \A i \in (H \cup U) \ {q} : i < p
          /\ \A i \in (H \cup U) \ {q} : y[i] = x[i]
          /\ y[p] = x[q]
      BY <1>1, <1>2
    <2>4. eh'[t] = r
      OBVIOUS
    <2> HIDE DEF H, U, x, y, r, q
    <2>5. Linked(H, U, x, header', r)
      BY <2>1, <2>2, LinkedFrame
    <2>6. Linked(H, Plus(Minus(U, q), p), y, header', r)
      BY <2>3, <2>5, LinkedMove
    <2> QED BY <1>1, <2>4, <2>6 DEF ThreadLinked, y
  <1>9. /\ ThreadsLinked' /\ OneThread'
        /\ \A d : Live(d)' <=> LiveIn(t, d)' \/ (Live(d) /\ ~LiveIn(t, d))
    <2>1. \A d : LiveIn(t, d)' => LiveIn(t, d) \/ ~Live(d)
      BY <1>7
    <2>2. \A d \in Objs : Live(d) /\ ~LiveIn(t, d) =>
               /\ header'[d].handlerCount = header[d].handlerCount
               /\ header'[d].nextException = header[d].nextException
      BY <1>5
    <2>3. \A u \in Threads : u # t => eh'[u] = eh[u]
      OBVIOUS
    <2> QED BY <1>2, <1>8, <1>i, <2>1, <2>2, <2>3, OthersStep
  <1>10. \A d : Live(d)' <=> Live(d) /\ d # c
    <2>1. \A d : LiveIn(t, d) => Live(d)
      BY DEF Live, LiveIn
    <2> QED BY <1>5, <1>7, <1>9, <2>1
  <1>11. \A d : InConstruct(d)' <=> InConstruct(d) /\ d # c
    <2>1. ASSUME NEW d, InConstruct(d)' PROVE InConstruct(d) /\ d # c
      <3>1. PICK u \in Threads : \E j \in Pos(u)' : stack'[u][j].kind = "construct" /\ stack'[u][j].ex = d
        BY <2>1 DEF InConstruct
      <3>2. PICK j \in Pos(u)' : stack'[u][j].kind = "construct" /\ stack'[u][j].ex = d
        BY <3>1
      <3>3. j \in Pos(u) /\ stack'[u][j] = stack[u][j]
        BY <1>1, <3>2 DEF SubScopes
      <3>4. ~(u = t /\ j = p)
        BY <1>1, <3>2
      <3>5. d # c
        <4>1. stack[u][j].ex = d /\ stack[u][j].kind = "construct"
          BY <3>2, <3>3
        <4> QED BY <1>1, <1>2, <1>i, <3>3, <3>4, <4>1 DEF ConstructsOK
      <3> QED BY <3>2, <3>3, <3>5 DEF InConstruct
    <2>2. ASSUME NEW d, InConstruct(d), d # c PROVE InConstruct(d)'
      <3>1. PICK u \in Threads : \E j \in Pos(u) : stack[u][j].kind = "construct" /\ stack[u][j].ex = d
        BY <2>2 DEF InConstruct
      <3>2. PICK j \in Pos(u) : stack[u][j].kind = "construct" /\ stack[u][j].ex = d
        BY <3>1
      <3>3. ~(u = t /\ j = p)
        BY <2>2, <3>2
      <3>4. j \in Pos(u)' /\ stack'[u][j] = stack[u][j]
        BY <1>1, <3>2, <3>3
      <3> QED BY <3>2, <3>4 DEF InConstruct
    <2> QED BY <2>1, <2>2
  <1> QED BY <1>1, <1>3, <1>4, <1>5, <1>6, <1>9, <1>10, <1>11

LEMMA EscapeConstructInv ==
    ASSUME IInv, NEW t \in Threads, EscapeConstruct(t)
    PROVE  IInv' /\ OwnersStep
  <1>i. TypeOK /\ ConstructsOK
    BY DEF IInv
  <1>0. /\ In(t, "unwind") /\ Depth(t) > 1 /\ stack[t][Depth(t) - 1].kind = "construct"
        /\ Under(t).aux = "throw" \/ "makePtrThrows" \in Habits
        /\ header' = FreeHeader(Under(t).ex)
        /\ stack' = Replace(t, 2, << Found(t) >> \o FreeScopes(Under(t).ex))
        /\ eh' = eh /\ ptr' = ptr
    BY DEF EscapeConstruct, Unwinding, Under
  <1>1. /\ Depth(t) \in Nat /\ Depth(t) >= 1
        /\ stack[t][Depth(t)] = Top(t) /\ Top(t).kind = "unwind" /\ Top(t) \in ScopeType
    BY <1>0, <1>i, TopScope
  <1>p. PICK p \in Nat : p = Depth(t) - 1
    BY <1>0, <1>1
  <1>2. p \in Nat \ {0} /\ Depth(t) = p + 1 /\ p \in Pos(t) /\ 2 \in 0 .. Depth(t)
    BY <1>0, <1>1, <1>p DEF Pos
  <1>3. /\ stack[t][p] = Under(t) /\ stack[t][p].kind = "construct"
        /\ stack[t][p + 1] = Top(t)
    BY <1>0, <1>1, <1>p, <1>2 DEF Under
  <1>c. PICK c : c = Under(t).ex
    OBVIOUS
  <1>f. PICK f : f = Found(t)
    OBVIOUS
  <1>4. f \in ScopeType /\ f.kind = "unwind" /\ f.ex = Top(t).ex
    BY <1>1, <1>f DEF Found, ScopeType
  <1>5. ConstructOK(stack[t][p])
    BY <1>2, <1>3, <1>i DEF ConstructsOK
  <1>6. /\ c \in Objs /\ header[c].class \in {"raw", "primary"}
        /\ header[c].object = "none"
        /\ header[c].exceptionDestructor <=> Under(t).aux # "throw"
        /\ header[c].class = "raw" <=> Under(t).aux = "throw"
    BY <1>c, <1>3, <1>5, ConstructHeader
  <1>7. c \in Blocks /\ header[c] \in HeaderType /\ Objs \subseteq Blocks
    BY <1>6, <1>i DEF TypeOK, Blocks
  <1>8. CASE Under(t).aux = "throw"
    <2>1. /\ header' = [header EXCEPT ![c] = Freed]
          /\ stack' = Replace(t, 2, << f >>)
      <3>1. FreeScopes(c) = << >> /\ FreeHeader(c) = [header EXCEPT ![c] = Freed]
        BY <1>6, <1>8 DEF FreeScopes, FreeHeader
      <3>2. << f >> \o << >> = << f >>
        OBVIOUS
      <3> QED BY <1>0, <1>c, <1>f, <3>1, <3>2
    <2>2. /\ header' \in [Blocks -> HeaderType] /\ header'[c] = Freed
          /\ \A d \in Blocks : d # c => header'[d] = header[d]
      BY <1>7, <1>i, <2>1, HeaderUpdates DEF TypeOK
    <2>3. /\ stack' \in [Threads -> Seq(ScopeType)] /\ Kept(t, Depth(t) - 2)
          /\ Depth(t)' = Depth(t) - 2 + 1 /\ stack'[t][Depth(t) - 2 + 1] = f
      <3>1. f \in ScopeType
        BY <1>4
      <3>2. 2 \in 0 .. Depth(t)
        BY <1>2
      <3> QED BY <1>i, <2>1, <3>1, <3>2, Replace1
    <2>4. Kept(t, p - 1) /\ Depth(t)' = p /\ stack'[t][p] = f
      BY <1>2, <2>3
    <2>5. \A i \in Pos(t)' : i >= p => i = p
      BY <2>4, <1>2 DEF Pos
    <2>6. stack[t][p + 1].kind = "unwind" /\ stack'[t][p].kind = "unwind"
          /\ stack'[t][p].ex = stack[t][p + 1].ex
      BY <1>1, <1>3, <1>4, <2>4
    <2>7. Depth(t)' \in Nat /\ Depth(t)' >= p /\ \A i \in Pos(t)' : ~(i > p)
      BY <2>4, <2>5, <1>2 DEF Pos
    <2>8. ConstructLeft(t, p)
      BY <1>2, <1>3, <2>4, <2>6, <2>7 DEF ConstructLeft
    <2>9. \A i \in Pos(t)' : i >= p => stack'[t][i].kind # "destroy"
      BY <2>5, <2>6
    <2>10. SameScopes({"destroy"})
      BY <1>i, <2>8, <2>9, ConstructShape
    <2>11. /\ ThreadsLinked' /\ OneThread'
           /\ \A d : Live(d)' <=> Live(d) /\ d # c
           /\ SubScopes({"construct"})
           /\ \A d : InConstruct(d)' <=> InConstruct(d) /\ d # c
      <3>1. \A d \in Objs : d # c => header'[d] = header[d]
        BY <1>7, <2>2
      <3>2. c = stack[t][p].ex /\ eh' = eh
        BY <1>0, <1>c, <1>3
      <3> QED BY <2>8, <3>1, <3>2, ConstructGone
    <2>12. TypeOK'
      BY <1>0, <1>i, <2>2, <2>3 DEF TypeOK
    <2>13. c \in Blocks /\ header[c].class \in {"raw", "foreign"} /\ ptr' = ptr
      BY <1>0, <1>6, <1>7, <1>8
    <2> QED BY <2>2, <2>10, <2>11, <2>12, <2>13, FreedInv
  <1>9. CASE Under(t).aux # "throw"
    <2>g. PICK g : g = Scope("destroy", c, Null)
      OBVIOUS
    <2>1. /\ header' = [header EXCEPT ![c].class = "dying"]
          /\ stack' = Replace(t, 2, << f >> \o << g >>)
      <3>1. FreeScopes(c) = << g >> /\ FreeHeader(c) = [header EXCEPT ![c].class = "dying"]
        BY <1>6, <1>9, <2>g DEF FreeScopes, FreeHeader
      <3> QED BY <1>0, <1>c, <1>f, <3>1
    <2>2. /\ header'[c] = [header[c] EXCEPT !.class = "dying"]
          /\ \A d \in Blocks : d # c => header'[d] = header[d]
      BY <1>7, <1>i, <2>1 DEF TypeOK
    <2>3. header'[c].class = "dying" /\ header'[c].object = header[c].object
      BY <1>7, <2>2 DEF HeaderType
    <2>4. header' \in [Blocks -> HeaderType]
      <3>1. PICK v \in Classes : v = "dying"
        BY DEF Classes
      <3>2. header'[c] = [header[c] EXCEPT !.class = v]
        BY <2>2, <3>1
      <3>3. header'[c] \in HeaderType
        <4>1. PICK h \in HeaderType : h = header[c]
          BY <1>7
        <4>2. header'[c] = [h EXCEPT !.class = v]
          BY <3>2, <4>1
        <4>3. [h EXCEPT !.class = v] \in HeaderType
          BY HeaderUpdates, Zenon
        <4> QED BY <4>2, <4>3
      <3>4. header' \in [Blocks -> HeaderType] <=> \A d \in Blocks : header'[d] \in HeaderType
        BY <1>i, <2>1 DEF TypeOK
      <3> QED BY <1>i, <2>2, <3>3, <3>4 DEF TypeOK
    <2>5. g \in ScopeType /\ g.kind = "destroy"
      BY <1>7, <2>g DEF Scope, ScopeType
    <2>6. /\ stack' \in [Threads -> Seq(ScopeType)] /\ Kept(t, Depth(t) - 2)
          /\ Depth(t)' = Depth(t) - 2 + 2
          /\ stack'[t][Depth(t) - 2 + 1] = f /\ stack'[t][Depth(t) - 2 + 2] = g
      <3>1. f \in ScopeType /\ g \in ScopeType
        BY <1>4, <2>5
      <3>2. 2 \in 0 .. Depth(t)
        BY <1>2
      <3> QED BY <1>i, <2>1, <3>1, <3>2, ReplaceBoth
    <2>7. /\ Kept(t, p - 1) /\ Depth(t)' = p + 1 /\ stack'[t][p] = f /\ stack'[t][p + 1] = g
      BY <1>2, <2>6
    <2>8. /\ stack[t][p + 1].kind = "unwind" /\ stack'[t][p].kind = "unwind"
          /\ stack'[t][p].ex = stack[t][p + 1].ex
      BY <1>1, <1>3, <1>4, <2>7
    <2>9. /\ Depth(t)' \in Nat /\ Depth(t)' >= p
          /\ \A i \in Pos(t)' : i > p => i = p + 1
          /\ \A i \in Pos(t)' : i > p - 1 /\ i # p + 1 => i = p
          /\ \A i \in Pos(t) : i > p - 1 => i = p \/ i = p + 1
      BY <1>2, <2>7 DEF Pos
    <2>10. \A i \in Pos(t)' : i > p => stack'[t][i].kind = "destroy"
      BY <2>5, <2>7, <2>9
    <2>11. ConstructLeft(t, p)
      BY <1>2, <1>3, <2>7, <2>8, <2>9, <2>10 DEF ConstructLeft
    <2>12. DestroyPushed(t, g)
      <3>m. PICK m \in Nat : m = p - 1
        BY <1>2
      <3>k. PICK k \in Nat : k = p + 1
        OBVIOUS
      <3>1. m <= Depth(t) /\ m < k /\ Kept(t, m) /\ Depth(t)' = k /\ stack'[t][k] = g /\ Depth(t) \in Nat
        BY <1>1, <1>2, <2>7, <3>m, <3>k
      <3>2. \A i \in Pos(t) : i > m => stack[t][i].kind # "destroy"
        BY <1>3, <2>8, <2>9, <3>m
      <3>3. \A i \in Pos(t)' : i > m /\ i # k => stack'[t][i].kind # "destroy"
        BY <2>8, <2>9, <3>m, <3>k
      <3> QED BY <3>1, <3>2, <3>3, PushedAt
    <2>13. /\ ThreadsLinked' /\ OneThread' /\ ~Held(c)
           /\ \A d : Live(d)' <=> Live(d) /\ d # c
           /\ SubScopes({"construct"})
           /\ \A d : InConstruct(d)' <=> InConstruct(d) /\ d # c
      <3>1. \A d \in Objs : d # c => header'[d] = header[d]
        BY <1>7, <2>2
      <3>2. c = stack[t][p].ex /\ eh' = eh
        BY <1>0, <1>c, <1>3
      <3> QED BY <2>11, <3>1, <3>2, ConstructGone
    <2>14. TypeOK'
      BY <1>0, <1>i, <2>4, <2>6 DEF TypeOK
    <2>15. /\ c \in Objs /\ header[c].class = "primary" /\ ptr' = ptr
           /\ "makePtrThrows" \notin Habits => header[c].object = "built"
           /\ DestroyPushed(t, Scope("destroy", c, Null))
      BY <1>0, <1>6, <1>9, <2>12, <2>g
    <2>16. \A d \in Blocks : d # c => header'[d] = header[d]
      BY <2>2
    <2> QED BY <2>3, <2>13, <2>14, <2>15, <2>16, DyingInv
  <1> QED BY <1>8, <1>9

(***************************************************************************)
(* Another language catches an exception.                                  *)
(***************************************************************************)
\* The exception on top, at p, is gone; nothing but a destructor call
\* replaces it.
FlightEnds(t, p) ==
    /\ p \in Nat \ {0} /\ Depth(t) = p /\ stack[t][p].kind = "unwind" /\ Kept(t, p - 1)
    /\ Depth(t)' \in Nat /\ Depth(t)' >= p - 1
    /\ \A i \in Pos(t)' : i >= p => stack'[t][i].kind = "destroy"

LEMMA FlightShape ==
    ASSUME TypeOK, NEW t \in Threads, NEW p, FlightEnds(t, p)
    PROVE  /\ p \in Flights(t) /\ p \notin AllHandlers(t)
           /\ AllHandlers(t)' = AllHandlers(t)
           /\ Flights(t)' = Minus(Flights(t), p)
           /\ \A i \in AllHandlers(t) \cup Minus(Flights(t), p) : Exs(t)'[i] = Exs(t)[i]
           /\ Exs(t)[p] = stack[t][p].ex
           /\ \A d : LiveIn(t, d)' <=> \E i \in AllHandlers(t) \cup Minus(Flights(t), p) : Exs(t)[i] = d
           /\ SameScopes({"construct"})
           /\ (\A i \in Pos(t)' : ~(i >= p)) => SameScopes({"destroy"})
  <1>1. /\ p \in Nat /\ p > 0 /\ p \in Pos(t)
        /\ \A i \in Pos(t) : i = p \/ i \in 1 .. p - 1
        /\ \A i \in Pos(t)' : i >= p \/ i \in 1 .. p - 1
        /\ stack[t][p].kind = "unwind"
        /\ \A i \in Pos(t)' : i >= p => stack'[t][i].kind = "destroy"
    BY DEF FlightEnds, Pos
  <1>2. \A i \in 1 .. p - 1 : i \in Pos(t)' /\ i \in Pos(t) /\ stack'[t][i] = stack[t][i]
    <2>1. \A i \in 1 .. p - 1 : i \in Pos(t) /\ i \in Nat /\ i <= p - 1
      BY <1>1 DEF Pos, FlightEnds
    <2> QED BY <2>1 DEF FlightEnds, Kept
  <1>3. \A i \in 1 .. p - 1 : i # p /\ i \in Nat /\ ~(i >= p)
    BY <1>1
  <1>4. /\ p \in Flights(t) /\ p \notin AllHandlers(t)
        /\ \A i \in AllHandlers(t) \cup Flights(t) : i = p \/ i \in 1 .. p - 1
    BY <1>1 DEF Flights, AllHandlers, Pos
  <1>5. \A i \in AllHandlers(t)' \cup Flights(t)' : i \in 1 .. p - 1
    BY <1>1 DEF Flights, AllHandlers, Pos
  <1>6. \A i \in 1 .. p - 1 : /\ i \in AllHandlers(t)' <=> i \in AllHandlers(t)
                              /\ i \in Flights(t)' <=> i \in Flights(t)
                              /\ Exs(t)'[i] = Exs(t)[i]
    BY <1>2 DEF AllHandlers, Flights, Exs, Pos
  <1> DEFINE H == AllHandlers(t)
             U == Flights(t)
             K == AllHandlers(t)'
             V == Flights(t)'
  <1>7. K = H /\ V = Minus(U, p)
    <2>1. /\ p \in U /\ p \notin H
          /\ \A i \in H \cup U : i = p \/ i \in 1 .. p - 1
          /\ \A i \in K \cup V : i \in 1 .. p - 1
          /\ \A i \in 1 .. p - 1 : (i \in K <=> i \in H) /\ (i \in V <=> i \in U)
      BY <1>4, <1>5, <1>6
    <2> HIDE DEF H, U, K, V
    <2>2. \A i : (i \in K <=> i \in H) /\ (i \in V <=> i \in U \ {p})
      BY <1>3, <2>1
    <2> QED BY <2>2 DEF Minus
  <1>8. \A i \in H \cup Minus(U, p) : i \in 1 .. p - 1
    BY <1>4 DEF Minus
  <1>9. \A d : LiveIn(t, d)' <=> \E i \in H \cup Minus(U, p) : Exs(t)[i] = d
    <2>1. \A d : LiveIn(t, d)' <=> \E i \in Pos(t)' : stack'[t][i].kind \in LiveKinds /\ stack'[t][i].ex = d
      BY DEF LiveIn
    <2>2. \A i : i \in K \cup V <=> i \in Pos(t)' /\ stack'[t][i].kind \in LiveKinds
      BY DEF AllHandlers, Flights, LiveKinds, Pos
    <2>3. \A i \in Pos(t)' : Exs(t)'[i] = stack'[t][i].ex
      BY DEF Exs
    <2>4. \A i \in H \cup Minus(U, p) : Exs(t)'[i] = Exs(t)[i]
      BY <1>6, <1>8
    <2> HIDE DEF H, U, K, V
    <2> QED BY <1>7, <2>1, <2>2, <2>3, <2>4
  <1>10. \A u \in Threads : u # t => \A j \in Nat :
             (j \in Pos(u)' <=> j \in Pos(u)) /\ (j \in Pos(u) => stack'[u][j] = stack[u][j])
    BY DEF FlightEnds, Kept
  <1>11. SameScopes({"construct"})
    <2>1. ASSUME NEW u \in Threads, NEW j \in Nat
          PROVE  /\ (j \in Pos(u) /\ stack[u][j].kind = "construct") <=>
                       (j \in Pos(u)' /\ stack'[u][j].kind = "construct")
                 /\ j \in Pos(u) /\ stack[u][j].kind = "construct" => stack'[u][j] = stack[u][j]
      <3>1. CASE u = t
        <4>1. CASE j \in 1 .. p - 1
          BY <1>2, <3>1, <4>1
        <4>2. CASE j \notin 1 .. p - 1
          <5>1. j \in Pos(t) => stack[t][j].kind # "construct"
            BY <1>1, <4>2
          <5>2. j \in Pos(t)' => stack'[t][j].kind # "construct"
            BY <1>1, <4>2
          <5> QED BY <3>1, <5>1, <5>2
        <4> QED BY <4>1, <4>2
      <3>2. CASE u # t
        BY <1>10, <3>2
      <3> QED BY <3>1, <3>2
    <2> QED BY <2>1 DEF SameScopes
  <1>12. ASSUME \A i \in Pos(t)' : ~(i >= p) PROVE SameScopes({"destroy"})
    <2>1. ASSUME NEW u \in Threads, NEW j \in Nat
          PROVE  /\ (j \in Pos(u) /\ stack[u][j].kind = "destroy") <=>
                       (j \in Pos(u)' /\ stack'[u][j].kind = "destroy")
                 /\ j \in Pos(u) /\ stack[u][j].kind = "destroy" => stack'[u][j] = stack[u][j]
      <3>1. CASE u = t
        <4>1. CASE j \in 1 .. p - 1
          BY <1>2, <3>1, <4>1
        <4>2. CASE j \notin 1 .. p - 1
          <5>1. j \in Pos(t) => stack[t][j].kind # "destroy"
            BY <1>1, <4>2
          <5>2. j \notin Pos(t)'
            BY <1>1, <1>12, <4>2
          <5> QED BY <3>1, <5>1, <5>2
        <4> QED BY <4>1, <4>2
      <3>2. CASE u # t
        BY <1>10, <3>2
      <3> QED BY <3>1, <3>2
    <2> QED BY <2>1 DEF SameScopes
  <1>13. Exs(t)[p] = stack[t][p].ex
    BY <1>1 DEF Exs
  <1>14. \A i \in AllHandlers(t) \cup Minus(Flights(t), p) : Exs(t)'[i] = Exs(t)[i]
    BY <1>6, <1>8
  <1> QED BY <1>4, <1>7, <1>9, <1>11, <1>12, <1>13, <1>14

\* It is not handled anywhere.
LEMMA FlightGone ==
    ASSUME IInv, NEW t \in Threads, NEW p, FlightEnds(t, p), NEW e \in Objs, e = stack[t][p].ex,
           header[e].handlerCount = 0, "foreignCatch" \in Habits, eh' = eh,
           \A d \in Objs : d # e => /\ header'[d].handlerCount = header[d].handlerCount
                                    /\ header'[d].nextException = header[d].nextException
    PROVE  /\ ThreadsLinked' /\ OneThread' /\ SameScopes({"construct"})
           /\ \A d : Live(d)' <=> Live(d) /\ d # e
  <1>i. TypeOK /\ ThreadsLinked /\ OneThread
    BY DEF IInv
  <1> DEFINE H == AllHandlers(t)
             U == Flights(t)
             x == Exs(t)
             y == Exs(t)'
             r == eh[t]
  <1>1. /\ p \in U /\ p \notin H
        /\ AllHandlers(t)' = H /\ Flights(t)' = Minus(U, p)
        /\ \A i \in H \cup Minus(U, p) : y[i] = x[i]
        /\ x[p] = e
        /\ \A d : LiveIn(t, d)' <=> \E i \in H \cup Minus(U, p) : x[i] = d
        /\ SameScopes({"construct"})
    BY <1>i, FlightShape
  <1>2. Linked(H, U, x, header, r)
    BY <1>i DEF ThreadsLinked, ThreadLinked
  <1>3. Linked(H, Minus(U, p), x, header', r) /\ \A i \in H \cup Minus(U, p) : x[i] # e
    <2>1. p \in U /\ x[p] = e
      BY <1>1
    <2>2. \A i \in H \cup U : x[i] \in Objs /\ x[i] # e =>
                      /\ header'[x[i]].handlerCount = header[x[i]].handlerCount
                      /\ header'[x[i]].nextException = header[x[i]].nextException
      OBVIOUS
    <2> HIDE DEF H, U, x, y, r
    <2> QED BY <1>2, <2>1, <2>2, LinkedForeignCatch
  <1>4. ThreadLinked(t)'
    <2>1. \A i \in H \cup Minus(U, p) : y[i] = x[i]
      BY <1>1
    <2>2. Linked(H, Minus(U, p), x, header', r) /\ eh'[t] = r
      BY <1>3
    <2>3. AllHandlers(t)' = H /\ Flights(t)' = Minus(U, p)
      BY <1>1
    <2> HIDE DEF H, U, x, y, r
    <2>4. Linked(H, Minus(U, p), y, header', r)
      <3> DEFINE W == Minus(U, p)
      <3>1. Linked(H, W, x, header', r) /\ \A i \in H \cup W : y[i] = x[i]
        BY <2>1, <2>2
      <3>2. \A i \in H \cup W : x[i] \in Objs =>
                      /\ header'[x[i]].handlerCount = header'[x[i]].handlerCount
                      /\ header'[x[i]].nextException = header'[x[i]].nextException
        OBVIOUS
      <3> HIDE DEF W
      <3>3. Linked(H, W, y, header', r)
        BY <3>1, <3>2, LinkedFrame
      <3> QED BY <3>3 DEF W
    <2> QED BY <2>2, <2>3, <2>4 DEF ThreadLinked, y
  <1>5. \A d : LiveIn(t, d)' <=> LiveIn(t, d) /\ d # e
    <2>1. \A d : LiveIn(t, d) <=> \E i \in H \cup U : x[i] = d
      BY <1>i, PositionsHere
    <2>2. \A i : i \in H \cup U <=> i \in H \cup Minus(U, p) \/ i = p
      BY <1>1 DEF Minus
    <2> HIDE DEF H, U, x
    <2> QED BY <1>1, <1>3, <2>1, <2>2
  <1>6. /\ ThreadsLinked' /\ OneThread'
        /\ \A d : Live(d)' <=> LiveIn(t, d)' \/ (Live(d) /\ ~LiveIn(t, d))
    <2>1. \A d : LiveIn(t, d)' => LiveIn(t, d) \/ ~Live(d)
      BY <1>5
    <2>2. \A d \in Objs : Live(d) /\ ~LiveIn(t, d) =>
               /\ header'[d].handlerCount = header[d].handlerCount
               /\ header'[d].nextException = header[d].nextException
      <3>1. LiveIn(t, e)
        <4>1. p \in H \cup U /\ x[p] = e
          BY <1>1
        <4> QED BY <1>i, <4>1, PositionsHere
      <3> QED BY <3>1
    <2>3. \A u \in Threads : u # t => eh'[u] = eh[u]
      OBVIOUS
    <2>4. Kept(t, p - 1)
      BY DEF FlightEnds
    <2> QED BY <1>4, <1>i, <2>1, <2>2, <2>3, <2>4, OthersStep
  <1>7. \A d : LiveIn(t, d) => Live(d)
    BY DEF Live, LiveIn
  <1>8. LiveIn(t, e)
    <2>1. p \in H \cup U /\ x[p] = e
      BY <1>1
    <2> QED BY <1>i, <2>1, PositionsHere
  <1> QED BY <1>1, <1>5, <1>6, <1>7, <1>8

\* The exception on top is replaced by nothing, or by a destructor call.
LEMMA FlightReplace ==
    ASSUME TypeOK, NEW t \in Threads, In(t, "unwind"), NEW p, p = Depth(t),
           stack' = Replace(t, 1, << >>)
    PROVE  FlightEnds(t, p) /\ stack' \in [Threads -> Seq(ScopeType)] /\ SameScopes({"destroy"})
  <1>1. /\ Depth(t) \in Nat /\ Depth(t) >= 1 /\ 1 \in 0 .. Depth(t)
        /\ stack[t][Depth(t)] = Top(t) /\ Top(t).kind = "unwind"
    BY TopScope
  <1>2. /\ stack' \in [Threads -> Seq(ScopeType)] /\ Kept(t, Depth(t) - 1)
        /\ Depth(t)' = Depth(t) - 1
    BY <1>1, Replace0
  <1>3. \A i \in Pos(t)' : ~(i >= p)
    BY <1>1, <1>2 DEF Pos
  <1>4. FlightEnds(t, p)
    BY <1>1, <1>2, <1>3 DEF FlightEnds
  <1> QED BY <1>2, <1>3, <1>4, FlightShape

LEMMA FlightReplaceDestroy ==
    ASSUME TypeOK, NEW t \in Threads, In(t, "unwind"), NEW p, p = Depth(t),
           NEW g \in ScopeType, g.kind = "destroy", stack' = Replace(t, 1, << g >>)
    PROVE  FlightEnds(t, p) /\ stack' \in [Threads -> Seq(ScopeType)] /\ DestroyPushed(t, g)
  <1>1. /\ Depth(t) \in Nat /\ Depth(t) >= 1 /\ 1 \in 0 .. Depth(t)
        /\ stack[t][Depth(t)] = Top(t) /\ Top(t).kind = "unwind"
    BY TopScope
  <1>2. /\ stack' \in [Threads -> Seq(ScopeType)] /\ Kept(t, Depth(t) - 1)
        /\ Depth(t)' = Depth(t) - 1 + 1 /\ stack'[t][Depth(t) - 1 + 1] = g
    BY <1>1, Replace1
  <1>3. /\ p \in Nat \ {0} /\ Kept(t, p - 1) /\ Depth(t)' = p /\ stack'[t][p] = g
        /\ stack[t][p].kind = "unwind"
    BY <1>1, <1>2
  <1>4. /\ \A i \in Pos(t)' : i >= p => i = p
        /\ \A i \in Pos(t)' : i > p - 1 => i = p
        /\ \A i \in Pos(t) : i > p - 1 => i = p
    BY <1>3 DEF Pos
  <1>5. FlightEnds(t, p)
    BY <1>3, <1>4 DEF FlightEnds
  <1>6. DestroyPushed(t, g)
    <2>m. PICK m \in Nat : m = p - 1
      BY <1>3
    <2>k. PICK k \in Nat : k = p
      BY <1>3
    <2>1. m <= Depth(t) /\ m < k /\ Kept(t, m) /\ Depth(t)' = k /\ stack'[t][k] = g /\ Depth(t) \in Nat
      BY <1>1, <1>3, <2>m, <2>k
    <2>2. \A i \in Pos(t) : i > m => stack[t][i].kind # "destroy"
      BY <1>3, <1>4, <2>m
    <2>3. \A i \in Pos(t)' : i > m /\ i # k => stack'[t][i].kind # "destroy"
      BY <1>4, <2>m, <2>k
    <2> QED BY <2>1, <2>2, <2>3, PushedAt
  <1> QED BY <1>2, <1>5, <1>6

LEMMA ForeignCatchInv ==
    ASSUME IInv, ProperUse, NEW t \in Threads, ForeignCatch(t)
    PROVE  IInv' /\ OwnersStep
  <1>i. TypeOK /\ HeadersOK
    BY DEF IInv
  <1>e. PICK e : e = Top(t).ex
    OBVIOUS
  <1>0. /\ In(t, "unwind") /\ ~isForeign(e)
        /\ "foreignCatch" \in Habits /\ ~Held(e) /\ header[e].handlerCount = 0
        /\ IF isDependent(e)
           THEN header' = ReleasedHeader(e) /\ stack' = Replace(t, 1, ReleaseScopes(e))
           ELSE header' = FreeHeader(e) /\ stack' = Replace(t, 1, FreeScopes(e))
        /\ eh' = eh /\ ptr' = ptr
    BY <1>e DEF ForeignCatch, Unwinding, ProperUse
  <1>1. Live(e) /\ e \in Blocks /\ e \in Objs
    BY <1>0, <1>e, TopFlight
  <1>2. /\ Objs \subseteq Blocks /\ e # Null /\ e \notin Slots
        /\ header[e] \in HeaderType
    BY <1>1, <1>i, ExceptionsAssumption DEF TypeOK, Blocks
  <1>p. PICK p : p = Depth(t)
    OBVIOUS
  <1>3. stack[t][p].ex = e
    BY <1>0, <1>e, <1>i, <1>p, TopScope
  <1>4. CASE isDependent(e)
    <2>m. PICK m : m = realException(e)
      OBVIOUS
    <2>1. /\ Built(m) /\ m \in Objs /\ e # m
          /\ header[e].class = "dependent" /\ header[e].primaryException = m
          /\ e \in Holders(m)
      BY <1>1, <1>4, <2>m, PrimaryOf DEF isDependent
    <2> DEFINE last == header[m].referenceCount - 1 = 0
    <2>2. /\ header' \in [Blocks -> HeaderType]
          /\ \A d \in Blocks : d # e /\ d # m => header'[d] = header[d]
          /\ header'[m].referenceCount = header[m].referenceCount - 1
          /\ header'[m].object = header[m].object
          /\ header'[m].exceptionDestructor = header[m].exceptionDestructor
          /\ header'[m].handlerCount = header[m].handlerCount
          /\ header'[m].nextException = header[m].nextException
          /\ header'[m].class = IF last THEN "dying" ELSE header[m].class
          /\ e # m => IF last THEN header'[e].class = "dying" /\ header'[e].object = header[e].object
                       ELSE header'[e] = Freed
      <3>g. PICK g : g = header'
        OBVIOUS
      <3>1. e \in Objs /\ m \in Objs /\ m = realException(e) /\ g = ReleasedHeader(e)
        BY <1>0, <1>1, <1>4, <2>1, <2>m, <3>g
      <3>2. /\ g \in [Blocks -> HeaderType]
            /\ \A d \in Blocks : d # e /\ d # m => g[d] = header[d]
            /\ g[m].referenceCount = header[m].referenceCount - 1
            /\ g[m].object = header[m].object
            /\ g[m].exceptionDestructor = header[m].exceptionDestructor
            /\ g[m].handlerCount = header[m].handlerCount
            /\ g[m].nextException = header[m].nextException
            /\ g[m].class = IF last THEN "dying" ELSE header[m].class
            /\ e # m => IF last THEN g[e].class = "dying" /\ g[e].object = header[e].object
                         ELSE g[e] = Freed
        BY <1>i, <3>1, ReleasedFacts
      <3> QED BY <3>2, <3>g
    <2>3. Releases(e, m)
      BY <2>2 DEF Releases
    <2>4. /\ FlightEnds(t, p) /\ stack' \in [Threads -> Seq(ScopeType)]
          /\ IF last THEN DestroyPushed(t, Scope("destroy", m, IF m = e THEN Null ELSE e))
             ELSE SameScopes({"destroy"})
      <3>1. CASE last
        <4> DEFINE s == Scope("destroy", m, IF m = e THEN Null ELSE e)
        <4>1. ReleaseScopes(e) = << s >>
          BY <2>m, <3>1 DEF ReleaseScopes
        <4>2. stack' = Replace(t, 1, << s >>)
          BY <1>0, <1>4, <4>1
        <4>3. s \in ScopeType /\ s.kind = "destroy"
          BY <1>2, <1>1, <2>1 DEF Scope, ScopeType
        <4> HIDE DEF s
        <4>4. FlightEnds(t, p) /\ stack' \in [Threads -> Seq(ScopeType)] /\ DestroyPushed(t, s)
          BY <1>0, <1>i, <1>p, <4>2, <4>3, FlightReplaceDestroy
        <4> QED BY <3>1, <4>4 DEF s
      <3>2. CASE ~last
        <4>1. ReleaseScopes(e) = << >>
          BY <2>m, <3>2 DEF ReleaseScopes
        <4>2. stack' = Replace(t, 1, << >>)
          BY <1>0, <1>4, <4>1
        <4>3. FlightEnds(t, p) /\ stack' \in [Threads -> Seq(ScopeType)] /\ SameScopes({"destroy"})
          BY <1>0, <1>i, <1>p, <4>2, FlightReplace
        <4> QED BY <3>2, <4>3
      <3> QED BY <3>1, <3>2
    <2>5. \A d \in Objs : d # e => /\ header'[d].handlerCount = header[d].handlerCount
                                   /\ header'[d].nextException = header[d].nextException
      BY <1>2, <2>2
    <2>6. /\ ThreadsLinked' /\ OneThread' /\ SameScopes({"construct"})
          /\ \A d : Live(d)' <=> Live(d) /\ d # e
      <3>1. /\ e \in Objs /\ e = stack[t][p].ex /\ header[e].handlerCount = 0
            /\ "foreignCatch" \in Habits /\ eh' = eh /\ FlightEnds(t, p)
        BY <1>0, <1>1, <1>3, <2>4
      <3> QED BY <2>5, <3>1, FlightGone
    <2>7. TypeOK'
      BY <1>0, <1>i, <2>2, <2>4 DEF TypeOK
    <2>8. e \in Objs /\ e \in Holders(m) /\ Built(m)
      BY <1>1, <2>1
    <2>9. \A d : d # e => (Live(d)' <=> Live(d))
      BY <2>6
    <2>10. ~Live(e)'
      BY <2>6
    <2>11. \A s \in Slots : ptr'[s] = IF s = e THEN Null ELSE ptr[s]
      BY <1>0, <1>2
    <2>12. e = m \/ (header[e].class = "dependent" /\ header[e].primaryException = m)
      BY <2>1
    <2>13. IF header[m].referenceCount - 1 = 0
           THEN DestroyPushed(t, Scope("destroy", m, IF m = e THEN Null ELSE e))
           ELSE SameScopes({"destroy"})
      BY <2>4
    <2>14. TypeOK' /\ OneThread' /\ ThreadsLinked' /\ SameScopes({"construct"})
      BY <2>6, <2>7
    <2> HIDE DEF last
    <2> QED BY <2>3, <2>8, <2>9, <2>10, <2>11, <2>12, <2>13, <2>14, ReleaseInv
  <1>5. CASE ~isDependent(e)
    <2>1. Built(e)
      BY <1>1, <1>5, ScopeClasses DEF isDependent
    <2>2. header[e].class = "primary" /\ header[e].object = "built" /\ header[e].exceptionDestructor
      BY <1>1, <1>i, <2>1 DEF Built, HeadersOK, HeaderOK
    <2>g. PICK g : g = Scope("destroy", e, Null)
      OBVIOUS
    <2>3. header' = [header EXCEPT ![e].class = "dying"] /\ stack' = Replace(t, 1, << g >>)
      BY <1>0, <1>5, <2>2, <2>g DEF FreeHeader, FreeScopes
    <2>4. /\ header'[e] = [header[e] EXCEPT !.class = "dying"]
          /\ \A d \in Blocks : d # e => header'[d] = header[d]
      BY <1>1, <1>i, <2>3 DEF TypeOK
    <2>5. header'[e].class = "dying" /\ header'[e].object = header[e].object
      BY <1>2, <2>4 DEF HeaderType
    <2>6. header' \in [Blocks -> HeaderType]
      <3>1. PICK v \in Classes : v = "dying"
        BY DEF Classes
      <3>2. PICK h \in HeaderType : h = header[e]
        BY <1>2
      <3>3. header'[e] = [h EXCEPT !.class = v]
        BY <2>4, <3>1, <3>2
      <3>4. [h EXCEPT !.class = v] \in HeaderType
        BY HeaderUpdates, Zenon
      <3>5. header' \in [Blocks -> HeaderType] <=> \A d \in Blocks : header'[d] \in HeaderType
        BY <1>i, <2>3 DEF TypeOK
      <3> QED BY <1>i, <2>4, <3>3, <3>4, <3>5 DEF TypeOK
    <2>7. g \in ScopeType /\ g.kind = "destroy"
      BY <1>1, <2>g DEF Scope, ScopeType
    <2>8. FlightEnds(t, p) /\ stack' \in [Threads -> Seq(ScopeType)] /\ DestroyPushed(t, g)
      BY <1>0, <1>i, <1>p, <2>3, <2>7, FlightReplaceDestroy
    <2>9. /\ ThreadsLinked' /\ OneThread' /\ SameScopes({"construct"})
          /\ \A d : Live(d)' <=> Live(d) /\ d # e
      <3>1. /\ e \in Objs /\ e = stack[t][p].ex /\ header[e].handlerCount = 0
            /\ "foreignCatch" \in Habits /\ eh' = eh /\ FlightEnds(t, p)
        BY <1>0, <1>1, <1>3, <2>8
      <3>2. \A d \in Objs : d # e => /\ header'[d].handlerCount = header[d].handlerCount
                                     /\ header'[d].nextException = header[d].nextException
        BY <1>2, <2>4
      <3> QED BY <3>1, <3>2, FlightGone
    <2>10. SubScopes({"construct"}) /\ \A d : InConstruct(d)' <=> InConstruct(d) /\ d # e
      <3>1. SubScopes({"construct"}) /\ \A d : InConstruct(d)' <=> InConstruct(d)
        BY <1>i, <2>8, <2>9, SameConstructs
      <3>2. ~InConstruct(e)
        BY <2>1, ScopeClasses
      <3> QED BY <3>1, <3>2
    <2>11. TypeOK'
      BY <1>0, <1>i, <2>6, <2>8 DEF TypeOK
    <2>12. /\ e \in Objs /\ header[e].class = "primary" /\ ptr' = ptr /\ ~Held(e)
           /\ "makePtrThrows" \notin Habits => header[e].object = "built"
           /\ DestroyPushed(t, Scope("destroy", e, Null))
      BY <1>0, <1>1, <2>2, <2>8, <2>g
    <2>13. \A d \in Blocks : d # e => header'[d] = header[d]
      BY <2>4
    <2> QED BY <2>5, <2>9, <2>10, <2>11, <2>12, <2>13, DyingInv
  <1> QED BY <1>4, <1>5

(***************************************************************************)
(* The end of a thread.                                                    *)
(***************************************************************************)
\* A thread outside of any scope, or in handlers of exceptions that nothing
\* else refers to, frees what it handles.
LEMMA ThreadExitInv ==
    ASSUME IInv, ProperUse, NEW t \in Threads, ThreadExit(t)
    PROVE  IInv' /\ OwnersStep
  <1>i. /\ TypeOK /\ ConstructsOK /\ DestroysOK /\ LiveOK /\ HeadersOK /\ PtrsOK /\ RefsOK
        /\ ThreadsLinked /\ OneThread
    BY DEF IInv
  <1>K. PICK K : K = CaughtList(t)
    OBVIOUS
  <1>f. Freed.class = "free" /\ Freed \in HeaderType
    BY HeaderUpdates DEF Freed
  <1>0. /\ \A i \in Pos(t) : stack[t][i].kind = "catch"
        /\ \/ stack[t] = << >>
           \/ \A e \in K : ~isDependent(e) /\ ~Held(e)
        /\ header' = [x \in Blocks |-> IF x \in K THEN Freed ELSE header[x]]
        /\ eh' = [eh EXCEPT ![t] = [caught |-> Null, uncaught |-> 0, foreign |-> "none"]]
        /\ stack' = [stack EXCEPT ![t] = << >>]
        /\ ptr' = ptr
    BY <1>K DEF ThreadExit, ProperUse, InHandlersOnly, Pos
  <1>1. /\ stack' \in [Threads -> Seq(ScopeType)] /\ stack'[t] = << >>
        /\ \A u \in Threads : u # t => stack'[u] = stack[u]
    BY <1>0, <1>i DEF TypeOK
  <1>2. Pos(t)' = {} /\ \A u \in Threads : u # t => Pos(u)' = Pos(u)
    <2>1. Len(<< >>) = 0 /\ 1 .. 0 = {}
      OBVIOUS
    <2>2. Depth(t)' = 0
      BY <1>1, <2>1 DEF Depth
    <2> QED BY <1>1, <2>1, <2>2 DEF Pos, Depth
  <1>3. /\ \A d : d \in K <=> LiveIn(t, d)
        /\ \A d : LiveIn(t, d) => Live(d)
    <2>1. ThreadLinked(t)
      BY <1>i DEF ThreadsLinked
    <2>2. K = {Exs(t)[i] : i \in AllHandlers(t)}
      BY <1>K, <2>1, ListIsHandlers
    <2>3. \A d : LiveIn(t, d) <=> \E i \in AllHandlers(t) \cup Flights(t) : Exs(t)[i] = d
      BY <1>i, PositionsHere
    <2>4. Flights(t) = {}
      BY <1>0 DEF Flights
    <2>5. \A d : LiveIn(t, d) => Live(d)
      BY DEF Live, LiveIn
    <2> QED BY <2>2, <2>3, <2>4, <2>5
  <1>4. K \subseteq Blocks /\ \A d \in K : Live(d)
    BY <1>3, ScopeClasses
  <1>5. \A d \in K : ~isDependent(d) /\ ~Held(d)
    <2>1. CASE stack[t] = << >>
      <3>1. Len(<< >>) = 0 /\ 1 .. 0 = {}
        OBVIOUS
      <3>2. Pos(t) = {}
        BY <2>1, <3>1 DEF Pos, Depth
      <3> QED BY <1>3, <3>2 DEF LiveIn
    <2> QED BY <1>0, <2>1
  <1>6. /\ \A d \in K : header'[d] = Freed
        /\ \A d \in Blocks : d \notin K => header'[d] = header[d]
    BY <1>0, <1>4
  <1>7. TypeOK'
    <2>1. header' \in [Blocks -> HeaderType]
      BY <1>0, <1>f, <1>i DEF TypeOK
    <2>2. eh' \in [Threads -> ThreadInfo]
      <3>1. [caught |-> Null, uncaught |-> 0, foreign |-> "none"] \in ThreadInfo
        BY DEF ThreadInfo
      <3> QED BY <1>0, <1>i, <3>1 DEF TypeOK
    <2> QED BY <1>0, <1>1, <1>i, <2>1, <2>2 DEF TypeOK
  <1>8. ThreadLinked(t)'
    <2>1. AllHandlers(t)' = {} /\ Flights(t)' = {}
      BY <1>2 DEF AllHandlers, Flights, Pos
    <2>2. eh'[t] = [caught |-> Null, uncaught |-> 0, foreign |-> "none"]
      BY <1>0, <1>i DEF TypeOK
    <2>3. Linked({}, {}, Exs(t)', header', eh'[t])
      BY <2>2, LinkedEmpty
    <2> QED BY <2>1, <2>3 DEF ThreadLinked
  <1>9. Kept(t, 0)
    <2>1. \A j \in Nat : j <= 0 => j \notin Pos(t)
      BY DEF Pos
    <2> QED BY <1>1, <1>2, <2>1 DEF Kept
  <1>10. /\ ThreadsLinked' /\ OneThread'
         /\ \A d : Live(d)' <=> LiveIn(t, d)' \/ (Live(d) /\ ~LiveIn(t, d))
    <2>1. \A d : ~LiveIn(t, d)'
      BY <1>2 DEF LiveIn
    <2>2. \A d \in Objs : Live(d) /\ ~LiveIn(t, d) =>
               /\ header'[d].handlerCount = header[d].handlerCount
               /\ header'[d].nextException = header[d].nextException
      BY <1>3, <1>6 DEF Blocks
    <2>3. \A u \in Threads : u # t => eh'[u] = eh[u]
      BY <1>0, <1>i DEF TypeOK
    <2> QED BY <1>8, <1>9, <1>i, <2>1, <2>2, <2>3, OthersStep
  <1>11. \A d : Live(d)' <=> Live(d) /\ d \notin K
    <2>1. \A d : ~LiveIn(t, d)'
      BY <1>2 DEF LiveIn
    <2> QED BY <1>3, <1>10, <2>1
  <1>12. SameScopes({"construct"}) /\ SameScopes({"destroy"})
    <2>1. \A j \in Pos(t) : stack[t][j].kind = "catch"
      BY <1>0
    <2> QED BY <1>1, <1>2, <2>1 DEF SameScopes
  <1>13. \A d \in Blocks : d \in K => /\ ~InConstruct(d) /\ ~InDestroy(d) /\ header[d].class # "dependent"
    <2>1. ASSUME NEW d \in Blocks, d \in K
          PROVE  ~InConstruct(d) /\ ~InDestroy(d) /\ header[d].class # "dependent"
      <3>1. Live(d) /\ header[d].class # "dependent"
        BY <1>4, <1>5, <2>1 DEF isDependent
      <3>2. d # Null
        BY ExceptionsAssumption DEF Blocks
      <3> QED BY <3>1, <3>2, ScopeClasses DEF Built
    <2> QED BY <2>1
  <1>14. ConstructsOK' /\ \A d : InConstruct(d)' <=> InConstruct(d)
    <2>1. \A d \in Objs : InConstruct(d) => header'[d] = header[d]
      BY <1>6, <1>13 DEF Blocks
    <2> QED BY <1>i, <1>12, <2>1, ConstructFrame
  <1>15. DestroysOK' /\ \A d : InDestroy(d)' <=> InDestroy(d)
    <2>1. \A d \in Objs : InDestroy(d) =>
               header'[d].class = header[d].class /\ header'[d].object = header[d].object
      BY <1>6, <1>13 DEF Blocks
    <2> QED BY <1>i, <1>12, <2>1, DestroyFrame
  <1>16. \A d : Built(d)' <=> Built(d) /\ d \notin K
    <2>1. \A d \in Blocks : d \in K => ~Built(d)'
      BY <1>6, <1>f DEF Built
    <2>2. \A d \in Blocks : d \notin K => (Built(d)' <=> Built(d))
      BY <1>6 DEF Built
    <2>3. \A d : d \notin Blocks => ~Built(d) /\ ~Built(d)'
      BY DEF Built, Blocks
    <2> QED BY <2>1, <2>2, <2>3
  <1>17. LiveOK'
    <2>1. ASSUME NEW d, Live(d)'
          PROVE  \/ Built(d)'
                 \/ d \in Objs /\ header'[d].class = "dependent"
                 \/ d \in ForeignObjs /\ header'[d].class = "foreign"
      <3>1. Live(d) /\ d \notin K
        BY <1>11, <2>1
      <3>2. \/ Built(d)
            \/ d \in Objs /\ header[d].class = "dependent"
            \/ d \in ForeignObjs /\ header[d].class = "foreign"
        BY <1>i, <3>1 DEF LiveOK
      <3>3. d \in Objs \cup ForeignObjs => header'[d] = header[d]
        BY <1>6, <3>1 DEF Blocks
      <3> QED BY <1>16, <3>1, <3>2, <3>3
    <2> QED BY <2>1 DEF LiveOK
  <1>18. \A d \in Objs : header[d].class = "dependent" => header[d].primaryException \notin K
    BY <1>5 DEF Held, isDependent
  <1>19. HeadersOK'
    <2>1. \A d \in Blocks : d \notin K =>
               /\ Counted(d)
               /\ InConstruct(d) => InConstruct(d)'
               /\ InDestroy(d) => InDestroy(d)'
               /\ Live(d) => Live(d)'
               /\ header[d].class = "dependent" => Built(header[d].primaryException)'
      <3>1. ASSUME NEW d \in Blocks, d \notin K, header[d].class = "dependent"
            PROVE  Built(header[d].primaryException)'
        <4>1. Built(header[d].primaryException) /\ d \in Objs
          BY <1>i, <3>1 DEF HeadersOK, HeaderOK
        <4>2. PICK c : c = header[d].primaryException
          OBVIOUS
        <4>3. Built(c)'
          BY <1>16, <1>18, <3>1, <4>1, <4>2
        <4>4. header'[d].primaryException = c
          BY <1>6, <3>1, <4>2
        <4> QED BY <4>3, <4>4
      <3> QED BY <1>6, <1>11, <1>14, <1>15, <3>1 DEF Counted
    <2>2. \A d \in Blocks : d \in K => HeaderOK(d)'
      BY <1>6, <1>f DEF HeaderOK
    <2> QED BY <1>i, <2>1, <2>2, HeadersStep
  <1>20. PtrsOK'
    <2>1. \A s \in Slots : ptr[s] \notin K
      BY <1>5 DEF Held
    <2> QED BY <1>0, <1>i, <1>16, <2>1 DEF PtrsOK
  <1>21. RefsOK' /\ OwnersStep
    <2>1. ASSUME NEW d \in Objs PROVE RefOK(d)' /\ OwnStep(d)
      <3>1. CASE d \in K
        <4>1. header[d].class = "primary" /\ ~Held(d) /\ header'[d].class = "free"
          <5>1. Live(d) /\ ~isDependent(d) /\ ~Held(d) /\ header'[d] = Freed
            BY <1>4, <1>5, <1>6, <3>1
          <5>2. d \notin ForeignObjs
            BY ExceptionsAssumption
          <5>3. Built(d)
            BY <1>i, <5>1, <5>2 DEF LiveOK, isDependent
          <5> QED BY <1>f, <5>1, <5>3 DEF Built
        <4> QED BY <4>1, OwnUnheld DEF RefOK
      <3>2. CASE d \notin K
        <4>1. header'[d] = header[d]
          BY <1>6, <3>2 DEF Blocks
        <4>2. \A c \in Objs : header'[c].class = "dependent" /\ header'[c].primaryException = d <=>
                              header[c].class = "dependent" /\ header[c].primaryException = d
          <5>1. \A c \in Objs : c \notin K => header'[c] = header[c]
            BY <1>6 DEF Blocks
          <5>2. \A c \in Objs : c \in K => header[c].class # "dependent" /\ header'[c].class # "dependent"
            BY <1>6, <1>13, <1>f DEF Blocks
          <5> QED BY <5>1, <5>2
        <4>3. Live(d)' <=> Live(d)
          BY <1>11, <3>2
        <4>4. Holders(d)' = Holders(d)
          BY <1>0, <4>2, <4>3, HoldersSame
        <4>5. RefOK(d)
          BY <1>i DEF RefsOK
        <4> QED BY <4>1, <4>4, <4>5, RefFrame
      <3> QED BY <3>1, <3>2
    <2> QED BY <2>1 DEF RefsOK, OwnersStep
  <1> QED BY <1>7, <1>10, <1>14, <1>15, <1>17, <1>19, <1>20, <1>21 DEF IInv

(***************************************************************************)
(* Every step.                                                             *)
(***************************************************************************)
\* How the program ended, if it did.
ProgramOK ==
    /\ program # "ub"
    /\ "rethrowWhileUnwinding" \notin Habits => program # "assert"

LEMMA UnchangedInv ==
    ASSUME IInv, header' = header, eh' = eh, stack' = stack, ptr' = ptr
    PROVE  IInv' /\ OwnersStep
  <1>1. SameScopes({"construct"}) /\ SameScopes({"destroy"})
    BY DEF SameScopes, Pos, Depth
  <1>2. \A d \in Blocks : Counted(d)
    BY DEF Counted
  <1>3. \A e : Live(e)' <=> Live(e)
    BY DEF Live, Pos, Depth
  <1>4. TypeOK'
    BY DEF IInv, TypeOK
  <1>5. OneThread'
    BY DEF IInv, OneThread, Pos, Depth
  <1>6. ThreadsLinked'
    <2>1. ASSUME NEW t \in Threads PROVE ThreadLinked(t)'
      <3>1. AllHandlers(t)' = AllHandlers(t) /\ Flights(t)' = Flights(t) /\ Exs(t)' = Exs(t)
        BY DEF AllHandlers, Flights, Exs, Pos, Depth
      <3>2. ThreadLinked(t)
        BY DEF IInv, ThreadsLinked
      <3> QED BY <3>1, <3>2 DEF ThreadLinked
    <2> QED BY <2>1 DEF ThreadsLinked
  <1> QED BY <1>1, <1>2, <1>3, <1>4, <1>5, <1>6, QuietStep

LEMMA InitInv == Init => IInv /\ ProgramOK
  <1> SUFFICES ASSUME Init PROVE IInv /\ ProgramOK
    OBVIOUS
  <1>f. Freed.class = "free" /\ Freed \in HeaderType
    BY HeaderUpdates DEF Freed
  <1>r. PICK r : r = [caught |-> Null, uncaught |-> 0, foreign |-> "none"]
    OBVIOUS
  <1>1. /\ \A d \in Blocks : header[d] = Freed
        /\ \A t \in Threads : eh[t] = r /\ stack[t] = << >>
        /\ \A s \in Slots : ptr[s] = Null
    BY <1>r DEF Init
  <1>2. TypeOK
    <2>1. r \in ThreadInfo
      BY <1>r DEF ThreadInfo
    <2>2. << >> \in Seq(ScopeType)
      OBVIOUS
    <2> QED BY <1>f, <1>r, <2>1, <2>2 DEF Init, TypeOK
  <1>3. \A t \in Threads : Pos(t) = {}
    <2>1. Len(<< >>) = 0 /\ 1 .. 0 = {}
      OBVIOUS
    <2> QED BY <1>1, <2>1 DEF Pos, Depth
  <1>4. ConstructsOK /\ DestroysOK /\ LiveOK /\ OneThread
    BY <1>3 DEF ConstructsOK, DestroysOK, LiveOK, OneThread, Live
  <1>5. ThreadsLinked
    <2>1. ASSUME NEW t \in Threads PROVE ThreadLinked(t)
      <3>1. AllHandlers(t) = {} /\ Flights(t) = {}
        BY <1>3 DEF AllHandlers, Flights, Pos
      <3>2. Linked({}, {}, Exs(t), header, r)
        BY <1>r, LinkedEmpty
      <3> QED BY <1>1, <3>1, <3>2 DEF ThreadLinked
    <2> QED BY <2>1 DEF ThreadsLinked
  <1>6. HeadersOK
    BY <1>1, <1>f DEF HeadersOK, HeaderOK
  <1>7. PtrsOK
    BY <1>1 DEF PtrsOK
  <1>8. RefsOK
    BY <1>1, <1>f DEF RefsOK, RefOK, Blocks
  <1>9. ProgramOK
    BY DEF Init, ProgramOK
  <1> QED BY <1>2, <1>4, <1>5, <1>6, <1>7, <1>8, <1>9 DEF IInv

LEMMA ThrowStepInv ==
    ASSUME IInv, ProgramOK, NEW t \in Threads, ThrowStep(t)
    PROVE  IInv' /\ OwnersStep /\ ProgramOK'
  <1>1. CASE \E e \in Objs : AllocateException(t, e, "throw")
    <2>1. PICK e \in Objs : AllocateException(t, e, "throw")
      BY <1>1
    <2>2. PICK aux \in {"throw", "ptr"} : aux = "throw"
      OBVIOUS
    <2>3. AllocateException(t, e, aux)
      BY <2>1, <2>2
    <2>4. IInv' /\ OwnersStep
      BY <2>3, AllocateExceptionInv
    <2> QED BY <2>1, <2>4 DEF AllocateException, ProgramOK
  <1>2. CASE \E e \in Objs : Slots # {} /\ AllocateException(t, e, "ptr")
    <2>1. PICK e \in Objs : AllocateException(t, e, "ptr")
      BY <1>2
    <2>2. PICK aux \in {"throw", "ptr"} : aux = "ptr"
      OBVIOUS
    <2>3. AllocateException(t, e, aux)
      BY <2>1, <2>2
    <2>4. IInv' /\ OwnersStep
      BY <2>3, AllocateExceptionInv
    <2> QED BY <2>1, <2>4 DEF AllocateException, ProgramOK
  <1>3. CASE Throw(t)
    BY <1>3, ThrowInv DEF Throw, ProgramOK
  <1>4. CASE \E s \in Slots : MakeExceptionPtr(t, s)
    BY <1>4, MakeExceptionPtrInv DEF MakeExceptionPtr, ProgramOK
  <1>5. CASE \E s \in Slots, d \in Objs : RethrowExceptionPtr(t, s, d)
    <2>1. PICK s \in Slots : \E d \in Objs : RethrowExceptionPtr(t, s, d)
      BY <1>5
    <2>2. PICK d \in Objs : RethrowExceptionPtr(t, s, d)
      BY <2>1
    <2>3. IInv' /\ OwnersStep
      BY <2>2, RethrowExceptionPtrInv
    <2> QED BY <2>2, <2>3 DEF RethrowExceptionPtr, ProgramOK
  <1>6. CASE \E f \in ForeignObjs : RaiseForeign(t, f)
    BY <1>6, RaiseForeignInv DEF RaiseForeign, ProgramOK
  <1>7. CASE Rethrow(t)
    <2>0. /\ MayRethrow(t) /\ ~isForeign(Current(t))
          /\ ~Propagates(t, Innermost(t, AllHandlers(t))) => header[Current(t)].handlerCount > 0
      BY <1>7, RethrowCount DEF Rethrow
    <2>1. CASE header[Current(t)].handlerCount > 0
      BY <1>7, <2>0, <2>1, RethrowInv DEF ProgramOK
    <2>2. CASE ~(header[Current(t)].handlerCount > 0)
      <3>1. "rethrowWhileUnwinding" \in Habits
        BY <2>0, <2>2 DEF MayRethrow
      <3>2. /\ program' = "assert"
            /\ header' = header /\ eh' = eh /\ stack' = stack /\ ptr' = ptr
        BY <1>7, <2>0, <2>2 DEF Rethrow
      <3> QED BY <3>1, <3>2, UnchangedInv DEF ProgramOK
    <2> QED BY <2>1, <2>2
  <1>8. CASE RethrowForeign(t)
    BY <1>8, RethrowForeignInv DEF RethrowForeign, ProgramOK
  <1>9. CASE RethrowNothing(t)
    BY <1>9, UnchangedInv DEF RethrowNothing, ProgramOK
  <1> QED BY <1>1, <1>2, <1>3, <1>4, <1>5, <1>6, <1>7, <1>8, <1>9 DEF ThrowStep

LEMMA CatchStepsInv ==
    ASSUME IInv, ProgramOK, ProperUse, NEW t \in Threads, CatchStep(t)
    PROVE  IInv' /\ OwnersStep /\ ProgramOK'
  <1>1. CASE Catch(t)
    <2>1. PICK kind \in {"catch", "unexpected"} :
              (BeginCatch(t, kind) /\ UNCHANGED program) \/ BeginCatchForeign(t, kind)
      BY <1>1 DEF Catch
    <2>2. CASE BeginCatch(t, kind) /\ UNCHANGED program
      BY <2>2, BeginCatchInv DEF ProgramOK
    <2>3. CASE BeginCatchForeign(t, kind) /\ Current(t) = Null
      BY <2>3, BeginCatchForeignInv DEF ProgramOK
    <2>4. CASE BeginCatchForeign(t, kind) /\ Current(t) # Null
      BY <2>4, UnchangedInv DEF BeginCatchForeign, ProgramOK
    <2> QED BY <2>1, <2>2, <2>3, <2>4
  <1>2. CASE RaiseFails(t)
    <2>1. PICK kind \in {"catch", "unexpected"} : kind = "catch"
      OBVIOUS
    <2>2. BeginCatch(t, kind) /\ program' = "terminate"
      BY <1>2, <2>1 DEF RaiseFails
    <2> QED BY <2>2, BeginCatchInv DEF ProgramOK
  <1>3. CASE RethrowForeignFails(t)
    BY <1>3, UnchangedInv DEF RethrowForeignFails, ProgramOK
  <1>4. CASE LeaveCatch(t)
    BY <1>4, LeaveCatchInv DEF ProgramOK
  <1>5. CASE UnexpectedReturns(t)
    BY <1>5, UnchangedInv DEF UnexpectedReturns, ProgramOK
  <1> QED BY <1>1, <1>2, <1>3, <1>4, <1>5 DEF CatchStep

LEMMA UnwindStepInv ==
    ASSUME IInv, ProgramOK, ProperUse, NEW t \in Threads, UnwindStep(t)
    PROVE  IInv' /\ OwnersStep /\ ProgramOK'
  <1>1. CASE EnterCleanup(t)
    BY <1>1, EnterCleanupInv DEF EnterCleanup, ProgramOK
  <1>2. CASE LeaveCleanup(t)
    BY <1>2, LeaveCleanupInv DEF LeaveCleanup, ProgramOK
  <1>3. CASE EscapeCatch(t)
    BY <1>3, EscapeCatchInv DEF ProgramOK
  <1>4. CASE EscapeConstruct(t)
    BY <1>4, EscapeConstructInv DEF EscapeConstruct, ProgramOK
  <1>5. CASE EscapeDestructor(t)
    BY <1>5, UnchangedInv DEF EscapeDestructor, ProgramOK
  <1>6. CASE ForeignCatch(t)
    <2>1. program' = program
      BY <1>6 DEF ForeignCatch
    <2> QED BY <1>6, <2>1, ForeignCatchInv DEF ProgramOK
  <1> QED BY <1>1, <1>2, <1>3, <1>4, <1>5, <1>6 DEF UnwindStep

LEMMA PtrStepInv ==
    ASSUME IInv, ProgramOK, ProperUse, NEW t \in Threads, PtrStep(t)
    PROVE  IInv' /\ OwnersStep /\ ProgramOK'
  <1>1. CASE \E s \in Slots : CurrentException(t, s)
    BY <1>1, CurrentExceptionInv DEF ProgramOK
  <1>2. CASE \E s, s2 \in Slots : CopyPtr(t, s, s2)
    <2>1. PICK s \in Slots, s2 \in Slots : CopyPtr(t, s, s2)
      BY <1>2
    <2> QED BY <2>1, CopyPtrInv DEF CopyPtr, ProgramOK
  <1>3. CASE \E s \in Slots : DropPtr(t, s)
    BY <1>3, DropPtrInv DEF DropPtr, ProgramOK
  <1> QED BY <1>1, <1>2, <1>3 DEF PtrStep

LEMMA NextInv ==
    ASSUME IInv, ProgramOK, ProperUse, [Next]_vars
    PROVE  IInv' /\ OwnersStep /\ ProgramOK'
  <1>1. CASE UNCHANGED vars
    BY <1>1, UnchangedInv DEF vars, ProgramOK
  <1>2. CASE Next
    <2>1. PICK t \in Threads :
              \/ ThrowStep(t) \/ CatchStep(t) \/ UnwindStep(t) \/ PtrStep(t)
              \/ DestructorReturns(t) \/ ThreadExit(t)
      BY <1>2 DEF Next
    <2>2. CASE ThrowStep(t)
      BY <2>2, ThrowStepInv
    <2>3. CASE CatchStep(t)
      BY <2>3, CatchStepsInv
    <2>4. CASE UnwindStep(t)
      BY <2>4, UnwindStepInv
    <2>5. CASE PtrStep(t)
      BY <2>5, PtrStepInv
    <2>6. CASE DestructorReturns(t)
      BY <2>6, DestructorReturnsInv DEF DestructorReturns, ProgramOK
    <2>7. CASE ThreadExit(t)
      BY <2>7, ThreadExitInv DEF ThreadExit, ProgramOK
    <2> QED BY <2>1, <2>2, <2>3, <2>4, <2>5, <2>6, <2>7
  <1> QED BY <1>1, <1>2

-----------------------------------------------------------------------------
(***************************************************************************)
(* What the invariant says.                                                *)
(***************************************************************************)
\* The inductive invariant holds in every state the operations of exception.cc
\* can reach, for any number of threads, exceptions and exception_ptrs and any
\* depth of handlers, and the program has not run into undefined behaviour.
THEOREM InvariantHolds == ProperUse => (Spec => [](IInv /\ ProgramOK))
  <1> SUFFICES ASSUME ProperUse PROVE Spec => [](IInv /\ ProgramOK)
    OBVIOUS
  <1>1. Init => IInv /\ ProgramOK
    BY InitInv
  <1>2. (IInv /\ ProgramOK) /\ [Next]_vars => (IInv /\ ProgramOK)'
    BY NextInv
  <1> QED BY <1>1, <1>2, PTL DEF Spec

\* Headers, thread information, stacks of scopes and exception_ptrs keep their
\* shape: in particular no catch and no rethrow needs a scope that is not there.
THEOREM TypesHold == ProperUse => (Spec => []TypeOK)
  <1> SUFFICES ASSUME ProperUse PROVE Spec => []TypeOK
    OBVIOUS
  <1>1. IInv /\ ProgramOK => TypeOK
    BY DEF IInv
  <1>2. Spec => [](IInv /\ ProgramOK)
    BY InvariantHolds
  <1> QED BY <1>1, <1>2, PTL

\* The referenceCount of every primary exception is the number of those that
\* refer to it: the thrown or caught exception itself, its dependent exceptions
\* and the exception_ptrs, whatever the threads do to their copies.  So
\* __cxa_decrement_exception_refcount destroys it neither early nor never.
THEOREM ReferenceCountsExact == ProperUse => (Spec => []RefCountExact)
  <1> SUFFICES ASSUME ProperUse PROVE Spec => []RefCountExact
    OBVIOUS
  <1>1. IInv /\ ProgramOK => RefCountExact
    BY DEF IInv, RefsOK, RefOK, RefCountExact
  <1>2. Spec => [](IInv /\ ProgramOK)
    BY InvariantHolds
  <1> QED BY <1>1, <1>2, PTL

\* No reference is to a block that has been freed.
LEMMA InvNoDangling ==
    ASSUME IInv PROVE NoDangling
  <1>i. LiveOK /\ PtrsOK /\ HeadersOK /\ ThreadsLinked /\ TypeOK
    BY DEF IInv
  <1>1. \A e : Live(e) => header[e].class \in {"primary", "dependent", "foreign"}
    BY <1>i DEF LiveOK, Built
  <1>2. ASSUME NEW t \in Threads, NEW e \in CaughtList(t)
        PROVE  header[e].class \in {"primary", "dependent", "foreign"}
    <2>1. ThreadLinked(t)
      BY <1>i DEF ThreadsLinked
    <2>2. PICK i \in AllHandlers(t) : e = Exs(t)[i]
      BY <1>2, <2>1, ListIsHandlers
    <2>3. LiveIn(t, e)
      BY <1>i, <2>2, PositionsHere
    <2> QED BY <1>1, <2>3 DEF Live, LiveIn
  <1>3. ASSUME NEW t \in Threads, NEW f \in Scopes(t), f.kind \in {"unwind", "catch", "unexpected"}
        PROVE  header[f.ex].class \in {"primary", "dependent", "foreign"}
    BY <1>1, <1>3 DEF Scopes, Live, LiveKinds, Pos
  <1>4. \A s \in Slots : ptr[s] # Null => header[ptr[s]].class = "primary"
    BY <1>i DEF PtrsOK, Built
  <1>5. \A d \in Objs : isDependent(d) => header[header[d].primaryException].class = "primary"
    BY <1>i DEF HeadersOK, HeaderOK, isDependent, Built, Blocks
  <1> QED BY <1>2, <1>3, <1>4, <1>5 DEF NoDangling

\* Nothing that is still used is freed: the list __cxa_end_catch walks, the
\* exceptions the unwinder and the handlers hold, the exception_ptrs and the
\* primaryException of a dependent exception all lead to headers that exist.
THEOREM NothingDangles == ProperUse => (Spec => []NoDangling)
  <1> SUFFICES ASSUME ProperUse PROVE Spec => []NoDangling
    OBVIOUS
  <1>1. IInv /\ ProgramOK => NoDangling
    BY InvNoDangling
  <1>2. Spec => [](IInv /\ ProgramOK)
    BY InvariantHolds
  <1> QED BY <1>1, <1>2, PTL

\* exceptionDestructor runs on an object only if its constructor has finished
\* and it has not been destroyed yet, if no copy made by make_exception_ptr
\* throws.
THEOREM OnlyBuiltDestroyed ==
    ProperUse /\ "makePtrThrows" \notin Habits => (Spec => []DestroyOnlyBuilt)
  <1> SUFFICES ASSUME ProperUse, "makePtrThrows" \notin Habits PROVE Spec => []DestroyOnlyBuilt
    OBVIOUS
  <1>1. IInv /\ ProgramOK => DestroyOnlyBuilt
    BY DEF IInv, DestroysOK, DestroyOK, DestroyOnlyBuilt, Scopes, Pos
  <1>2. Spec => [](IInv /\ ProgramOK)
    BY InvariantHolds
  <1> QED BY <1>1, <1>2, PTL

\* Linked, said of the list as __cxa_end_catch reads it.
LEMMA InvCaughtList ==
    ASSUME IInv PROVE CaughtListMatchesHandlers
  <1>i. ThreadsLinked /\ TypeOK
    BY DEF IInv
  <1> SUFFICES ASSUME NEW t \in Threads
               PROVE  /\ Current(t) = Innermost(t, AllHandlers(t))
                      /\ \A e \in CaughtList(t) \cap Objs :
                            LET I == HandlersOf(t, e)
                                outside == {j \in AllHandlers(t) : \A i \in I : j < i}
                            IN  /\ I # {}
                                /\ header[e].handlerCount =
                                      IF Propagates(t, e) THEN -Cardinality(I) ELSE Cardinality(I)
                                /\ header[e].nextException = Innermost(t, outside)
    BY DEF CaughtListMatchesHandlers
  <1> DEFINE H == AllHandlers(t)
             U == Flights(t)
             x == Exs(t)
             r == eh[t]
  <1>1. Linked(H, U, x, header, r) /\ ThreadLinked(t)
    BY <1>i DEF ThreadsLinked, ThreadLinked
  <1>2. /\ H \subseteq Nat /\ U \subseteq Nat
        /\ \A i \in H \cup U : i \in Pos(t) /\ x[i] = stack[t][i].ex
    BY <1>i, PositionsHere
  <1>3. Positions(H, U, x)
    BY <1>1 DEF Linked
  <1>4. H # {} => \E i \in H : \A j \in H : j <= i
    <2> HIDE DEF H, U, x
    <2> QED BY <1>3, PositionsFinite
  <1>5. Current(t) = Innermost(t, H)
    <2>1. CASE H = {}
      BY <1>1, <2>1 DEF Linked, HeadIs, Current, Innermost
    <2>2. CASE H # {}
      <3>1. PICK i \in H : \A j \in H : j <= i
        BY <1>4, <2>2
      <3>2. Current(t) = x[i]
        BY <1>1, <3>1 DEF Linked, HeadIs, Current
      <3>3. x[i] = stack[t][i].ex
        BY <1>2
      <3>4. Innermost(t, H) = stack[t][i].ex
        <4> HIDE DEF H
        <4> QED BY <1>2, <3>1, InnermostIs
      <3> QED BY <3>2, <3>3, <3>4
    <2> QED BY <2>1, <2>2
  <1>6. ASSUME NEW e \in CaughtList(t), e \in Objs
        PROVE  LET I == HandlersOf(t, e)
                   outside == {j \in AllHandlers(t) : \A i \in I : j < i}
               IN  /\ I # {}
                   /\ header[e].handlerCount =
                         IF Propagates(t, e) THEN -Cardinality(I) ELSE Cardinality(I)
                   /\ header[e].nextException = Innermost(t, outside)
    <2> DEFINE I == HandlersOf(t, e)
               outside == {j \in H : \A i \in I : j < i}
    <2>1. PICK i1 \in H : x[i1] = e
      BY <1>1, <1>6, ListIsHandlers
    <2>2. I = Handling(H, x, e)
      <3>1. \A i : i \in I <=> i \in H /\ x[i] = e
        BY <1>2 DEF HandlersOf, AllHandlers
      <3> QED BY <3>1 DEF Handling
    <2>3. Propagates(t, e) <=> \E j \in U : x[j] = e
      <3>1. \A i : i \in U <=> i \in 1 .. Depth(t) /\ stack[t][i].kind = "unwind"
        BY DEF Flights, Pos
      <3> QED BY <1>2, <3>1 DEF Propagates
    <2>4. header[e].handlerCount = IF Propagates(t, e) THEN -Cardinality(I) ELSE Cardinality(I)
      <3>1. header[e].handlerCount = IF \E j \in U : x[j] = e THEN -Cardinality(Handling(H, x, e))
                                     ELSE Cardinality(Handling(H, x, e))
        BY <1>1, <1>6, <2>1 DEF Linked, CountIs
      <3> QED BY <2>2, <2>3, <3>1
    <2>5. I # {} /\ I \subseteq Nat /\ I \subseteq H /\ \A i \in H : i \in I <=> x[i] = e
      BY <1>2, <2>1, <2>2 DEF Handling
    <2>6. PICK i0 \in I : \A j \in I : i0 <= j
      <3> HIDE DEF I
      <3> QED BY <2>5, LeastPosition
    <2>7. i0 \in H /\ x[i0] = e /\ i0 \in Nat
      BY <2>5, <2>6
    <2>8. \A j \in H : (\A i \in I : j < i) <=> j < i0
      <3>1. I \subseteq Nat /\ H \subseteq Nat /\ i0 \in I /\ \A j \in I : i0 <= j
        BY <1>2, <2>5, <2>6
      <3> HIDE DEF I, H
      <3> QED BY <3>1
    <2>9. header[e].nextException = Innermost(t, outside)
      <3>1. outside = {j \in H : j < i0}
        BY <2>8
      <3>2. CASE \A j \in H : i0 <= j
        <4>1. outside = {}
          <5>1. \A j \in H : ~(j < i0)
            BY <1>2, <2>7, <3>2
          <5> QED BY <3>1, <5>1
        <4>2. header[e].nextException = Null
          BY <1>1, <1>6, <2>7, <3>2 DEF Linked, NextIs
        <4> QED BY <4>1, <4>2 DEF Innermost
      <3>3. CASE \E j \in H : ~(i0 <= j)
        <4> DEFINE J == {j \in H : j < i0}
        <4>1. J # {} /\ J \subseteq Nat /\ \A j \in J : j <= i0
          <5>1. PICK j \in H : ~(i0 <= j)
            BY <3>3
          <5>2. j \in J
            BY <1>2, <2>7, <5>1
          <5>3. \A k \in J : k \in Nat /\ k <= i0
            BY <1>2, <2>7
          <5> QED BY <5>2, <5>3
        <4>2. PICK k \in J : \A j \in J : j <= k
          <5>1. i0 \in Nat
            BY <2>7
          <5> HIDE DEF J
          <5> QED BY <4>1, <5>1, BoundedGreatest
        <4>3. k \in H /\ k < i0 /\ x[k] # x[i0] /\ \A j \in H : j <= k \/ i0 <= j
          <5>1. k \in H /\ k < i0
            BY <4>2
          <5>2. \A j \in H : j <= k \/ i0 <= j
            BY <1>2, <2>7, <4>2
          <5>3. x[k] # e
            <6>1. k \notin I
              BY <1>2, <2>6, <2>7, <5>1
            <6> QED BY <2>5, <5>1, <6>1
          <5> QED BY <2>7, <5>1, <5>2, <5>3
        <4>4. header[e].nextException = x[k]
          BY <1>1, <1>6, <2>7, <4>3 DEF Linked, NextIs
        <4>5. x[k] = stack[t][k].ex
          BY <1>2, <4>3
        <4>6. Innermost(t, J) = stack[t][k].ex
          <5>1. J \subseteq Nat /\ k \in J /\ \A j \in J : j <= k
            BY <4>1, <4>2
          <5> HIDE DEF J
          <5> QED BY <5>1, InnermostIs
        <4> QED BY <3>1, <4>4, <4>5, <4>6
      <3> QED BY <3>2, <3>3
    <2> QED BY <2>4, <2>5, <2>9
  <1> QED BY <1>5, <1>6

\* After any nesting of catches, rethrows and exceptions leaving handlers, the
\* list of caught exceptions is the handlers of the thread from the innermost
\* outwards, and handlerCount is the number of them, negative while the
\* exception is being rethrown.
THEOREM CaughtListsMatch == ProperUse => (Spec => []CaughtListMatchesHandlers)
  <1> SUFFICES ASSUME ProperUse PROVE Spec => []CaughtListMatchesHandlers
    OBVIOUS
  <1>1. IInv /\ ProgramOK => CaughtListMatchesHandlers
    BY InvCaughtList
  <1>2. Spec => [](IInv /\ ProgramOK)
    BY InvariantHolds
  <1> QED BY <1>1, <1>2, PTL

\* UncaughtIs, for programs in which only C++ catches what C++ threw.
LEMMA InvUncaught ==
    ASSUME IInv, "foreignCatch" \notin Habits PROVE UncaughtExact
  <1> SUFFICES ASSUME NEW t \in Threads
               PROVE  eh[t].uncaught =
                        Cardinality({i \in 1 .. Depth(t) :
                            stack[t][i].kind = "unwind" /\ ~isForeign(stack[t][i].ex)})
    BY DEF UncaughtExact
  <1>1. ThreadLinked(t) /\ TypeOK
    BY DEF IInv, ThreadsLinked
  <1>2. eh[t].uncaught = Cardinality(InFlight(Flights(t), Exs(t)))
    BY <1>1 DEF ThreadLinked, Linked, UncaughtIs
  <1>3. InFlight(Flights(t), Exs(t)) =
          {i \in 1 .. Depth(t) : stack[t][i].kind = "unwind" /\ ~isForeign(stack[t][i].ex)}
    BY DEF InFlight, Flights, Exs, Pos, isForeign
  <1> QED BY <1>2, <1>3

\* std::uncaught_exceptions is the number of exceptions in flight in the
\* thread: every throw, rethrow, catch and exception leaving a handler keeps
\* uncaughtExceptions right, if no other language catches a C++ exception.
THEOREM UncaughtIsExact ==
    ProperUse /\ "foreignCatch" \notin Habits => (Spec => []UncaughtExact)
  <1> SUFFICES ASSUME ProperUse, "foreignCatch" \notin Habits PROVE Spec => []UncaughtExact
    OBVIOUS
  <1>1. IInv /\ ProgramOK => UncaughtExact
    BY InvUncaught
  <1>2. Spec => [](IInv /\ ProgramOK)
    BY InvariantHolds
  <1> QED BY <1>1, <1>2, PTL

\* A header that exists is held by a scope or by an exception_ptr.
LEMMA InvNoLeak ==
    ASSUME IInv PROVE NoLeak
  <1> SUFFICES ASSUME \A t \in Threads : stack[t] = << >>, \A s \in Slots : ptr[s] = Null,
                      NEW e \in Blocks
               PROVE  header[e].class = "free"
    BY DEF NoLeak
  <1>i. HeadersOK /\ RefsOK /\ TypeOK
    BY DEF IInv
  <1>1. \A t \in Threads : Pos(t) = {}
    <2>1. Len(<< >>) = 0 /\ 1 .. 0 = {}
      OBVIOUS
    <2> QED BY <2>1 DEF Pos, Depth
  <1>2. \A d : ~Live(d) /\ ~InConstruct(d) /\ ~InDestroy(d)
    BY <1>1 DEF Live, InConstruct, InDestroy
  <1>3. \A d \in Blocks : header[d].class # "dependent"
    BY <1>2, <1>i DEF HeadersOK, HeaderOK
  <1>4. ASSUME NEW d \in Objs PROVE Holders(d) = {}
    <2>1. ~Thrown(d)
      BY <1>2, ThrownIsLive
    <2>2. \A s \in Slots : ptr[s] # d
      BY ExceptionsAssumption
    <2>3. \A c \in Objs : ~isDependent(c)
      BY <1>3 DEF isDependent, Blocks
    <2> QED BY <2>1, <2>2, <2>3 DEF Holders
  <1>5. header[e].class # "primary"
    <2> SUFFICES ASSUME header[e].class = "primary" PROVE FALSE
      OBVIOUS
    <2>1. e \in Objs /\ header[e].object = "built"
      BY <1>2, <1>i DEF HeadersOK, HeaderOK
    <2>2. header[e].referenceCount = Cardinality(Holders(e)) /\ header[e].referenceCount > 0
      BY <1>i, <2>1 DEF RefsOK, RefOK
    <2>3. Cardinality({}) = 0
      BY FS_EmptySet
    <2>4. Holders(e) = {}
      BY <1>4, <2>1
    <2>5. ~(0 > 0)
      OBVIOUS
    <2>6. header[e].referenceCount = 0
      BY ONLY <2>2, <2>3, <2>4
    <2> QED BY ONLY <2>2, <2>5, <2>6
  <1>6. header[e].class \in Classes
    BY <1>i DEF TypeOK, HeaderType
  <1> QED BY <1>2, <1>3, <1>5, <1>6, <1>i DEF HeadersOK, HeaderOK, Classes

\* When no thread is inside a handler or unwinding, and no exception_ptr
\* is left, every exception has been freed.
THEOREM NothingLeaks == ProperUse => (Spec => []NoLeak)
  <1> SUFFICES ASSUME ProperUse PROVE Spec => []NoLeak
    OBVIOUS
  <1>1. IInv /\ ProgramOK => NoLeak
    BY InvNoLeak
  <1>2. Spec => [](IInv /\ ProgramOK)
    BY InvariantHolds
  <1> QED BY <1>1, <1>2, PTL

\* The assertions of __cxa_rethrow (handlerCount is positive) and
\* __cxa_end_catch (there is a current exception) never fail, after any nesting
\* of handlers, rethrows and cleanups, if the program says "throw;" only where
\* the exception of its innermost handler is not in flight already.
THEOREM AssertionsAreTrue ==
    ProperUse /\ "rethrowWhileUnwinding" \notin Habits => (Spec => []AssertionsHold)
  <1> SUFFICES ASSUME ProperUse, "rethrowWhileUnwinding" \notin Habits PROVE Spec => []AssertionsHold
    OBVIOUS
  <1>1. IInv /\ ProgramOK => AssertionsHold
    BY DEF ProgramOK, AssertionsHold
  <1>2. Spec => [](IInv /\ ProgramOK)
    BY InvariantHolds
  <1> QED BY <1>1, <1>2, PTL

(***************************************************************************)
(* The refinement of SharedOwnership.                                      *)
(***************************************************************************)
LEMMA OwnersStart == Init => Ownership!Init
  <1> SUFFICES ASSUME Init PROVE Ownership!Init
    OBVIOUS
  <1>1. ASSUME NEW e \in Objs PROVE Life(e) = "none" /\ OwnersOf(e) = {}
    <2>1. header[e].class = "free"
      BY <1>1, ExceptionsAssumption DEF Init, Freed, Blocks
    <2>2. ~Built(e) /\ Life(e) = "none"
      BY <2>1 DEF Built, Life
    <2> QED BY <2>2, LifeIs
  <1> QED BY <1>1 DEF Ownership!Init

LEMMA OwnersTyped ==
    ASSUME NEW e \in Objs
    PROVE  Life(e)' \in {"none", "live", "dying"} /\ OwnersOf(e)' \in SUBSET (Objs \cup Slots)
  <1>1. Holders(e)' \subseteq Objs \cup Slots
    BY DEF Holders
  <1> QED BY <1>1, LifeIsNext

\* A step of one exception is a step of its object.
LEMMA OwnStepRefines ==
    ASSUME NEW e \in Objs, OwnStep(e)
    PROVE  \/ Ownership!Stays(e) \/ Ownership!Create(e) \/ Ownership!Join(e)
           \/ Ownership!Leave(e) \/ Ownership!LastLeaves(e) \/ Ownership!Destroyed(e)
  BY DEF OwnStep, Ownership!Becomes, Ownership!Stays, Ownership!Create, Ownership!Join,
         Ownership!Leave, Ownership!LastLeaves, Ownership!Destroyed

LEMMA OwnersStepRefines == OwnersStep => Ownership!Next
  <1> SUFFICES ASSUME OwnersStep PROVE Ownership!Next
    OBVIOUS
  <1>1. /\ [e \in Objs |-> Life(e)'] \in [Objs -> {"none", "live", "dying"}]
        /\ [e \in Objs |-> OwnersOf(e)'] \in [Objs -> SUBSET (Objs \cup Slots)]
    BY OwnersTyped
  <1>2. \A e \in Objs :
            \/ Ownership!Stays(e) \/ Ownership!Create(e) \/ Ownership!Join(e)
            \/ Ownership!Leave(e) \/ Ownership!LastLeaves(e) \/ Ownership!Destroyed(e)
    BY OwnStepRefines DEF OwnersStep
  <1> QED BY <1>1, <1>2 DEF Ownership!Next

\* Whatever the threads do with the exceptions they share, the counting of
\* __cxa_throw, __cxa_rethrow_exception_ptr, __cxa_current_primary_exception and
\* releaseException is shared ownership: the destructor of an exception object
\* is called when its last owner leaves it, once, and nothing becomes an owner
\* of an object that is being destroyed or is gone.
THEOREM OwnershipIsShared == ProperUse => (Spec => ImplementsSharedOwnership)
  <1> SUFFICES ASSUME ProperUse PROVE Spec => Ownership!Spec
    BY DEF ImplementsSharedOwnership
  <1>1. Init => Ownership!Init
    BY OwnersStart
  <1>2. (IInv /\ ProgramOK) /\ [Next]_vars => [Ownership!Next]_(Ownership!vars)
    BY NextInv, OwnersStepRefines
  <1>3. Spec => [](IInv /\ ProgramOK)
    BY InvariantHolds
  <1> QED BY <1>1, <1>2, <1>3, PTL DEF Spec, Ownership!Spec

-----------------------------------------------------------------------------
(***************************************************************************)
(* Foreign exceptions stay apart, in every program that does not use C++   *)
(* handlers or current_exception in a foreign handler, whatever else it    *)
(* does wrong: even where other languages and ending threads free          *)
(* exceptions under the runtime, and IInv does not hold.                   *)
(***************************************************************************)
\* A foreign exception is never below another on the list of caught
\* exceptions, and while it is the head foreign_exception_state says so. What
\* is constructed or in flight is an exception.
PlainHeader ==
    [class : Classes, referenceCount : Int, handlerCount : Int,
     nextException : Objs \cup {Null}, primaryException : Blocks \cup {Null},
     exceptionType : Objs \cup {Null, "T"}, exceptionDestructor : BOOLEAN,
     object : {"none", "built"}]
KnownScope == {f \in ScopeType : f.kind \in {"construct", "unwind"} => f.ex \in Blocks}
KnownInfo == {r \in ThreadInfo : r.caught \in ForeignObjs => r.foreign # "none"}
Apart ==
    /\ header \in [Blocks -> PlainHeader]
    /\ eh \in [Threads -> KnownInfo]
    /\ stack \in [Threads -> Seq(KnownScope)]
    /\ ptr \in [Slots -> Blocks \cup {Null}]
    /\ NoUndefinedBehaviour

LEMMA PlainUpdates ==
    /\ Freed \in PlainHeader
    /\ \A r \in PlainHeader : \A v \in Classes : [r EXCEPT !.class = v] \in PlainHeader
    /\ \A r \in PlainHeader : \A v \in Int : [r EXCEPT !.referenceCount = v] \in PlainHeader
    /\ \A r \in PlainHeader : \A v \in Int : [r EXCEPT !.handlerCount = v] \in PlainHeader
    /\ \A r \in PlainHeader : \A v \in Objs \cup {Null} :
          [r EXCEPT !.nextException = v] \in PlainHeader
    /\ \A r \in PlainHeader : \A v \in Blocks \cup {Null} :
          [r EXCEPT !.primaryException = v] \in PlainHeader
    /\ \A r \in PlainHeader : \A v \in Objs \cup {Null, "T"} :
          [r EXCEPT !.exceptionType = v] \in PlainHeader
    /\ \A r \in PlainHeader : \A v \in BOOLEAN :
          [r EXCEPT !.exceptionDestructor = v] \in PlainHeader
    /\ \A r \in PlainHeader : \A v \in {"none", "built"} :
          [r EXCEPT !.object = v] \in PlainHeader
  <1>1. Freed \in PlainHeader
    BY DEF Freed, PlainHeader, Classes
  <1>2. \A r \in PlainHeader : \A v \in Classes : [r EXCEPT !.class = v] \in PlainHeader
    BY DEF PlainHeader
  <1>3. \A r \in PlainHeader : \A v \in Int : [r EXCEPT !.referenceCount = v] \in PlainHeader
    BY DEF PlainHeader
  <1>4. \A r \in PlainHeader : \A v \in Int : [r EXCEPT !.handlerCount = v] \in PlainHeader
    BY DEF PlainHeader
  <1>5. \A r \in PlainHeader : \A v \in Objs \cup {Null} :
          [r EXCEPT !.nextException = v] \in PlainHeader
    BY DEF PlainHeader
  <1>6. \A r \in PlainHeader : \A v \in Blocks \cup {Null} :
          [r EXCEPT !.primaryException = v] \in PlainHeader
    BY DEF PlainHeader
  <1>7. \A r \in PlainHeader : \A v \in Objs \cup {Null, "T"} :
          [r EXCEPT !.exceptionType = v] \in PlainHeader
    BY DEF PlainHeader
  <1>8. \A r \in PlainHeader : \A v \in BOOLEAN :
          [r EXCEPT !.exceptionDestructor = v] \in PlainHeader
    BY DEF PlainHeader
  <1>9. \A r \in PlainHeader : \A v \in {"none", "built"} :
          [r EXCEPT !.object = v] \in PlainHeader
    BY DEF PlainHeader
  <1> QED BY <1>1, <1>2, <1>3, <1>4, <1>5, <1>6, <1>7, <1>8, <1>9

\* The values that the operations store.
LEMMA PlainValues ==
    /\ "raw" \in Classes /\ "primary" \in Classes /\ "dependent" \in Classes
    /\ "foreign" \in Classes /\ "dying" \in Classes
    /\ 0 \in Int /\ 1 \in Int /\ TRUE \in BOOLEAN /\ "T" \in Objs \cup {Null, "T"}
    /\ "built" \in {"none", "built"}
    /\ \A r \in PlainHeader :
          /\ r.referenceCount + 1 \in Int /\ r.referenceCount - 1 \in Int
          /\ -r.handlerCount \in Int /\ r.handlerCount + 1 \in Int
          /\ -r.handlerCount + 1 \in Int /\ r.handlerCount - 1 \in Int
          /\ r.nextException \in Objs \cup {Null} /\ r.primaryException \in Blocks \cup {Null}
          /\ r.class \in Classes
  BY DEF Classes, PlainHeader

LEMMA PlainPrimary ==
    ASSUME NEW r \in PlainHeader
    PROVE  InitPrimary(r) \in PlainHeader
  BY PlainUpdates, PlainValues, Zenon DEF InitPrimary

LEMMA PlainRaw == Raw \in PlainHeader
  BY PlainUpdates, PlainValues, Zenon DEF Raw

\* One header changes, if it is one.
LEMMA PlainPoint ==
    ASSUME NEW h \in [Blocks -> PlainHeader], NEW e, NEW v, e \in Blocks => v \in PlainHeader
    PROVE  [h EXCEPT ![e] = v] \in [Blocks -> PlainHeader]
  OBVIOUS

LEMMA ReplaceTyped ==
    ASSUME stack \in [Threads -> Seq(KnownScope)], NEW t \in Threads, NEW n \in 0 .. Depth(t),
           NEW new \in Seq(KnownScope)
    PROVE  Replace(t, n, new) \in [Threads -> Seq(KnownScope)]
  <1>1. stack[t] \in Seq(KnownScope) /\ Depth(t) \in Nat /\ Depth(t) = Len(stack[t])
    BY DEF Depth
  <1>2. PICK m : m = Depth(t) - n
    OBVIOUS
  <1>3. m \in Nat /\ m <= Len(stack[t])
    BY <1>1, <1>2
  <1>4. SubSeq(stack[t], 1, m) \in Seq(KnownScope)
    BY <1>1, <1>3, SubSeqProperties
  <1>5. SubSeq(stack[t], 1, m) \o new \in Seq(KnownScope)
    BY <1>4, ConcatProperties
  <1>6. Replace(t, n, new) = [stack EXCEPT ![t] = SubSeq(stack[t], 1, m) \o new]
    BY <1>2 DEF Replace
  <1> QED BY <1>5, <1>6

LEMMA TopTyped ==
    ASSUME stack \in [Threads -> Seq(KnownScope)], NEW t \in Threads, stack[t] # << >>
    PROVE  /\ Depth(t) \in Nat /\ 1 \in 0 .. Depth(t) /\ 0 \in 0 .. Depth(t)
           /\ Top(t) \in KnownScope
           /\ Top(t).ex \in Blocks \cup {Null}
           /\ Top(t).kind \in {"construct", "unwind"} => Top(t).ex \in Blocks
           /\ Found(t) \in KnownScope
           /\ Depth(t) > 1 => 2 \in 0 .. Depth(t) /\ Under(t).ex \in Blocks \cup {Null}
  <1>1. stack[t] \in Seq(KnownScope) /\ Depth(t) = Len(stack[t])
    BY DEF Depth
  <1>2. Len(stack[t]) \in Nat /\ Len(stack[t]) >= 1
    BY <1>1, EmptySeq
  <1>3. Top(t) \in KnownScope
    BY <1>1, <1>2, ElementOfSeq DEF Top
  <1>4. Depth(t) > 1 => Under(t) \in KnownScope
    BY <1>1, <1>2, ElementOfSeq DEF Under
  <1>5. Found(t) \in KnownScope
    BY <1>3 DEF Found, KnownScope, ScopeType
  <1> QED BY <1>1, <1>2, <1>3, <1>4, <1>5 DEF KnownScope, ScopeType

LEMMA KnownScoped ==
    ASSUME NEW e \in Blocks \cup {Null}
    PROVE  /\ \A a \in Blocks \cup {Null} : Scope("destroy", e, a) \in KnownScope
           /\ Scope("catch", e, Null) \in KnownScope /\ Scope("unexpected", e, Null) \in KnownScope
           /\ e \in Blocks => /\ Scope("unwind", e, "search") \in KnownScope
                             /\ Scope("construct", e, "throw") \in KnownScope
                             /\ Scope("construct", e, "ptr") \in KnownScope
           /\ Scope("cleanup", Null, Null) \in KnownScope
  BY DEF Scope, KnownScope, ScopeType, LiveKinds

LEMMA ShortSeq ==
    /\ << >> \in Seq(KnownScope)
    /\ \A f \in KnownScope : << f >> \in Seq(KnownScope)
    /\ \A f, g \in KnownScope : << f, g >> \in Seq(KnownScope)
    /\ \A p, q \in Seq(KnownScope) : p \o q \in Seq(KnownScope)
  BY ConcatProperties

LEMMA ReleaseTyped ==
    ASSUME header \in [Blocks -> PlainHeader], NEW e \in Blocks \cup {Null}
    PROVE  /\ realException(e) \in Blocks \cup {Null} \/ e \notin Blocks
           /\ ReleasedHeader(e) \in [Blocks -> PlainHeader]
           /\ e \in Blocks => ReleaseScopes(e) \in Seq(KnownScope)
  <1>1. e \in Blocks => realException(e) \in Blocks \cup {Null}
    <2>1. e \in Blocks => header[e].primaryException \in Blocks \cup {Null}
      BY PlainValues
    <2> QED BY <2>1 DEF realException
  <1>2. PICK p : p = realException(e)
    OBVIOUS
  <1>3. PICK last : last = (header[p].referenceCount - 1 = 0)
    OBVIOUS
  <1>4. p \in Blocks => /\ [header[p] EXCEPT !.referenceCount = @ - 1, !.class = "dying"] \in PlainHeader
                        /\ [header[p] EXCEPT !.referenceCount = @ - 1, !.class = @] \in PlainHeader
    <2> SUFFICES ASSUME p \in Blocks
                 PROVE  /\ [header[p] EXCEPT !.referenceCount = header[p].referenceCount - 1,
                                             !.class = "dying"] \in PlainHeader
                        /\ [header[p] EXCEPT !.referenceCount = header[p].referenceCount - 1,
                                             !.class = header[p].class] \in PlainHeader
      OBVIOUS
    <2>1. header[p] \in PlainHeader
      OBVIOUS
    <2>2. [header[p] EXCEPT !.referenceCount = header[p].referenceCount - 1] \in PlainHeader
      BY <2>1, PlainUpdates, PlainValues, Zenon
    <2> QED BY <2>1, <2>2, PlainUpdates, PlainValues, Zenon
  <1>5. e \in Blocks => [header[e] EXCEPT !.class = "dying"] \in PlainHeader /\ Freed \in PlainHeader
    BY PlainUpdates, PlainValues
  <1>6. ReleasedHeader(e) \in [Blocks -> PlainHeader]
    BY <1>2, <1>4, <1>5 DEF ReleasedHeader
  <1>7. e \in Blocks => ReleaseScopes(e) \in Seq(KnownScope)
    <2> SUFFICES ASSUME e \in Blocks PROVE ReleaseScopes(e) \in Seq(KnownScope)
      OBVIOUS
    <2>1. Scope("destroy", p, Null) \in KnownScope /\ Scope("destroy", p, e) \in KnownScope
      BY <1>1, <1>2, KnownScoped
    <2>2. \/ ReleaseScopes(e) = << Scope("destroy", p, Null) >>
          \/ ReleaseScopes(e) = << Scope("destroy", p, e) >>
          \/ ReleaseScopes(e) = << >>
      BY <1>2 DEF ReleaseScopes
    <2> QED BY <2>1, <2>2, ShortSeq
  <1> QED BY <1>1, <1>6, <1>7

LEMMA FreeTyped ==
    ASSUME header \in [Blocks -> PlainHeader], NEW e \in Blocks \cup {Null}
    PROVE  FreeHeader(e) \in [Blocks -> PlainHeader] /\ FreeScopes(e) \in Seq(KnownScope)
  <1>1. e \in Blocks => [header[e] EXCEPT !.class = "dying"] \in PlainHeader
    BY PlainUpdates, PlainValues
  <1>2. [header EXCEPT ![e].class = "dying"] \in [Blocks -> PlainHeader]
    BY <1>1, PlainPoint
  <1>3. [header EXCEPT ![e] = Freed] \in [Blocks -> PlainHeader]
    BY PlainUpdates, PlainPoint
  <1>4. Scope("destroy", e, Null) \in KnownScope
    BY KnownScoped
  <1> QED BY <1>2, <1>3, <1>4, ShortSeq DEF FreeHeader, FreeScopes

LEMMA CurrentTyped ==
    ASSUME Apart, NEW t \in Threads
    PROVE  /\ eh[t] \in ThreadInfo /\ Current(t) \in Blocks \cup {Null}
           /\ isForeign(Current(t)) => eh[t].foreign # "none"
           /\ ~isForeign(Current(t)) => Current(t) \in Objs \cup {Null}
  <1>1. eh[t] \in ThreadInfo /\ (eh[t].caught \in ForeignObjs => eh[t].foreign # "none")
    BY DEF Apart, KnownInfo
  <1> QED BY <1>1 DEF ThreadInfo, Current, isForeign, Blocks

\* The thread information of t becomes r.
LEMMA InfoPoint ==
    ASSUME eh \in [Threads -> KnownInfo], NEW t, NEW r \in KnownInfo
    PROVE  [eh EXCEPT ![t] = r] \in [Threads -> KnownInfo]
  OBVIOUS

LEMMA MoreUncaught ==
    ASSUME Apart, NEW t \in Threads
    PROVE  [eh EXCEPT ![t].uncaught = @ + 1] \in [Threads -> KnownInfo]
  <1>1. eh[t] \in KnownInfo /\ eh \in [Threads -> KnownInfo]
    BY DEF Apart
  <1>2. [eh[t] EXCEPT !.uncaught = eh[t].uncaught + 1] \in KnownInfo
    BY <1>1 DEF KnownInfo, ThreadInfo
  <1> QED BY <1>1, <1>2, InfoPoint

\* User code pushes one scope.
LEMMA PushTyped ==
    ASSUME Apart, NEW t \in Threads, NEW f \in KnownScope
    PROVE  Replace(t, 0, << f >>) \in [Threads -> Seq(KnownScope)]
  <1>1. stack \in [Threads -> Seq(KnownScope)] /\ Depth(t) \in Nat
    BY DEF Apart, Depth
  <1>2. 0 \in 0 .. Depth(t) /\ << f >> \in Seq(KnownScope)
    BY <1>1, ShortSeq
  <1> QED BY <1>1, <1>2, ReplaceTyped

LEMMA ThrowStepApart ==
    ASSUME Apart, NEW t \in Threads, ThrowStep(t)
    PROVE  Apart'
  <1>a. /\ header \in [Blocks -> PlainHeader] /\ eh \in [Threads -> KnownInfo]
        /\ stack \in [Threads -> Seq(KnownScope)] /\ ptr \in [Slots -> Blocks \cup {Null}]
        /\ NoUndefinedBehaviour
    BY DEF Apart
  <1>1. ASSUME NEW e \in Objs, NEW aux \in {"throw", "ptr"}, AllocateException(t, e, aux)
        PROVE  Apart'
    <2>1. PICK r \in PlainHeader : header' = [header EXCEPT ![e] = r]
      <3>1. Raw \in PlainHeader /\ InitPrimary(Raw) \in PlainHeader
        BY PlainRaw, PlainPrimary
      <3> QED BY <1>1, <3>1 DEF AllocateException, Raw
    <2>2. header' \in [Blocks -> PlainHeader]
      BY <1>a, <2>1, PlainPoint
    <2>3. Scope("construct", e, aux) \in KnownScope
      BY KnownScoped DEF Blocks
    <2>4. stack' \in [Threads -> Seq(KnownScope)]
      BY <1>1, <2>3, PushTyped DEF AllocateException
    <2> QED BY <1>1, <1>a, <2>2, <2>4 DEF AllocateException, Apart, NoUndefinedBehaviour
  <1>2. CASE Throw(t)
    <2>1. stack[t] # << >> /\ Top(t).kind = "construct"
      BY <1>2 DEF Throw, In
    <2>e. PICK e : e = Top(t).ex
      OBVIOUS
    <2>2. e \in Blocks /\ 1 \in 0 .. Depth(t)
      BY <1>a, <2>1, <2>e, TopTyped
    <2>3. e \in Blocks =>
              [InitPrimary(header[e]) EXCEPT !.referenceCount = 1, !.object = "built"] \in PlainHeader
      <3> SUFFICES ASSUME e \in Blocks
                   PROVE  [InitPrimary(header[e]) EXCEPT !.referenceCount = 1, !.object = "built"]
                              \in PlainHeader
        OBVIOUS
      <3>1. PICK r : r = InitPrimary(header[e])
        OBVIOUS
      <3>2. r \in PlainHeader
        BY <1>a, <3>1, PlainPrimary
      <3>3. [r EXCEPT !.referenceCount = 1] \in PlainHeader
        BY <3>2, PlainUpdates, PlainValues
      <3>4. [r EXCEPT !.referenceCount = 1, !.object = "built"] \in PlainHeader
        BY <3>2, <3>3, PlainUpdates, PlainValues, Zenon
      <3> QED BY <3>1, <3>4
    <2>4. header' = [header EXCEPT ![e] =
                        [InitPrimary(header[e]) EXCEPT !.referenceCount = 1, !.object = "built"]]
      BY <1>2, <2>e DEF Throw
    <2>5. header' \in [Blocks -> PlainHeader]
      BY <1>a, <2>3, <2>4, PlainPoint
    <2>6. << Scope("unwind", e, "search") >> \in Seq(KnownScope)
      BY <2>2, KnownScoped, ShortSeq
    <2>7. stack' \in [Threads -> Seq(KnownScope)]
      BY <1>2, <1>a, <2>e, <2>2, <2>6, ReplaceTyped DEF Throw
    <2>8. eh' \in [Threads -> KnownInfo]
      BY <1>2, MoreUncaught DEF Throw
    <2> QED BY <1>2, <1>a, <2>5, <2>7, <2>8 DEF Throw, Apart, NoUndefinedBehaviour
  <1>3. ASSUME NEW s \in Slots, MakeExceptionPtr(t, s) PROVE Apart'
    <2>1. stack[t] # << >>
      BY <1>3 DEF MakeExceptionPtr, In
    <2>e. PICK e : e = Top(t).ex
      OBVIOUS
    <2>2. e \in Blocks \cup {Null} /\ 1 \in 0 .. Depth(t)
      BY <1>a, <2>1, <2>e, TopTyped
    <2>3. PICK r : r = header[e]
      OBVIOUS
    <2>4. e \in Blocks =>
              [r EXCEPT !.referenceCount = r.referenceCount + 1, !.object = "built"] \in PlainHeader
      <3> SUFFICES ASSUME e \in Blocks
                   PROVE  [r EXCEPT !.referenceCount = r.referenceCount + 1, !.object = "built"]
                              \in PlainHeader
        OBVIOUS
      <3>1. r \in PlainHeader
        BY <1>a, <2>3
      <3>2. [r EXCEPT !.referenceCount = r.referenceCount + 1] \in PlainHeader
        BY <3>1, PlainUpdates, PlainValues, Zenon
      <3> QED BY <3>1, <3>2, PlainUpdates, PlainValues, Zenon
    <2>5. header' = [header EXCEPT ![e] =
                        [r EXCEPT !.referenceCount = r.referenceCount + 1, !.object = "built"]]
      <3>1. header' = [header EXCEPT ![e].referenceCount = @ + 1, ![e].object = "built"]
        BY <1>3, <2>e DEF MakeExceptionPtr
      <3> QED BY <1>a, <2>3, <3>1
    <2>6. header' \in [Blocks -> PlainHeader]
      BY <1>a, <2>4, <2>5, PlainPoint
    <2>7. stack' \in [Threads -> Seq(KnownScope)]
      BY <1>3, <1>a, <2>2, ShortSeq, ReplaceTyped DEF MakeExceptionPtr
    <2>8. ptr' \in [Slots -> Blocks \cup {Null}]
      BY <1>3, <1>a, <2>e, <2>2 DEF MakeExceptionPtr
    <2> QED BY <1>3, <1>a, <2>6, <2>7, <2>8 DEF MakeExceptionPtr, Apart, NoUndefinedBehaviour
  <1>4. ASSUME NEW s \in Slots, NEW d \in Objs, RethrowExceptionPtr(t, s, d) PROVE Apart'
    <2>p. PICK p : p = ptr[s]
      OBVIOUS
    <2>1. p \in Blocks /\ d \in Blocks
      BY <1>4, <1>a, <2>p DEF RethrowExceptionPtr, Blocks
    <2>2. PICK h : h = [header EXCEPT ![p].referenceCount = @ + 1]
      OBVIOUS
    <2>3. PICK r : r = [Freed EXCEPT !.class = "dependent", !.primaryException = p,
                                     !.exceptionType = header[p].nextException]
      OBVIOUS
    <2>4. header' = [h EXCEPT ![d] = r]
      BY <1>4, <2>p, <2>2, <2>3 DEF RethrowExceptionPtr
    <2>5. h \in [Blocks -> PlainHeader]
      <3>1. [header[p] EXCEPT !.referenceCount = header[p].referenceCount + 1] \in PlainHeader
        BY <1>a, <2>1, PlainUpdates, PlainValues
      <3> QED BY <1>a, <2>2, <3>1, PlainPoint
    <2>6. r \in PlainHeader
      <3>1. header[p].nextException \in Objs \cup {Null, "T"}
        BY <1>a, <2>1, PlainValues
      <3>2. [Freed EXCEPT !.class = "dependent"] \in PlainHeader
        BY PlainUpdates, PlainValues
      <3>3. [Freed EXCEPT !.class = "dependent", !.primaryException = p] \in PlainHeader
        BY <2>1, <3>2, PlainUpdates, Zenon
      <3> QED BY <2>3, <3>1, <3>3, PlainUpdates, Zenon
    <2>7. header' \in [Blocks -> PlainHeader]
      BY <2>4, <2>5, <2>6, PlainPoint
    <2>8. stack' \in [Threads -> Seq(KnownScope)]
      <3>1. Scope("unwind", d, "search") \in KnownScope
        BY <2>1, KnownScoped
      <3> QED BY <1>4, <3>1, PushTyped DEF RethrowExceptionPtr
    <2>9. eh' \in [Threads -> KnownInfo]
      BY <1>4, MoreUncaught DEF RethrowExceptionPtr
    <2> QED BY <1>4, <1>a, <2>7, <2>8, <2>9 DEF RethrowExceptionPtr, Apart, NoUndefinedBehaviour
  <1>5. ASSUME NEW f \in ForeignObjs, RaiseForeign(t, f) PROVE Apart'
    <2>1. f \in Blocks
      BY DEF Blocks
    <2>2. [header[f] EXCEPT !.class = "foreign"] \in PlainHeader
      BY <1>a, <2>1, PlainUpdates, PlainValues
    <2>3. header' \in [Blocks -> PlainHeader]
      BY <1>5, <1>a, <2>2, PlainPoint DEF RaiseForeign
    <2>4. Scope("unwind", f, "search") \in KnownScope
      BY <2>1, KnownScoped
    <2>5. stack' \in [Threads -> Seq(KnownScope)]
      BY <1>5, <2>4, PushTyped DEF RaiseForeign
    <2> QED BY <1>5, <1>a, <2>3, <2>5 DEF RaiseForeign, Apart, NoUndefinedBehaviour
  <1>6. CASE Rethrow(t)
    <2>e. PICK e : e = Current(t)
      OBVIOUS
    <2>1. ~isForeign(e) /\ e \in Objs
      BY <1>6, <2>e, CurrentTyped DEF Rethrow
    <2>2. CASE header[e].handlerCount > 0
      <3>1. /\ header' = [header EXCEPT ![e].handlerCount = -@]
            /\ eh' = [eh EXCEPT ![t].uncaught = @ + 1]
            /\ stack' = Replace(t, 0, << Scope("unwind", e, "search") >>)
            /\ program' = program /\ ptr' = ptr
        BY <1>6, <2>e, <2>1, <2>2 DEF Rethrow
      <3>2. [header[e] EXCEPT !.handlerCount = -header[e].handlerCount] \in PlainHeader
        BY <1>a, <2>1, PlainUpdates, PlainValues DEF Blocks
      <3>3. header' \in [Blocks -> PlainHeader]
        BY <1>a, <3>1, <3>2, PlainPoint
      <3>4. Scope("unwind", e, "search") \in KnownScope
        BY <2>1, KnownScoped DEF Blocks
      <3>5. stack' \in [Threads -> Seq(KnownScope)]
        BY <3>1, <3>4, PushTyped
      <3>6. eh' \in [Threads -> KnownInfo]
        BY <3>1, MoreUncaught
      <3> QED BY <1>a, <3>1, <3>3, <3>5, <3>6 DEF Apart, NoUndefinedBehaviour
    <2>3. CASE ~(header[e].handlerCount > 0)
      <3>1. UNCHANGED <<header, eh, stack, ptr>> /\ program' = "assert"
        BY <1>6, <2>e, <2>1, <2>3 DEF Rethrow
      <3> QED BY <1>a, <3>1 DEF Apart, NoUndefinedBehaviour
    <2> QED BY <2>2, <2>3
  <1>7. CASE RethrowForeign(t)
    <2>e. PICK e : e = Current(t)
      OBVIOUS
    <2>1. e \in Blocks /\ eh[t] \in ThreadInfo
      BY <1>7, <2>e, CurrentTyped DEF RethrowForeign
    <2>2. [eh[t] EXCEPT !.foreign = "rethrown"] \in KnownInfo
      BY <2>1 DEF KnownInfo, ThreadInfo
    <2>3. eh' \in [Threads -> KnownInfo]
      BY <1>7, <1>a, <2>2, InfoPoint DEF RethrowForeign
    <2>4. Scope("unwind", e, "search") \in KnownScope
      BY <2>1, KnownScoped
    <2>5. stack' \in [Threads -> Seq(KnownScope)]
      BY <1>7, <2>e, <2>4, PushTyped DEF RethrowForeign
    <2> QED BY <1>7, <1>a, <2>3, <2>5 DEF RethrowForeign, Apart, NoUndefinedBehaviour
  <1>8. CASE RethrowNothing(t)
    BY <1>8, <1>a DEF RethrowNothing, Apart, NoUndefinedBehaviour
  <1> QED BY <1>1, <1>2, <1>3, <1>4, <1>5, <1>6, <1>7, <1>8 DEF ThrowStep

\* __cxa_begin_catch of a C++ exception outside every foreign handler.
LEMMA BeginCatchApart ==
    ASSUME Apart, "useInForeign" \notin Habits, NEW t \in Threads,
           NEW kind \in {"catch", "unexpected"}, BeginCatch(t, kind), program' # "ub"
    PROVE  Apart'
  <1>a. /\ header \in [Blocks -> PlainHeader] /\ eh \in [Threads -> KnownInfo]
        /\ stack \in [Threads -> Seq(KnownScope)] /\ ptr \in [Slots -> Blocks \cup {Null}]
    BY DEF Apart
  <1>e. PICK e : e = Top(t).ex
    OBVIOUS
  <1>1. stack[t] # << >> /\ ~isForeign(e)
    BY <1>e DEF BeginCatch, Unwinding, In
  <1>2. e \in Blocks \cup {Null} /\ 1 \in 0 .. Depth(t)
    BY <1>a, <1>e, <1>1, TopTyped
  <1>3. Current(t) \in Objs \cup {Null} /\ eh[t] \in ThreadInfo
    BY ExceptionsAssumption, CurrentTyped DEF BeginCatch, isForeign
  <1>4. header' \in [Blocks -> PlainHeader]
    <2>1. PICK r : r = header[e]
      OBVIOUS
    <2>n. PICK n : n = IF r.handlerCount = 0 THEN Current(t) ELSE r.nextException
      OBVIOUS
    <2>c. PICK c : c = IF r.handlerCount < 0 THEN -r.handlerCount + 1 ELSE r.handlerCount + 1
      OBVIOUS
    <2>2. header' = [header EXCEPT ![e] = [r EXCEPT !.nextException = n, !.handlerCount = c]]
      <3>1. header' = [header EXCEPT
                ![e].nextException = IF header[e].handlerCount = 0 THEN Current(t) ELSE @,
                ![e].handlerCount = IF @ < 0 THEN -@ + 1 ELSE @ + 1]
        BY <1>e DEF BeginCatch, CaughtHeader
      <3>2. CASE e \in Blocks
        <4>1. r \in PlainHeader
          BY <1>a, <2>1, <3>2
        <4> QED BY <1>a, <2>1, <2>n, <2>c, <3>1, <3>2, <4>1 DEF PlainHeader
      <3>3. CASE e \notin Blocks
        BY <1>a, <3>1, <3>3
      <3> QED BY <3>2, <3>3
    <2>3. e \in Blocks => [r EXCEPT !.nextException = n, !.handlerCount = c] \in PlainHeader
      <3> SUFFICES ASSUME e \in Blocks
                   PROVE  [r EXCEPT !.nextException = n, !.handlerCount = c] \in PlainHeader
        OBVIOUS
      <3>1. r \in PlainHeader
        BY <1>a, <2>1
      <3>2. n \in Objs \cup {Null} /\ c \in Int
        BY <1>3, <2>n, <2>c, <3>1, PlainValues
      <3>3. [r EXCEPT !.nextException = n] \in PlainHeader
        BY <3>1, <3>2, PlainUpdates
      <3> QED BY <3>2, <3>3, PlainUpdates, Zenon
    <2> QED BY <1>a, <2>2, <2>3, PlainPoint
  <1>5. eh' \in [Threads -> KnownInfo]
    <2>1. PICK r : r = [caught   |-> IF header[e].handlerCount = 0 THEN e ELSE Current(t),
                        uncaught |-> eh[t].uncaught - 1, foreign  |-> "none"]
      OBVIOUS
    <2>2. eh' = [eh EXCEPT ![t] = r]
      BY <1>a, <1>e, <2>1 DEF BeginCatch, CaughtEh, Current
    <2>3. eh[t].uncaught \in Int
      BY <1>3 DEF ThreadInfo
    <2>4. r \in ThreadInfo /\ r.caught \in Blocks \cup {Null} /\ r.caught \notin ForeignObjs
      BY <1>1, <1>2, <1>3, <2>1, <2>3, ExceptionsAssumption DEF ThreadInfo, Blocks, isForeign
    <2>5. r \in KnownInfo
      BY <2>4 DEF KnownInfo
    <2> QED BY <1>a, <2>2, <2>5, InfoPoint
  <1>6. stack' \in [Threads -> Seq(KnownScope)]
    <2>1. << Scope(kind, e, Null) >> \in Seq(KnownScope)
      BY <1>2, KnownScoped, ShortSeq
    <2> QED BY <1>a, <1>e, <1>2, <2>1, ReplaceTyped DEF BeginCatch
  <1> QED BY <1>a, <1>4, <1>5, <1>6 DEF BeginCatch, Apart, NoUndefinedBehaviour

LEMMA BeginCatchForeignApart ==
    ASSUME Apart, NEW t \in Threads,
           NEW kind \in {"catch", "unexpected"}, BeginCatchForeign(t, kind)
    PROVE  Apart'
  <1>a. /\ header \in [Blocks -> PlainHeader] /\ eh \in [Threads -> KnownInfo]
        /\ stack \in [Threads -> Seq(KnownScope)] /\ ptr \in [Slots -> Blocks \cup {Null}]
        /\ NoUndefinedBehaviour
    BY DEF Apart
  <1>e. PICK e : e = Top(t).ex
    OBVIOUS
  <1>1. stack[t] # << >>
    BY DEF BeginCatchForeign, Unwinding, In
  <1>2. e \in Blocks \cup {Null} /\ 1 \in 0 .. Depth(t)
    BY <1>a, <1>e, <1>1, TopTyped
  <1>3. CASE Current(t) # Null
    BY <1>3, <1>a DEF BeginCatchForeign, Apart, NoUndefinedBehaviour
  <1>4. CASE Current(t) = Null
    <2>1. /\ eh' = [eh EXCEPT ![t].caught = e, ![t].foreign = "caught"]
          /\ stack' = Replace(t, 1, << Scope(kind, e, Null) >>)
          /\ UNCHANGED <<header, ptr, program>>
      BY <1>4, <1>e DEF BeginCatchForeign
    <2>2. [eh[t] EXCEPT !.caught = e, !.foreign = "caught"] \in KnownInfo
      <3>1. eh[t] \in ThreadInfo
        BY CurrentTyped
      <3> QED BY <1>2, <3>1 DEF KnownInfo, ThreadInfo
    <2>3. eh' = [eh EXCEPT ![t] = [eh[t] EXCEPT !.caught = e, !.foreign = "caught"]]
      BY <1>a, <2>1
    <2>4. eh' \in [Threads -> KnownInfo]
      BY <1>a, <2>2, <2>3, InfoPoint
    <2>5. << Scope(kind, e, Null) >> \in Seq(KnownScope)
      BY <1>2, KnownScoped, ShortSeq
    <2>6. stack' \in [Threads -> Seq(KnownScope)]
      BY <1>a, <1>2, <2>1, <2>5, ReplaceTyped
    <2> QED BY <1>a, <2>1, <2>4, <2>6 DEF Apart, NoUndefinedBehaviour
  <1> QED BY <1>3, <1>4

\* __cxa_end_catch: the head of the list is foreign only where
\* foreign_exception_state says so, and is followed by no foreign one.
LEMMA EndCatchApart ==
    ASSUME Apart, NEW t \in Threads, NEW n \in 0 .. Depth(t), NEW over \in Seq(KnownScope),
           EndCatch(t, n, over), ptr' = ptr
    PROVE  Apart'
  <1>a. /\ header \in [Blocks -> PlainHeader] /\ eh \in [Threads -> KnownInfo]
        /\ stack \in [Threads -> Seq(KnownScope)] /\ ptr \in [Slots -> Blocks \cup {Null}]
        /\ NoUndefinedBehaviour
    BY DEF Apart
  <1>e. PICK e : e = Current(t)
    OBVIOUS
  <1>1. e \in Blocks \cup {Null} /\ eh[t] \in ThreadInfo
    BY <1>e, CurrentTyped
  <1>2. CASE e = Null
    BY <1>2, <1>a, <1>e DEF EndCatch, Apart, NoUndefinedBehaviour
  <1>3. CASE e # Null /\ eh[t].foreign # "none"
    <2>1. /\ header' = EndForeign(t)
          /\ eh' = [eh EXCEPT ![t].caught = Null, ![t].foreign = "none"]
          /\ stack' = Replace(t, n, over) /\ program' = program
      BY <1>3, <1>e DEF EndCatch
    <2>2. header' \in [Blocks -> PlainHeader]
      BY <1>a, <2>1, PlainUpdates, PlainPoint DEF EndForeign
    <2>3. [eh[t] EXCEPT !.caught = Null, !.foreign = "none"] \in KnownInfo
      BY <1>1, ExceptionsAssumption DEF KnownInfo, ThreadInfo
    <2>4. eh' = [eh EXCEPT ![t] = [eh[t] EXCEPT !.caught = Null, !.foreign = "none"]]
      BY <1>a, <2>1
    <2>5. eh' \in [Threads -> KnownInfo]
      BY <1>a, <2>3, <2>4, InfoPoint
    <2>6. stack' \in [Threads -> Seq(KnownScope)]
      BY <1>a, <2>1, ReplaceTyped
    <2> QED BY <1>a, <2>1, <2>2, <2>5, <2>6 DEF Apart, NoUndefinedBehaviour
  <1>4. CASE e # Null /\ eh[t].foreign = "none"
    <2>0. ~isForeign(e) /\ e \in Blocks
      BY <1>4, <1>e, <1>1, CurrentTyped
    <2>r. header[e] \in PlainHeader
      BY <1>a, <2>0
    <2>1. CASE HandlersLeft(e) # 0
      <3>1. /\ header' = [header EXCEPT ![e].handlerCount = HandlersLeft(e)]
            /\ stack' = Replace(t, n, over) /\ eh' = eh /\ program' = program
        BY <1>4, <1>e, <2>0, <2>1 DEF EndCatch
      <3>2. HandlersLeft(e) \in Int
        BY <2>r, PlainValues DEF HandlersLeft
      <3>3. [header[e] EXCEPT !.handlerCount = HandlersLeft(e)] \in PlainHeader
        BY <2>r, <3>2, PlainUpdates
      <3>4. header' \in [Blocks -> PlainHeader]
        BY <1>a, <3>1, <3>3, PlainPoint
      <3>5. stack' \in [Threads -> Seq(KnownScope)]
        BY <1>a, <3>1, ReplaceTyped
      <3> QED BY <1>a, <3>1, <3>4, <3>5 DEF Apart, NoUndefinedBehaviour
    <2>2. CASE HandlersLeft(e) = 0
      <3>1. PICK h : h = IF DeleteException(e) THEN ReleasedHeader(e) ELSE header
        OBVIOUS
      <3>2. PICK new : new = over \o (IF DeleteException(e) THEN ReleaseScopes(e) ELSE << >>)
        OBVIOUS
      <3>3. /\ header' = [h EXCEPT ![e].handlerCount = 0]
            /\ eh' = [eh EXCEPT ![t].caught = header[e].nextException]
            /\ stack' = Replace(t, n, new) /\ program' = program
        BY <1>4, <1>e, <2>0, <2>2, <3>1, <3>2 DEF EndCatch
      <3>4. h \in [Blocks -> PlainHeader] /\ new \in Seq(KnownScope)
        BY <1>a, <2>0, <3>1, <3>2, ReleaseTyped, ShortSeq
      <3>5. [h[e] EXCEPT !.handlerCount = 0] \in PlainHeader
        BY <2>0, <3>4, PlainUpdates, PlainValues
      <3>6. header' \in [Blocks -> PlainHeader]
        BY <3>3, <3>4, <3>5, PlainPoint
      <3>7. header[e].nextException \in Objs \cup {Null}
        BY <2>r, PlainValues
      <3>8. [eh[t] EXCEPT !.caught = header[e].nextException] \in KnownInfo
        <4>1. PICK v : v = header[e].nextException
          OBVIOUS
        <4>2. v \in Blocks \cup {Null} /\ v \notin ForeignObjs
          BY <3>7, <4>1, ExceptionsAssumption DEF Blocks
        <4>3. [eh[t] EXCEPT !.caught = v] \in KnownInfo
          BY <1>1, <4>2 DEF KnownInfo, ThreadInfo
        <4> QED BY <4>1, <4>3
      <3>9. eh' \in [Threads -> KnownInfo]
        BY <1>a, <3>3, <3>8, InfoPoint
      <3>10. stack' \in [Threads -> Seq(KnownScope)]
        BY <1>a, <3>3, <3>4, ReplaceTyped
      <3> QED BY <1>a, <3>3, <3>6, <3>9, <3>10 DEF Apart, NoUndefinedBehaviour
    <2> QED BY <2>1, <2>2
  <1> QED BY <1>2, <1>3, <1>4

LEMMA CatchStepApart ==
    ASSUME Apart, "useInForeign" \notin Habits, NEW t \in Threads, CatchStep(t)
    PROVE  Apart'
  <1>a. stack \in [Threads -> Seq(KnownScope)] /\ NoUndefinedBehaviour
    BY DEF Apart
  <1>1. CASE Catch(t)
    <2>1. PICK kind \in {"catch", "unexpected"} :
              (BeginCatch(t, kind) /\ program' = program) \/ BeginCatchForeign(t, kind)
      BY <1>1 DEF Catch
    <2>2. CASE BeginCatch(t, kind) /\ program' = program
      BY <1>a, <2>2, BeginCatchApart DEF NoUndefinedBehaviour
    <2>3. CASE BeginCatchForeign(t, kind)
      BY <2>3, BeginCatchForeignApart
    <2> QED BY <2>1, <2>2, <2>3
  <1>2. CASE RaiseFails(t)
    BY <1>2, BeginCatchApart DEF RaiseFails
  <1>3. CASE RethrowForeignFails(t)
    BY <1>3 DEF RethrowForeignFails, Apart, NoUndefinedBehaviour
  <1>4. CASE LeaveCatch(t)
    <2>1. EndCatch(t, 1, << >>) /\ ptr' = ptr /\ stack[t] # << >>
      BY <1>4 DEF LeaveCatch, In
    <2>2. 1 \in 0 .. Depth(t) /\ << >> \in Seq(KnownScope)
      BY <1>a, <2>1, TopTyped, ShortSeq
    <2> QED BY <2>1, <2>2, EndCatchApart
  <1>5. CASE UnexpectedReturns(t)
    BY <1>5 DEF UnexpectedReturns, Apart, NoUndefinedBehaviour
  <1> QED BY <1>1, <1>2, <1>3, <1>4, <1>5 DEF CatchStep

LEMMA UnwindStepApart ==
    ASSUME Apart, NEW t \in Threads, UnwindStep(t)
    PROVE  Apart'
  <1>a. /\ header \in [Blocks -> PlainHeader] /\ eh \in [Threads -> KnownInfo]
        /\ stack \in [Threads -> Seq(KnownScope)] /\ ptr \in [Slots -> Blocks \cup {Null}]
        /\ NoUndefinedBehaviour
    BY DEF Apart
  <1>b. stack[t] # << >>
    BY DEF UnwindStep, EnterCleanup, LeaveCleanup, EscapeCatch, EscapeConstruct,
           EscapeDestructor, ForeignCatch, Unwinding, In
  <1>t. /\ 1 \in 0 .. Depth(t) /\ Top(t).ex \in Blocks \cup {Null} /\ Found(t) \in KnownScope
        /\ Depth(t) > 1 => 2 \in 0 .. Depth(t) /\ Under(t).ex \in Blocks \cup {Null}
    BY <1>a, <1>b, TopTyped
  <1>1. CASE EnterCleanup(t)
    <2>1. Scope("cleanup", Null, Null) \in KnownScope
      BY KnownScoped
    <2>2. << Found(t), Scope("cleanup", Null, Null) >> \in Seq(KnownScope)
      BY <1>t, <2>1, ShortSeq
    <2>3. stack' \in [Threads -> Seq(KnownScope)]
      BY <1>1, <1>a, <1>t, <2>2, ReplaceTyped DEF EnterCleanup
    <2> QED BY <1>1, <1>a, <2>3 DEF EnterCleanup, Apart, NoUndefinedBehaviour
  <1>2. CASE LeaveCleanup(t)
    <2>1. stack' \in [Threads -> Seq(KnownScope)]
      BY <1>2, <1>a, <1>t, ShortSeq, ReplaceTyped DEF LeaveCleanup
    <2> QED BY <1>2, <1>a, <2>1 DEF LeaveCleanup, Apart, NoUndefinedBehaviour
  <1>3. CASE EscapeCatch(t)
    <2>1. EndCatch(t, 2, << Found(t) >>) /\ ptr' = ptr /\ Depth(t) > 1
      BY <1>3 DEF EscapeCatch
    <2>2. 2 \in 0 .. Depth(t) /\ << Found(t) >> \in Seq(KnownScope)
      BY <1>t, <2>1, ShortSeq
    <2> QED BY <2>1, <2>2, EndCatchApart
  <1>4. CASE EscapeConstruct(t)
    <2>e. PICK e : e = Under(t).ex
      OBVIOUS
    <2>1. Depth(t) > 1 /\ header' = FreeHeader(e)
          /\ stack' = Replace(t, 2, << Found(t) >> \o FreeScopes(e))
      BY <1>4, <2>e DEF EscapeConstruct
    <2>2. e \in Blocks \cup {Null} /\ 2 \in 0 .. Depth(t)
      BY <1>t, <2>e, <2>1
    <2>3. header' \in [Blocks -> PlainHeader] /\ FreeScopes(e) \in Seq(KnownScope)
      BY <1>a, <2>1, <2>2, FreeTyped
    <2>4. << Found(t) >> \o FreeScopes(e) \in Seq(KnownScope)
      BY <1>t, <2>3, ShortSeq
    <2>5. stack' \in [Threads -> Seq(KnownScope)]
      BY <1>a, <2>1, <2>2, <2>4, ReplaceTyped
    <2> QED BY <1>4, <1>a, <2>3, <2>5 DEF EscapeConstruct, Apart, NoUndefinedBehaviour
  <1>5. CASE EscapeDestructor(t)
    BY <1>5, <1>a DEF EscapeDestructor, Apart, NoUndefinedBehaviour
  <1>6. CASE ForeignCatch(t)
    <2>e. PICK e : e = Top(t).ex
      OBVIOUS
    <2>1. /\ \/ header' = ReleasedHeader(e) /\ stack' = Replace(t, 1, ReleaseScopes(e))
             \/ header' = FreeHeader(e) /\ stack' = Replace(t, 1, FreeScopes(e))
          /\ UNCHANGED <<eh, ptr, program>>
      BY <1>6, <2>e DEF ForeignCatch
    <2>2. e \in Blocks
      <3>1. Top(t).kind = "unwind"
        BY <1>6 DEF ForeignCatch, Unwinding, In
      <3> QED BY <1>a, <1>b, <2>e, <3>1, TopTyped
    <2>3. header' \in [Blocks -> PlainHeader]
      BY <1>a, <2>1, <2>2, FreeTyped, ReleaseTyped
    <2>4. ReleaseScopes(e) \in Seq(KnownScope) /\ FreeScopes(e) \in Seq(KnownScope)
      BY <1>a, <2>2, FreeTyped, ReleaseTyped
    <2>5. stack' \in [Threads -> Seq(KnownScope)]
      BY <1>a, <1>t, <2>1, <2>4, ReplaceTyped
    <2> QED BY <1>a, <2>1, <2>3, <2>5 DEF Apart, NoUndefinedBehaviour
  <1> QED BY <1>1, <1>2, <1>3, <1>4, <1>5, <1>6 DEF UnwindStep

LEMMA PtrStepApart ==
    ASSUME Apart, "useInForeign" \notin Habits, NEW t \in Threads, PtrStep(t)
    PROVE  Apart'
  <1>a. /\ header \in [Blocks -> PlainHeader] /\ eh \in [Threads -> KnownInfo]
        /\ stack \in [Threads -> Seq(KnownScope)] /\ ptr \in [Slots -> Blocks \cup {Null}]
        /\ NoUndefinedBehaviour
    BY DEF Apart
  <1>1. ASSUME NEW s \in Slots, CurrentException(t, s) PROVE Apart'
    <2>e. PICK e : e = Current(t)
      OBVIOUS
    <2>1. ~isForeign(e) /\ e \in Blocks
      BY <1>1, <2>e, CurrentTyped DEF CurrentException
    <2>p. PICK p : p = realException(e)
      OBVIOUS
    <2>2. p \in Blocks \cup {Null}
      BY <1>a, <2>1, <2>p, ReleaseTyped
    <2>3. /\ header' = [header EXCEPT ![p].referenceCount = @ + 1]
          /\ ptr' = [ptr EXCEPT ![s] = p]
          /\ UNCHANGED <<eh, stack, program>>
      BY <1>1, <2>e, <2>1, <2>p DEF CurrentException
    <2>4. p \in Blocks =>
              [header[p] EXCEPT !.referenceCount = header[p].referenceCount + 1] \in PlainHeader
      BY <1>a, PlainUpdates, PlainValues
    <2>5. header' \in [Blocks -> PlainHeader]
      BY <1>a, <2>3, <2>4, PlainPoint
    <2>6. ptr' \in [Slots -> Blocks \cup {Null}]
      BY <1>a, <2>2, <2>3
    <2> QED BY <1>a, <2>3, <2>5, <2>6 DEF Apart, NoUndefinedBehaviour
  <1>2. ASSUME NEW s \in Slots, NEW s2 \in Slots, CopyPtr(t, s, s2) PROVE Apart'
    <2>p. PICK p : p = ptr[s]
      OBVIOUS
    <2>1. p \in Blocks
      BY <1>2, <1>a, <2>p DEF CopyPtr
    <2>2. /\ header' = [header EXCEPT ![p].referenceCount = @ + 1]
          /\ ptr' = [ptr EXCEPT ![s2] = p]
          /\ UNCHANGED <<eh, stack, program>>
      BY <1>2, <2>p DEF CopyPtr
    <2>3. [header[p] EXCEPT !.referenceCount = header[p].referenceCount + 1] \in PlainHeader
      BY <1>a, <2>1, PlainUpdates, PlainValues
    <2>4. header' \in [Blocks -> PlainHeader]
      BY <1>a, <2>2, <2>3, PlainPoint
    <2>5. ptr' \in [Slots -> Blocks \cup {Null}]
      BY <1>a, <2>1, <2>2
    <2> QED BY <1>a, <2>2, <2>4, <2>5 DEF Apart, NoUndefinedBehaviour
  <1>3. ASSUME NEW s \in Slots, DropPtr(t, s) PROVE Apart'
    <2>p. PICK p : p = ptr[s]
      OBVIOUS
    <2>1. p \in Blocks
      BY <1>3, <1>a, <2>p DEF DropPtr
    <2>2. /\ header' = ReleasedHeader(p) /\ stack' = Replace(t, 0, ReleaseScopes(p))
          /\ ptr' = [ptr EXCEPT ![s] = Null]
          /\ UNCHANGED <<eh, program>>
      BY <1>3, <2>p DEF DropPtr
    <2>3. header' \in [Blocks -> PlainHeader] /\ ReleaseScopes(p) \in Seq(KnownScope)
      BY <1>a, <2>1, <2>2, ReleaseTyped
    <2>4. 0 \in 0 .. Depth(t)
      <3>1. Len(stack[t]) \in Nat
        BY <1>a
      <3> QED BY <3>1 DEF Depth
    <2>5. stack' \in [Threads -> Seq(KnownScope)]
      BY <1>a, <2>2, <2>3, <2>4, ReplaceTyped
    <2>6. ptr' \in [Slots -> Blocks \cup {Null}]
      BY <1>a, <2>2
    <2> QED BY <1>a, <2>2, <2>3, <2>5, <2>6 DEF Apart, NoUndefinedBehaviour
  <1> QED BY <1>1, <1>2, <1>3 DEF PtrStep

LEMMA NextApart ==
    ASSUME Apart, "useInForeign" \notin Habits, [Next]_vars
    PROVE  Apart'
  <1>a. /\ header \in [Blocks -> PlainHeader] /\ eh \in [Threads -> KnownInfo]
        /\ stack \in [Threads -> Seq(KnownScope)] /\ ptr \in [Slots -> Blocks \cup {Null}]
        /\ NoUndefinedBehaviour
    BY DEF Apart
  <1>1. CASE UNCHANGED vars
    BY <1>1, <1>a DEF vars, Apart, NoUndefinedBehaviour
  <1>2. ASSUME NEW t \in Threads, DestructorReturns(t) PROVE Apart'
    <2>1. header' \in [Blocks -> PlainHeader]
      BY <1>2, <1>a, PlainUpdates DEF DestructorReturns
    <2>2. stack[t] # << >>
      BY <1>2 DEF DestructorReturns, In
    <2>3. 1 \in 0 .. Depth(t) /\ << >> \in Seq(KnownScope)
      BY <1>a, <2>2, TopTyped, ShortSeq
    <2>4. stack' \in [Threads -> Seq(KnownScope)]
      BY <1>2, <1>a, <2>3, ReplaceTyped DEF DestructorReturns
    <2> QED BY <1>2, <1>a, <2>1, <2>4 DEF DestructorReturns, Apart, NoUndefinedBehaviour
  <1>3. ASSUME NEW t \in Threads, ThreadExit(t) PROVE Apart'
    <2>1. header' \in [Blocks -> PlainHeader]
      BY <1>3, <1>a, PlainUpdates DEF ThreadExit
    <2>2. PICK r : r = [caught |-> Null, uncaught |-> 0, foreign |-> "none"]
      OBVIOUS
    <2>3. r \in KnownInfo
      BY <2>2, ExceptionsAssumption DEF KnownInfo, ThreadInfo
    <2>4. eh' \in [Threads -> KnownInfo]
      BY <1>3, <1>a, <2>2, <2>3, InfoPoint DEF ThreadExit
    <2>5. stack' \in [Threads -> Seq(KnownScope)]
      BY <1>3, <1>a, ShortSeq DEF ThreadExit
    <2> QED BY <1>3, <1>a, <2>1, <2>4, <2>5 DEF ThreadExit, Apart, NoUndefinedBehaviour
  <1>4. CASE Next
    <2>1. PICK t \in Threads :
              \/ ThrowStep(t) \/ CatchStep(t) \/ UnwindStep(t) \/ PtrStep(t)
              \/ DestructorReturns(t) \/ ThreadExit(t)
      BY <1>4 DEF Next
    <2> QED BY <2>1, <1>2, <1>3, ThrowStepApart, CatchStepApart, UnwindStepApart, PtrStepApart
  <1> QED BY <1>1, <1>4

\* __cxa_rethrow, __cxa_end_catch and __cxa_current_primary_exception never
\* take a foreign exception for a C++ one, in any program that does not catch
\* C++ exceptions or call current_exception in a foreign handler (in those that
\* do it happens): foreign_exception_state and the refusal to nest foreign
\* exceptions are enough, even in programs in which exceptions are freed too
\* early and the reference counts are wrong, which ProperUse would exclude.
THEOREM NoUndefined == "useInForeign" \notin Habits => (Spec => []NoUndefinedBehaviour)
  <1> SUFFICES ASSUME "useInForeign" \notin Habits PROVE Spec => []NoUndefinedBehaviour
    OBVIOUS
  <1>1. Init => Apart
    <2> SUFFICES ASSUME Init PROVE Apart
      OBVIOUS
    <2>1. PICK r : r = [caught |-> Null, uncaught |-> 0, foreign |-> "none"]
      OBVIOUS
    <2>2. r \in KnownInfo
      BY <2>1, ExceptionsAssumption DEF KnownInfo, ThreadInfo
    <2>3. header \in [Blocks -> PlainHeader] /\ eh \in [Threads -> KnownInfo]
      BY <2>1, <2>2, PlainUpdates DEF Init
    <2>4. stack \in [Threads -> Seq(KnownScope)] /\ ptr \in [Slots -> Blocks \cup {Null}]
      BY ShortSeq DEF Init
    <2> QED BY <2>3, <2>4 DEF Init, Apart, NoUndefinedBehaviour
  <1>2. Apart /\ [Next]_vars => Apart'
    BY NextApart
  <1>3. Apart => NoUndefinedBehaviour
    BY DEF Apart
  <1> QED BY <1>1, <1>2, <1>3, PTL DEF Spec
=============================================================================
