------------------------ MODULE AdminAccessLog_proofs ------------------------
(***************************************************************************)
(* What the admin router promises for any callers, gates, limits, page     *)
(* sizes and windows, over any log.  Three invariants, one per promise:    *)
(* LimiterInv ties the limiter's hits to the passes they stand for, ReadInv*)
(* follows a request through its checks, WalkInv says that what a walk     *)
(* still owes its client lies behind the cursor, and what it has returned  *)
(* does not.                                                               *)
(***************************************************************************)
EXTENDS AdminAccessLog, AccessLogStore_proofs, SequenceTheorems, WellFoundedInduction

\* h are the last of the passes a, and those popped are a window old at now.
Tied(h, a, now) ==
  /\ Len(h) <= Limit /\ Len(h) <= Len(a)
  /\ \A i \in 1..Len(h) : h[i] = a[Len(a) - Len(h) + i]
  /\ \A i \in 1..(Len(a) - Len(h)) : now - a[i] >= Window
  /\ \A i \in 1..(Len(a) - Limit) : a[i + Limit] - a[i] >= Window

LimiterInv ==
  /\ clock \in Nat
  /\ hits \in [Principal -> Seq(Nat)] /\ admitted \in [Principal -> Seq(Nat)]
  /\ \A p \in Principal : Tied(hits[p], admitted[p], clock)

ReadInv ==
  /\ stage \in [Caller -> Stages]
  /\ audited \in [Caller -> BOOLEAN] /\ answered \in [Caller -> BOOLEAN]
  /\ DOMAIN shown = Caller
  /\ \A c \in Caller : stage[c] # "idle" => IsAdmin(c)
  /\ ReadsAreAudited

Settled(c, e) == e \in got[c] \/ PastCursor(e, walk[c].cursor)

WalkInv ==
  /\ stage \in [Caller -> Stages]
  /\ walk \in [Caller -> [phase : Phases, ask : Bounds, cursor : Cursors, window : Bounds]]
  /\ got \in [Caller -> SUBSET Entry] /\ owed \in [Caller -> SUBSET Entry]
  /\ \A c \in Caller :
       /\ stage[c] = "counted" => walk[c].phase # "done"
       /\ walk[c].phase = "new" => walk[c].cursor = NoCursor /\ got[c] = {} /\ owed[c] = {}
       /\ walk[c].phase = "paging" =>
            /\ walk[c].cursor # NoCursor
            /\ \A e \in owed[c] : Settled(c, e)
            /\ \A e \in got[c] : ~PastCursor(e, walk[c].cursor)
  /\ WalkIsComplete

-----------------------------------------------------------------------------
(* The limiter *)

LEMMA EmptyTied == ASSUME NEW now \in Nat PROVE <<>> \in Seq(Nat) /\ Tied(<<>>, <<>>, now)
<1>1. <<>> \in Seq(Nat) /\ Len(<<>>) = 0
  OBVIOUS
<1> QED
  BY <1>1, LimitsTyped DEF Tied

LEMMA LimiterInit == Init => LimiterInv
  BY EmptyTied, LimitsTyped DEF Init, LimiterInv

(***************************************************************************)
(* What the limiter's pops leave of the hits of a principal.               *)
(***************************************************************************)
LEMMA PopsLeave ==
  ASSUME NEW h \in Seq(Nat), NEW n \in 0..Len(h)
  PROVE  LET left == SubSeq(h, n + 1, Len(h)) IN
         /\ left \in Seq(Nat) /\ Len(left) = Len(h) - n
         /\ \A i \in 1..(Len(h) - n) : left[i] = h[n + i]
<1> DEFINE left == SubSeq(h, n + 1, Len(h))
<1>1. Len(h) \in Nat /\ \A i \in 1..Len(h) : h[i] \in Nat
  OBVIOUS
<1>2. \A i \in (n + 1)..Len(h) : h[i] \in Nat
  BY <1>1
<1> HIDE DEF left
<1>3. /\ left \in Seq(Nat)
      /\ Len(left) = IF n + 1 <= Len(h) THEN Len(h) - (n + 1) + 1 ELSE 0
      /\ \A i \in 1..(Len(h) - (n + 1) + 1) : left[i] = h[(n + 1) + i - 1]
  BY <1>1, <1>2, SubSeqProperties DEF left
<1>4. /\ left \in Seq(Nat) /\ Len(left) = Len(h) - n
      /\ \A i \in 1..(Len(h) - n) : left[i] = h[n + i]
  BY <1>1, <1>3
<1> QED
  BY <1>4 DEF left

(***************************************************************************)
(* Popping what has expired keeps hits and passes tied.                    *)
(***************************************************************************)
LEMMA PopsTied ==
  ASSUME NEW h \in Seq(Nat), NEW a \in Seq(Nat), NEW now \in Nat, Tied(h, a, now),
         NEW n \in 0..Len(h), \A i \in 1..n : now - h[i] >= Window
  PROVE  Tied(SubSeq(h, n + 1, Len(h)), a, now)
<1> DEFINE l == SubSeq(h, n + 1, Len(h))
           gap == Len(a) - Len(h)
<1>1. /\ Len(h) \in Nat /\ Len(a) \in Nat /\ n \in Nat /\ n <= Len(h)
      /\ Limit \in Nat /\ Window \in Nat
  BY LimitsTyped
<1>2. l \in Seq(Nat) /\ Len(l) = Len(h) - n /\ \A i \in 1..(Len(h) - n) : l[i] = h[n + i]
  BY PopsLeave
<1> HIDE DEF l
<1>3. gap \in Nat /\ Len(a) = gap + Len(h) /\ Len(a) - Len(l) = gap + n
  BY <1>1, <1>2 DEF Tied
<1>4. \A i \in 1..Len(h) : h[i] = a[gap + i]
  BY DEF Tied
<1>5. \A i \in 1..gap : now - a[i] >= Window
  BY DEF Tied
<1> HIDE DEF gap
<1>6. ASSUME NEW i \in 1..(Len(a) - Len(l)) PROVE now - a[i] >= Window
  <2>1. i \in Nat /\ i >= 1 /\ i <= gap + n
    BY <1>1, <1>3, <1>6
  <2>2. CASE i > gap
    <3>1. i - gap \in 1..n /\ i - gap \in 1..Len(h) /\ gap + (i - gap) = i
      BY <1>1, <1>3, <2>1, <2>2
    <3> QED
      BY <1>4, <3>1
  <2> QED
    BY <1>3, <1>5, <2>1, <2>2
<1>7. ASSUME NEW i \in 1..Len(l) PROVE l[i] = a[Len(a) - Len(l) + i]
  <2>1. i \in Nat /\ n + i \in 1..Len(h) /\ i \in 1..(Len(h) - n)
        /\ Len(a) - Len(l) + i = gap + (n + i)
    BY <1>1, <1>2, <1>3, <1>7
  <2> QED
    BY <1>2, <1>4, <2>1
<1>8. Len(l) <= Limit /\ Len(l) <= Len(a)
  BY <1>1, <1>2, <1>3 DEF Tied
<1>9. \A i \in 1..(Len(a) - Limit) : a[i + Limit] - a[i] >= Window
  BY DEF Tied
<1> QED
  BY <1>6, <1>7, <1>8, <1>9 DEF Tied, l

(***************************************************************************)
(* A pass while fewer than limit hits count keeps them tied: the pass      *)
(* limit places back has been popped.                                      *)
(***************************************************************************)
LEMMA PassTied ==
  ASSUME NEW l \in Seq(Nat), NEW a \in Seq(Nat), NEW now \in Nat, Tied(l, a, now),
         Len(l) < Limit
  PROVE  Tied(Append(l, now), Append(a, now), now)
<1> DEFINE lp == Append(l, now)
           ap == Append(a, now)
<1>1. Len(l) \in Nat /\ Len(a) \in Nat /\ Limit \in Nat /\ Window \in Nat /\ Len(l) <= Len(a)
  BY LimitsTyped DEF Tied
<1>2. /\ Len(lp) = Len(l) + 1 /\ Len(ap) = Len(a) + 1
      /\ \A i \in 1..Len(l) : lp[i] = l[i]
      /\ lp[Len(l) + 1] = now
      /\ \A i \in 1..Len(a) : ap[i] = a[i]
      /\ ap[Len(a) + 1] = now
  OBVIOUS
<1> HIDE DEF lp, ap
<1>3. ASSUME NEW i \in 1..Len(lp) PROVE lp[i] = ap[Len(ap) - Len(lp) + i]
  <2>1. i \in Nat /\ i >= 1 /\ i <= Len(l) + 1 /\ Len(ap) - Len(lp) + i = Len(a) - Len(l) + i
    BY <1>1, <1>2, <1>3
  <2>2. CASE i = Len(l) + 1
    BY <1>1, <1>2, <2>1, <2>2
  <2>3. CASE i # Len(l) + 1
    <3>1. i \in 1..Len(l) /\ Len(a) - Len(l) + i \in 1..Len(a)
      BY <1>1, <2>1, <2>3
    <3> QED
      BY <1>2, <2>1, <3>1 DEF Tied
  <2> QED
    BY <2>2, <2>3
<1>4. ASSUME NEW i \in 1..(Len(ap) - Len(lp)) PROVE now - ap[i] >= Window
  <2>1. i \in 1..(Len(a) - Len(l)) /\ i \in 1..Len(a)
    BY <1>1, <1>2, <1>4
  <2> QED
    BY <1>2, <2>1 DEF Tied
<1>5. ASSUME NEW i \in 1..(Len(ap) - Limit) PROVE ap[i + Limit] - ap[i] >= Window
  <2>1. i \in Nat /\ i >= 1 /\ i + Limit <= Len(a) + 1 /\ i <= Len(a)
    BY <1>1, <1>2, <1>5
  <2>2. CASE i + Limit <= Len(a)
    <3>1. i \in 1..(Len(a) - Limit) /\ i \in 1..Len(a) /\ i + Limit \in 1..Len(a)
      BY <1>1, <2>1, <2>2
    <3> QED
      BY <1>2, <3>1 DEF Tied
  <2>3. CASE i + Limit = Len(a) + 1
    <3>1. i \in 1..(Len(a) - Len(l)) /\ i \in 1..Len(a)
      BY <1>1, <2>1, <2>3
    <3>2. now - a[i] >= Window
      BY <3>1 DEF Tied
    <3> QED
      BY <1>2, <2>3, <3>1, <3>2
  <2>4. i + Limit <= Len(a) \/ i + Limit = Len(a) + 1
    BY <1>1, <2>1
  <2> QED
    BY <2>2, <2>3, <2>4
<1>6. Len(lp) <= Limit /\ Len(lp) <= Len(ap)
  BY <1>1, <1>2
<1> QED
  BY <1>3, <1>4, <1>5, <1>6 DEF Tied, lp, ap

LEMMA AuthorizeLimiter ==
  ASSUME LimiterInv, NEW c \in Caller, Authorize(c)
  PROVE  LimiterInv'
<1> DEFINE p == PrincipalOf[c]
           left(n) == SubSeq(hits[p], n + 1, Len(hits[p]))
<1>1. /\ clock' = clock /\ clock \in Nat /\ p \in Principal
      /\ hits \in [Principal -> Seq(Nat)] /\ admitted \in [Principal -> Seq(Nat)]
      /\ hits[p] \in Seq(Nat) /\ admitted[p] \in Seq(Nat)
      /\ Tied(hits[p], admitted[p], clock)
  BY CallersTyped DEF Authorize, LimiterInv
<1>2. PICK n \in 0..Len(hits[p]) :
        /\ Pops(hits[p], n)
        /\ \/ hits' = [hits EXCEPT ![p] = left(n)] /\ admitted' = admitted
           \/ /\ ~IsFull(left(n))
              /\ hits' = [hits EXCEPT ![p] = Append(left(n), clock)]
              /\ admitted' = [admitted EXCEPT ![p] = Append(admitted[p], clock)]
  BY DEF Authorize
<1> DEFINE l == left(n)
<1>3. l \in Seq(Nat)
  BY <1>1, PopsLeave
<1>4. Tied(l, admitted[p], clock)
  BY <1>1, <1>2, PopsTied DEF Pops, IsExpired
<1>5. ~IsFull(l) => Len(l) < Limit
  BY <1>3, LimitsTyped DEF IsFull
<1> HIDE DEF l
<1>6. CASE hits' = [hits EXCEPT ![p] = l] /\ admitted' = admitted
  BY <1>1, <1>3, <1>4, <1>6 DEF LimiterInv
<1>7. CASE /\ ~IsFull(l) /\ hits' = [hits EXCEPT ![p] = Append(l, clock)]
           /\ admitted' = [admitted EXCEPT ![p] = Append(admitted[p], clock)]
  <2>1. Tied(Append(l, clock), Append(admitted[p], clock), clock)
    BY <1>1, <1>3, <1>4, <1>5, <1>7, PassTied
  <2>2. Append(l, clock) \in Seq(Nat) /\ Append(admitted[p], clock) \in Seq(Nat)
    BY <1>1, <1>3
  <2> QED
    BY <1>1, <1>7, <2>1, <2>2 DEF LimiterInv
<1> QED
  BY <1>2, <1>6, <1>7 DEF l

LEMMA TimePasses ==
  ASSUME NEW h \in Seq(Nat), NEW a \in Seq(Nat), NEW now \in Nat, Tied(h, a, now)
  PROVE  Tied(h, a, now + 1)
<1>1. Len(h) \in Nat /\ Len(a) \in Nat /\ \A i \in 1..Len(a) : a[i] \in Nat
  OBVIOUS
<1>2. ASSUME NEW i \in 1..(Len(a) - Len(h)) PROVE (now + 1) - a[i] >= Window
  <2>1. i \in 1..Len(a)
    BY <1>1, <1>2
  <2>2. a[i] \in Nat /\ now - a[i] >= Window
    BY <1>1, <1>2, <2>1 DEF Tied
  <2> QED
    BY <2>2, LimitsTyped
<1>3. /\ Len(h) <= Limit /\ Len(h) <= Len(a)
      /\ \A i \in 1..Len(h) : h[i] = a[Len(a) - Len(h) + i]
      /\ \A i \in 1..(Len(a) - Limit) : a[i + Limit] - a[i] >= Window
  BY DEF Tied
<1> QED
  BY <1>2, <1>3, Zenon DEF Tied

LEMMA NextLimiterInv ==
  ASSUME LimiterInv, [Next]_vars
  PROVE  LimiterInv'
<1>1. ASSUME NEW c \in Caller, Authorize(c) PROVE LimiterInv'
  BY <1>1, AuthorizeLimiter
<1>2. ASSUME hits' = hits, admitted' = admitted, clock' = clock PROVE LimiterInv'
  BY <1>2 DEF LimiterInv
<1>3. ASSUME Tick PROVE LimiterInv'
  <2>1. hits' = hits /\ admitted' = admitted /\ clock' = clock + 1 /\ clock \in Nat
    BY <1>3 DEF Tick, historyVars, LimiterInv
  <2>2. \A p \in Principal : Tied(hits[p], admitted[p], clock + 1)
    BY <2>1, TimePasses DEF LimiterInv
  <2> QED
    BY <2>1, <2>2 DEF LimiterInv
<1>4. ASSUME NEW p \in Process, KillProcess(p) PROVE LimiterInv'
  <2>1. CASE p = Home
    BY <1>4, <2>1, EmptyTied DEF KillProcess, LimiterInv
  <2>2. CASE p # Home
    BY <1>2, <1>4, <2>2 DEF KillProcess
  <2> QED
    BY <2>1, <2>2
<1>5. ASSUME \/ \E t \in Thread, e \in Entry : Insert(t, e) /\ UNCHANGED adminVars
             \/ \E t \in Thread : (WriteStep(t) \/ StatementFails(t)) /\ UNCHANGED adminVars
             \/ CloseConnections
             \/ \E c \in Caller : \/ RefuseRead(c) \/ BadCursor(c) \/ CountPage(c)
                                  \/ SelectPage(c) \/ SelectFails(c) \/ Summary(c)
             \/ UNCHANGED vars
      PROVE  hits' = hits /\ admitted' = admitted /\ clock' = clock
  BY <1>5 DEF CloseConnections, RefuseRead, BadCursor, CountPage, SelectPage, SelectFails, Summary,
              vars, adminVars, historyVars
<1> QED
  BY <1>1, <1>2, <1>3, <1>4, <1>5 DEF Next

\* No principal passes the limiter more than Limit times within a window,
\* whatever the limit and the window (InMemoryRateLimiter.__call__).
THEOREM RateBounded == Spec => []RateIsBounded
<1>1. LimiterInv => RateIsBounded
  BY DEF LimiterInv, Tied, RateIsBounded
<1> QED
  BY LimiterInit, NextLimiterInv, <1>1, PTL DEF Spec

-----------------------------------------------------------------------------
(* The limiter, counted over any span of time *)

\* Passes are recorded as they happen.
InOrder(a, now) ==
  /\ \A i, j \in 1..Len(a) : i <= j => a[i] <= a[j]
  /\ \A i \in 1..Len(a) : a[i] <= now

PassesInOrder == \A p \in Principal : InOrder(admitted[p], clock)

LEMMA NextInOrder ==
  ASSUME LimiterInv, PassesInOrder, [Next]_vars
  PROVE  PassesInOrder'
<1>1. CASE admitted' = admitted /\ clock' = clock
  BY <1>1 DEF PassesInOrder
<1>2. ASSUME NEW c \in Caller, Authorize(c) PROVE PassesInOrder'
  <2> DEFINE p == PrincipalOf[c]
  <2>1. clock' = clock /\ clock \in Nat /\ p \in Principal
        /\ admitted \in [Principal -> Seq(Nat)] /\ admitted[p] \in Seq(Nat)
    BY <1>2, CallersTyped DEF Authorize, LimiterInv
  <2>2. \/ admitted' = admitted
        \/ admitted' = [admitted EXCEPT ![p] = Append(admitted[p], clock)]
    BY <1>2 DEF Authorize
  <2>3. InOrder(Append(admitted[p], clock), clock)
    <3> DEFINE a == admitted[p]
    <3>1. InOrder(a, clock) /\ Len(a) \in Nat /\ \A i \in 1..Len(a) : a[i] \in Nat
      BY <2>1 DEF PassesInOrder
    <3>2. /\ Len(Append(a, clock)) = Len(a) + 1
          /\ \A i \in 1..Len(a) : Append(a, clock)[i] = a[i]
          /\ Append(a, clock)[Len(a) + 1] = clock
      BY <2>1
    <3> DEFINE b == Append(a, clock)
    <3> HIDE DEF a, b
    <3>3. \A i \in 1..Len(b) : i \in 1..Len(a) \/ i = Len(a) + 1
      BY <3>1, <3>2 DEF b
    <3>4. \A i \in 1..Len(b) : b[i] <= clock
      BY <2>1, <3>1, <3>2, <3>3 DEF InOrder, b
    <3>5. \A i, j \in 1..Len(b) : i <= j => b[i] <= b[j]
      BY <2>1, <3>1, <3>2, <3>3, <3>4 DEF InOrder, b
    <3> QED
      BY <3>4, <3>5 DEF InOrder, a, b
  <2> QED
    BY <1>1, <2>1, <2>2, <2>3 DEF PassesInOrder
<1>3. CASE Tick
  <2>1. admitted' = admitted /\ clock' = clock + 1
    BY <1>3 DEF Tick, historyVars
  <2>2. ASSUME NEW p \in Principal PROVE InOrder(admitted[p], clock + 1)
    <3>1. InOrder(admitted[p], clock) /\ clock \in Nat /\ admitted[p] \in Seq(Nat)
      BY DEF PassesInOrder, LimiterInv
    <3>2. \A i \in 1..Len(admitted[p]) : admitted[p][i] \in Nat
      BY <3>1
    <3> QED
      BY <3>1, <3>2 DEF InOrder
  <2> QED
    BY <2>1, <2>2 DEF PassesInOrder
<1>4. ASSUME NEW q \in Process, KillProcess(q) PROVE PassesInOrder'
  <2>1. CASE q = Home
    <3>1. Len(<<>>) = 0
      OBVIOUS
    <3> QED
      BY <1>4, <2>1, <3>1 DEF KillProcess, PassesInOrder, InOrder
  <2>2. CASE q # Home
    BY <1>1, <1>4, <2>2 DEF KillProcess
  <2> QED
    BY <2>1, <2>2
<1>5. ASSUME \/ \E t \in Thread, e \in Entry : Insert(t, e) /\ UNCHANGED adminVars
             \/ \E t \in Thread : (WriteStep(t) \/ StatementFails(t)) /\ UNCHANGED adminVars
             \/ CloseConnections
             \/ \E c \in Caller : \/ RefuseRead(c) \/ BadCursor(c) \/ CountPage(c)
                                  \/ SelectPage(c) \/ SelectFails(c) \/ Summary(c)
             \/ UNCHANGED vars
      PROVE  admitted' = admitted /\ clock' = clock
  BY <1>5 DEF CloseConnections, RefuseRead, BadCursor, CountPage, SelectPage, SelectFails, Summary,
              vars, adminVars, historyVars
<1> QED
  BY <1>1, <1>2, <1>3, <1>4, <1>5 DEF Next

LEMMA HasLeast ==
  ASSUME NEW S \in SUBSET Nat, S # {}
  PROVE  \E least \in S : \A k \in S : least <= k
<1>1. PICK least \in S : \A k \in S : ~(<<k, least>> \in OpToRel(<, Nat))
  <2> HIDE DEF OpToRel
  <2> QED
    BY NatLessThanWellFounded, WFMin, Zenon
<1>2. \A k \in S : ~(k < least)
  BY <1>1 DEF OpToRel
<1> QED
  BY <1>2

PassesWithin(p, from) ==
  {i \in 1..Len(admitted[p]) : from <= admitted[p][i] /\ admitted[p][i] < from + Window}

(***************************************************************************)
(* Of the passes of one span all lie within Limit of the first.            *)
(***************************************************************************)
LEMMA SpanIsShort ==
  ASSUME LimiterInv, PassesInOrder, NEW p \in Principal, NEW from \in Nat
  PROVE  Cardinality(PassesWithin(p, from)) <= Limit
<1> DEFINE a == admitted[p]
           S == PassesWithin(p, from)
<1>1. /\ a \in Seq(Nat) /\ Len(a) \in Nat /\ \A i \in 1..Len(a) : a[i] \in Nat
      /\ \A i \in 1..(Len(a) - Limit) : a[i + Limit] - a[i] >= Window
      /\ \A i, j \in 1..Len(a) : i <= j => a[i] <= a[j]
  <2>1. a \in Seq(Nat) /\ Tied(hits[p], a, clock) /\ InOrder(a, clock)
    BY DEF LimiterInv, PassesInOrder
  <2> HIDE DEF a
  <2> QED
    BY <2>1 DEF Tied, InOrder
<1>2. \A i \in S : i \in 1..Len(a) /\ from <= a[i] /\ a[i] < from + Window
  BY DEF PassesWithin
<1>3. S \in SUBSET Nat
  BY <1>1, <1>2
<1>4. CASE S = {}
  BY <1>4, FS_EmptySet, LimitsTyped
<1>5. CASE S # {}
  <2>1. PICK first \in S : \A i \in S : first <= i
    BY <1>3, <1>5, HasLeast
  <2> HIDE DEF a, S
  <2>2. first \in 1..Len(a) /\ first \in Nat /\ Limit \in Nat /\ Window \in Nat
    BY <1>1, <1>2, LimitsTyped
  <2>3. ASSUME NEW i \in S PROVE i \in first..(first + Limit - 1)
    <3>1. i \in 1..Len(a) /\ first <= i
      BY <1>2, <2>1
    <3>2. ASSUME i >= first + Limit PROVE FALSE
      <4>1. first \in 1..(Len(a) - Limit) /\ first + Limit \in 1..Len(a)
        BY <1>1, <2>2, <3>1, <3>2
      <4>2. a[first + Limit] - a[first] >= Window /\ a[first + Limit] <= a[i]
        BY <1>1, <3>1, <3>2, <4>1
      <4>3. from <= a[first] /\ a[i] < from + Window
        BY <1>2, <2>1
      <4>4. a[first] \in Nat /\ a[i] \in Nat /\ a[first + Limit] \in Nat
        BY <1>1, <2>2, <3>1, <4>1
      <4> QED
        BY <2>2, <4>2, <4>3, <4>4
    <3> QED
      BY <2>2, <3>1, <3>2
  <2>4. /\ IsFiniteSet(first..(first + Limit - 1))
        /\ Cardinality(first..(first + Limit - 1)) = Limit
    <3>1. first \in Int /\ first + Limit - 1 \in Int
      BY <2>2
    <3>2. /\ IsFiniteSet(first..(first + Limit - 1))
          /\ Cardinality(first..(first + Limit - 1)) =
               IF first > first + Limit - 1 THEN 0 ELSE (first + Limit - 1) - first + 1
      BY <3>1, FS_Interval
    <3> QED
      BY <2>2, <3>2
  <2>5. S \subseteq first..(first + Limit - 1)
    BY <2>3
  <2> QED
    BY <2>4, <2>5, FS_Subset DEF S
<1> QED
  BY <1>4, <1>5

(***************************************************************************)
(* Take any span of Window ticks, aligned with a pass or not: a principal  *)
(* passes the limiter Limit times at most within it, for as long as the    *)
(* process lives (admin_router.py, InMemoryRateLimiter.__call__).          *)
(***************************************************************************)
THEOREM AnyWindowIsBounded ==
  Spec => [](\A p \in Principal : \A from \in Nat :
               Cardinality(PassesWithin(p, from)) <= Limit)
<1>1. Init => PassesInOrder
  <2>1. Len(<<>>) = 0
    OBVIOUS
  <2> QED
    BY <2>1 DEF Init, PassesInOrder, InOrder
<1>2. LimiterInv /\ PassesInOrder =>
        \A p \in Principal : \A from \in Nat : Cardinality(PassesWithin(p, from)) <= Limit
  BY SpanIsShort
<1> QED
  BY LimiterInit, NextLimiterInv, NextInOrder, <1>1, <1>2, PTL DEF Spec

-----------------------------------------------------------------------------
(* The readers *)

LEMMA ReadInit == Init => ReadInv
  BY DEF Init, ReadInv, ReadsAreAudited, Stages

(***************************************************************************)
(* The rows of a page are of the caller's tenant.                          *)
(***************************************************************************)
LEMMA PageOfTenant ==
  ASSUME NEW c \in Caller, NEW page \in SUBSET Found(c)
  PROVE  {TenantOf[e] : e \in page} \subseteq {Scope[c]}
  BY DEF Found, Matching

LEMMA NextReadInv ==
  ASSUME ReadInv, [Next]_vars
  PROVE  ReadInv'
<1> USE DEF ReadInv, ReadsAreAudited, Stages
<1>1. ASSUME NEW c \in Caller, Authorize(c) PROVE ReadInv'
  BY <1>1 DEF Authorize
<1>2. ASSUME NEW c \in Caller, RefuseRead(c) PROVE ReadInv'
  BY <1>2 DEF RefuseRead, historyVars
<1>3. ASSUME NEW c \in Caller, BadCursor(c) PROVE ReadInv'
  BY <1>3 DEF BadCursor, Audit
<1>4. ASSUME NEW c \in Caller, CountPage(c) PROVE ReadInv'
  BY <1>4 DEF CountPage, Audit
<1>5. ASSUME NEW c \in Caller, SelectPage(c) PROVE ReadInv'
  <2>1. PICK page \in SUBSET Found(c) :
          shown' = [shown EXCEPT ![c] = shown[c] \union {TenantOf[e] : e \in page}]
    BY <1>5 DEF SelectPage
  <2>2. {TenantOf[e] : e \in page} \subseteq {Scope[c]}
    BY PageOfTenant
  <2>3. /\ stage[c] = "counted" /\ stage' = [stage EXCEPT ![c] = "idle"]
        /\ answered' = [answered EXCEPT ![c] = TRUE] /\ audited' = audited
    BY <1>5 DEF SelectPage
  <2> HIDE DEF ReadInv
  <2>4. \A d \in Caller : shown'[d] \subseteq {Scope[d]}
    BY <2>1, <2>2 DEF ReadInv
  <2>5. DOMAIN shown' = Caller
    BY <2>1 DEF ReadInv
  <2> QED
    BY <2>3, <2>4, <2>5 DEF ReadInv
<1>6. ASSUME NEW c \in Caller, Summary(c) PROVE ReadInv'
  <2>1. \A window : {TenantOf[e] : e \in SummaryRows(c, window)} \subseteq {Scope[c]}
    BY DEF SummaryRows, Matching
  <2>2. PICK ask \in Asks :
          shown' = [shown EXCEPT ![c] = shown[c] \union
                      {TenantOf[e] : e \in SummaryRows(c, WindowOf(ask))}]
    BY <1>6 DEF Summary
  <2>3. /\ stage[c] = "admitted" /\ stage' = [stage EXCEPT ![c] = "idle"]
        /\ answered' = [answered EXCEPT ![c] = TRUE]
        /\ audited' = [audited EXCEPT ![c] = TRUE]
    BY <1>6 DEF Summary, Audit
  <2> HIDE DEF ReadInv
  <2>4. \A d \in Caller : shown'[d] \subseteq {Scope[d]}
    BY <2>1, <2>2 DEF ReadInv
  <2>5. DOMAIN shown' = Caller
    BY <2>2 DEF ReadInv
  <2> QED
    BY <2>3, <2>4, <2>5 DEF ReadInv
<1>7. ASSUME NEW p \in Process, KillProcess(p) PROVE ReadInv'
  BY <1>7 DEF KillProcess
<1>8. CASE \/ \E t \in Thread, e \in Entry : Insert(t, e) /\ UNCHANGED adminVars
           \/ \E t \in Thread : (WriteStep(t) \/ StatementFails(t)) /\ UNCHANGED adminVars
           \/ CloseConnections \/ Tick \/ UNCHANGED vars
  BY <1>8 DEF CloseConnections, Tick, vars, adminVars, historyVars
<1>9. ASSUME NEW c \in Caller, SelectFails(c) PROVE ReadInv'
  BY <1>9 DEF SelectFails, historyVars
<1> HIDE DEF ReadInv
<1> QED
  BY <1>1, <1>2, <1>3, <1>4, <1>5, <1>6, <1>7, <1>8, <1>9 DEF Next

\* Whoever is shown a row is an admin, whose request was audited first, and the
\* row is of that admin's tenant (require_admin, _audit, _filters).
THEOREM ReadsAudited == Spec => []ReadsAreAudited
<1>1. ReadInv => ReadsAreAudited
  BY DEF ReadInv
<1> QED
  BY ReadInit, NextReadInv, <1>1, PTL DEF Spec

-----------------------------------------------------------------------------
(* The store under the router *)

LEMMA NextIsStoreNext == [Next]_vars => [StoreNext]_storeVars
<1>1. ASSUME NEW p \in Process, KillProcess(p) PROVE StoreNext
  BY <1>1 DEF KillProcess, StoreNext
<1>2. ASSUME CloseConnections PROVE StoreNext
  BY <1>2 DEF CloseConnections, StoreNext
<1>3. ASSUME NEW t \in Thread, NEW e \in Entry, Insert(t, e) PROVE StoreNext
  BY <1>3 DEF StoreNext
<1>4. ASSUME NEW t \in Thread, WriteStep(t) \/ StatementFails(t) PROVE StoreNext
  BY <1>4 DEF StoreNext
<1>5. ASSUME \/ \E c \in Caller : \/ Authorize(c) \/ RefuseRead(c) \/ BadCursor(c)
                                  \/ CountPage(c) \/ SelectPage(c) \/ SelectFails(c) \/ Summary(c)
             \/ Tick \/ UNCHANGED vars
      PROVE  UNCHANGED storeVars
  BY <1>5 DEF Authorize, RefuseRead, BadCursor, CountPage, SelectPage, SelectFails, Summary, Tick, vars
<1> QED
  BY <1>1, <1>2, <1>3, <1>4, <1>5 DEF Next

\* With the router beside it the store still behaves as StoreSpec allows, so
\* that what is proved of the store holds here too: no read writes to it.
THEOREM RouterKeepsStore == Spec => StoreSpec
<1>1. Init => StoreInit
  BY DEF Init
<1> QED
  BY <1>1, NextIsStoreNext, PTL DEF Spec, StoreSpec

-----------------------------------------------------------------------------
(* The order of the text *)

LEMMA DivMod ==
  ASSUME NEW a \in Int PROVE a \div Second \in Int /\ a % Second \in 0..(Second - 1)
  BY SecondIsNat

LEMMA WholeSecond ==
  ASSUME NEW x \in Int, NEW y \in Int, x < y PROVE x * Second + Second <= y * Second
  BY SecondIsNat

LEMMA DivMono ==
  ASSUME NEW a \in Int, NEW b \in Int, a <= b PROVE a \div Second <= b \div Second
  BY SecondIsNat

(***************************************************************************)
(* An instant's text sorts within the instant's second.                    *)
(***************************************************************************)
LEMMA TextRange ==
  ASSUME NEW a \in Int
  PROVE  /\ TextOf(a) \in Int
         /\ (a \div Second) * Second <= TextOf(a)
         /\ TextOf(a) <= (a \div Second) * Second + Second - 1
<1> DEFINE q == (a \div Second) * Second
           f == a % Second
<1>1. q \in Int /\ f \in 0..(Second - 1) /\ Second \in Nat \ {0}
  BY DivMod, SecondIsNat
<1>2. TextOf(a) = q + (IF f = 0 THEN Second - 1 ELSE f - 1)
  BY DEF TextOf
<1> HIDE DEF q, f
<1>3. TextOf(a) \in Int /\ q <= TextOf(a) /\ TextOf(a) <= q + Second - 1
  BY <1>1, <1>2
<1> QED
  BY ONLY <1>3, Zenon DEF q

(***************************************************************************)
(* Instants of different seconds sort as they should.                      *)
(***************************************************************************)
LEMMA TextMono ==
  ASSUME NEW a \in Int, NEW b \in Int, a <= b, ~SameSecond(a, b)
  PROVE  TextOf(a) < TextOf(b)
<1> DEFINE q == (a \div Second) * Second
           r == (b \div Second) * Second
<1>1. a \div Second \in Int /\ b \div Second \in Int
  BY DivMod
<1>2. a \div Second <= b \div Second
  BY DivMono
<1>3. a \div Second # b \div Second
  BY DEF SameSecond
<1>4. a \div Second < b \div Second
  BY <1>1, <1>2, <1>3
<1>5. Second \in Nat
  BY SecondIsNat
<1>6. q + Second <= r
  BY <1>1, <1>4, WholeSecond
<1>7. q \in Int /\ r \in Int
  BY <1>1, <1>5
<1>8. TextOf(a) \in Int /\ TextOf(b) \in Int /\ TextOf(a) <= q + Second - 1 /\ r <= TextOf(b)
  BY TextRange
<1> HIDE DEF q, r
<1> QED
  BY <1>5, <1>6, <1>7, <1>8

LEMMA KeysAreNats == \A e \in Entry : Key(e) \in Nat /\ CidOf[e] \in Nat
<1>1. ASSUME NEW e \in Entry PROVE Key(e) \in Nat
  <2>1. TsOf[e] \in Nat
    BY EntriesTyped
  <2>2. TsOf[e] \div Second \in Nat /\ Second \in Nat
    BY <2>1, SecondIsNat
  <2>3. (TsOf[e] \div Second) * Second \in Nat
    BY <2>2
  <2>4. TextOf(TsOf[e]) \in Int /\ (TsOf[e] \div Second) * Second <= TextOf(TsOf[e])
    BY <2>1, TextRange
  <2> HIDE DEF TextOf
  <2> QED
    BY <2>3, <2>4 DEF Key
<1> QED
  BY <1>1, EntriesTyped

-----------------------------------------------------------------------------
(* The walk *)

LEMMA DueMatches ==
  ASSUME NEW c \in Caller, walk[c].window \in Bounds, NEW e \in Due(c), rows \subseteq Entry
  PROVE  /\ e \in Entry /\ ~HasTwin(e)
         /\ e \in Matching(Scope[c], walk[c].window.since, walk[c].window.until)
<1> DEFINE since == walk[c].window.since
           until == walk[c].window.until
<1>1. /\ e \in rows /\ TenantOf[e] = Scope[c] /\ ~HasTwin(e)
      /\ since <= TsOf[e] /\ TsOf[e] <= until
      /\ ~SameSecond(TsOf[e], since) /\ ~SameSecond(TsOf[e], until)
  BY DEF Due
<1>2. e \in Entry /\ since \in Int /\ until \in Int
  BY <1>1 DEF Bounds
<1>3. TsOf[e] \in Int
  BY <1>2, EntriesTyped
<1> HIDE DEF since, until
<1>4. ~SameSecond(since, TsOf[e])
  BY <1>1 DEF SameSecond
<1>5. TextOf(since) < TextOf(TsOf[e]) /\ TextOf(TsOf[e]) < TextOf(until)
  BY <1>1, <1>2, <1>3, <1>4, TextMono
<1>6. TextOf(since) <= Key(e) /\ Key(e) <= TextOf(until)
  <2>1. TextOf(since) \in Int /\ TextOf(until) \in Int /\ TextOf(TsOf[e]) \in Int
    BY <1>2, <1>3, TextRange
  <2> QED
    BY <1>5, <2>1 DEF Key
<1>7. e \in Matching(Scope[c], since, until)
  BY <1>1, <1>6 DEF Matching
<1> QED
  BY <1>1, <1>2, <1>7 DEF since, until

(***************************************************************************)
(* What a page leaves out lies behind the cursor that names its last row,  *)
(* and the page itself does not.                                           *)
(***************************************************************************)
LEMMA CursorSplits ==
  ASSUME NEW S \in SUBSET Entry, NEW page \in SUBSET S, NEW n, IsPage(page, S, n),
         NEW l \in page, IsLastOf(l, page)
  PROVE  /\ CursorOf(l) \in Cursors /\ CursorOf(l) # NoCursor
         /\ \A e \in S \ page : ~HasTwin(e) => PastCursor(e, CursorOf(l))
         /\ \A e \in page : ~PastCursor(e, CursorOf(l))
<1>1. l \in Entry /\ Key(l) \in Nat /\ CidOf[l] \in Nat
  BY KeysAreNats
<1>2. CursorOf(l).key = Key(l) /\ CursorOf(l).cid = CidOf[l]
  BY DEF CursorOf
<1>3. CursorOf(l) \in Cursors /\ CursorOf(l) # NoCursor
  BY <1>1 DEF CursorOf, Cursors, NoCursor
<1>4. ASSUME NEW e \in S \ page, ~HasTwin(e) PROVE PastCursor(e, CursorOf(l))
  <2>1. e \in Entry /\ e # l /\ Key(e) \in Nat /\ CidOf[e] \in Nat
    BY KeysAreNats
  <2>2. ~(Key(e) = Key(l) /\ CidOf[e] = CidOf[l])
    BY <1>1, <1>4, <2>1 DEF HasTwin, CursorOf
  <2>3. ~Above(e, l)
    BY DEF IsPage
  <2>4. Key(e) < Key(l) \/ (Key(e) = Key(l) /\ CidOf[e] < CidOf[l])
    BY <1>1, <2>1, <2>2, <2>3 DEF Above
  <2> QED
    BY <1>2, <2>4 DEF PastCursor
<1>5. ASSUME NEW e \in page PROVE ~PastCursor(e, CursorOf(l))
  <2>1. Key(e) \in Nat /\ CidOf[e] \in Nat
    BY KeysAreNats
  <2>2. ~Above(l, e)
    BY DEF IsLastOf
  <2>3. ~(Key(e) < Key(l)) /\ ~(Key(e) = Key(l) /\ CidOf[e] < CidOf[l])
    BY <1>1, <2>1, <2>2 DEF Above
  <2> QED
    BY <1>2, <1>3, <2>3 DEF PastCursor
<1> QED
  BY <1>3, <1>4, <1>5

(***************************************************************************)
(* A cursor behind another one leaves no more rows behind it.              *)
(***************************************************************************)
LEMMA CursorAdvances ==
  ASSUME NEW cursor \in Cursors, cursor # NoCursor,
         NEW l \in Entry, PastCursor(l, cursor), NEW e \in Entry, ~PastCursor(e, cursor)
  PROVE  ~PastCursor(e, CursorOf(l))
<1>1. /\ Key(l) \in Nat /\ CidOf[l] \in Nat /\ Key(e) \in Nat /\ CidOf[e] \in Nat
      /\ cursor.key \in Int /\ cursor.cid \in Int
  BY KeysAreNats DEF Cursors
<1>2. Key(l) < cursor.key \/ (Key(l) = cursor.key /\ CidOf[l] < cursor.cid)
  BY DEF PastCursor
<1>3. ~(Key(e) < cursor.key) /\ ~(Key(e) = cursor.key /\ CidOf[e] < cursor.cid)
  BY DEF PastCursor
<1>4. ~(Key(e) < Key(l)) /\ ~(Key(e) = Key(l) /\ CidOf[e] < CidOf[l])
  BY <1>1, <1>2, <1>3
<1>5. /\ CursorOf(l).key = Key(l) /\ CursorOf(l).cid = CidOf[l]
      /\ CursorOf(l) # NoCursor
  BY <1>1 DEF CursorOf, NoCursor
<1> QED
  BY <1>4, <1>5 DEF PastCursor

LEMMA WalkInit == Init => WalkInv
  BY DEF Init, WalkInv, WalkIsComplete, Stages, Phases, Cursors, Bounds, NoCursor, NoBound, Unasked

WalkOf(c) ==
  /\ stage[c] = "counted" => walk[c].phase # "done"
  /\ walk[c].phase = "new" => walk[c].cursor = NoCursor /\ got[c] = {} /\ owed[c] = {}
  /\ walk[c].phase = "paging" =>
       /\ walk[c].cursor # NoCursor
       /\ \A e \in owed[c] : Settled(c, e)
       /\ \A e \in got[c] : ~PastCursor(e, walk[c].cursor)
  /\ walk[c].phase = "done" => owed[c] \subseteq got[c]

WalkTyped ==
  /\ stage \in [Caller -> Stages]
  /\ walk \in [Caller -> [phase : Phases, ask : Bounds, cursor : Cursors, window : Bounds]]
  /\ got \in [Caller -> SUBSET Entry] /\ owed \in [Caller -> SUBSET Entry]

LEMMA WalkInvParts == WalkInv <=> WalkTyped /\ \A c \in Caller : WalkOf(c)
  BY DEF WalkInv, WalkTyped, WalkOf, WalkIsComplete

LEMMA WalkInvNext ==
  ASSUME WalkTyped', \A c \in Caller : WalkOf(c)'
  PROVE  WalkInv'
  BY DEF WalkInv, WalkTyped, WalkOf, WalkIsComplete

(***************************************************************************)
(* What a SELECT finds is finite, of the log, and new to its walk.         *)
(***************************************************************************)
LEMMA FoundIsNew ==
  ASSUME TypeOK, WalkInv, NEW c \in Caller, stage[c] = "counted"
  PROVE  /\ Found(c) \in SUBSET Entry /\ IsFiniteSet(Found(c))
         /\ Found(c) \intersect got[c] = {}
<1>1. rows \subseteq Entry /\ IsFiniteSet(rows)
  BY Sizes DEF TypeOK
<1>2. Found(c) \subseteq rows /\ \A e \in Found(c) : PastCursor(e, walk[c].cursor)
  BY DEF Found, Matching
<1>3. WalkTyped /\ WalkOf(c)
  BY WalkInvParts
<1>4. walk[c].phase = "new" \/ walk[c].phase = "paging"
  BY <1>3 DEF WalkTyped, WalkOf, Phases
<1>5. Found(c) \intersect got[c] = {}
  BY <1>2, <1>3, <1>4 DEF WalkOf
<1> QED
  BY <1>1, <1>2, <1>5, FS_Subset

(***************************************************************************)
(* Every row the walk will owe after this page is found now, or was        *)
(* returned before.                                                        *)
(***************************************************************************)
LEMMA OwedIsFound ==
  ASSUME TypeOK, WalkInv, NEW c \in Caller, stage[c] = "counted",
         NEW e \in (IF walk[c].phase = "new" THEN Due(c) ELSE owed[c] \intersect Due(c))
  PROVE  e \in Entry /\ ~HasTwin(e) /\ (e \in Found(c) \/ e \in got[c])
<1>1. rows \subseteq Entry
  BY DEF TypeOK
<1>2. WalkTyped /\ WalkOf(c)
  BY WalkInvParts
<1>3. walk[c].window \in Bounds
  BY <1>2 DEF WalkTyped
<1>4. e \in Due(c)
  OBVIOUS
<1>5. /\ e \in Entry /\ ~HasTwin(e)
      /\ e \in Matching(Scope[c], walk[c].window.since, walk[c].window.until)
  BY <1>1, <1>3, <1>4, DueMatches
<1>6. CASE walk[c].phase = "new"
  BY <1>2, <1>5, <1>6 DEF WalkOf, Found, PastCursor
<1>7. CASE walk[c].phase = "paging"
  BY <1>2, <1>5, <1>7 DEF WalkOf, Found, Settled
<1> QED
  BY <1>2, <1>6, <1>7 DEF WalkOf, WalkTyped, Phases

LEMMA SelectKeepsWalk ==
  ASSUME TypeOK, WalkInv, NEW c \in Caller, SelectPage(c)
  PROVE  WalkInv'
<1> DEFINE owes == IF walk[c].phase = "new" THEN Due(c) ELSE owed[c] \intersect Due(c)
<1>1. stage[c] = "counted" /\ stage' = [stage EXCEPT ![c] = "idle"]
      /\ owed' = [owed EXCEPT ![c] = owes]
  BY DEF SelectPage
<1>2. PICK page \in SUBSET Found(c) :
        /\ IsPage(page, Found(c), PageLimit)
        /\ got' = [got EXCEPT ![c] = got[c] \union page]
        /\ \/ /\ Cardinality(Found(c)) > PageLimit
              /\ \E cursor \in CursorsAfter(Found(c), page) :
                    walk' = [walk EXCEPT ![c] = [walk[c] EXCEPT !.phase = "paging",
                                                 !.cursor = cursor, !.window = Unasked]]
           \/ /\ ~(Cardinality(Found(c)) > PageLimit)
              /\ walk' = [walk EXCEPT ![c] = [walk[c] EXCEPT !.phase = "done",
                                              !.window = Unasked]]
  BY DEF SelectPage
<1>3. WalkTyped /\ \A d \in Caller : WalkOf(d)
  BY WalkInvParts
<1>4. /\ Found(c) \in SUBSET Entry /\ IsFiniteSet(Found(c))
      /\ Found(c) \intersect got[c] = {}
  BY <1>1, FoundIsNew
<1>5. \A e \in owes : e \in Entry /\ ~HasTwin(e) /\ (e \in Found(c) \/ e \in got[c])
  BY <1>1, OwedIsFound
<1> HIDE DEF owes
<1>6. owed'[c] = owes /\ got'[c] = got[c] \union page /\ stage'[c] = "idle"
  BY <1>1, <1>2, <1>3 DEF WalkTyped
<1>7. \A d \in Caller \ {c} : walk'[d] = walk[d] /\ got'[d] = got[d] /\ owed'[d] = owed[d]
                              /\ stage'[d] = stage[d]
  BY <1>1, <1>2, <1>3 DEF WalkTyped
<1>8. \A d \in Caller \ {c} : WalkOf(d)'
  BY <1>3, <1>7 DEF WalkOf, Settled
<1>9. /\ stage' \in [Caller -> Stages] /\ got' \in [Caller -> SUBSET Entry]
      /\ owed' \in [Caller -> SUBSET Entry]
  BY <1>1, <1>2, <1>3, <1>4, <1>5 DEF WalkTyped, Stages
<1>10. Unasked \in Bounds
  BY DEF Unasked, Bounds, NoBound
<1>11. ASSUME NEW cursor \in CursorsAfter(Found(c), page),
              walk' = [walk EXCEPT ![c] = [walk[c] EXCEPT !.phase = "paging",
                                           !.cursor = cursor, !.window = Unasked]]
       PROVE  WalkInv'
  <2>1. PICK l \in page : IsLastOf(l, page) /\ cursor = CursorOf(l)
    BY <1>11 DEF CursorsAfter
  <2>2. /\ cursor \in Cursors /\ cursor # NoCursor
        /\ \A e \in Found(c) \ page : ~HasTwin(e) => PastCursor(e, cursor)
        /\ \A e \in page : ~PastCursor(e, cursor)
    BY <1>2, <1>4, <2>1, CursorSplits
  <2>3. walk'[c].phase = "paging" /\ walk'[c].cursor = cursor
    BY <1>3, <1>11 DEF WalkTyped
  <2>4. walk' \in [Caller -> [phase : Phases, ask : Bounds, cursor : Cursors, window : Bounds]]
    BY <1>3, <1>10, <1>11, <2>2 DEF WalkTyped, Phases
  <2>5. \A e \in owes : e \in got'[c] \/ PastCursor(e, cursor)
    BY <1>5, <1>6, <2>2
  <2>6. ASSUME NEW e \in got[c] PROVE ~PastCursor(e, cursor)
    <3>1. walk[c].phase = "paging"
      BY <1>1, <1>3 DEF WalkTyped, WalkOf, Phases
    <3>2. /\ walk[c].cursor \in Cursors /\ walk[c].cursor # NoCursor
          /\ ~PastCursor(e, walk[c].cursor) /\ e \in Entry
      BY <1>3, <3>1 DEF WalkTyped, WalkOf
    <3>3. l \in Entry /\ PastCursor(l, walk[c].cursor)
      BY <1>4 DEF Found
    <3> QED
      BY <2>1, <3>2, <3>3, CursorAdvances
  <2>7. WalkOf(c)'
    BY <1>6, <2>2, <2>3, <2>5, <2>6 DEF WalkOf, Settled
  <2>8. WalkTyped'
    BY <1>9, <2>4 DEF WalkTyped
  <2> QED
    BY <1>8, <2>7, <2>8, WalkInvNext
<1>12. ASSUME ~(Cardinality(Found(c)) > PageLimit),
              walk' = [walk EXCEPT ![c] = [walk[c] EXCEPT !.phase = "done", !.window = Unasked]]
       PROVE  WalkInv'
  <2>1. Cardinality(Found(c)) \in Nat /\ PageLimit \in Int
    BY <1>4, FS_CardinalityType, LimitsTyped DEF PageLimit, Larger
  <2>2. Cardinality(page) = Cardinality(Found(c))
    BY <1>2, <1>12, <2>1 DEF IsPage
  <2>3. page = Found(c)
    BY <1>4, <2>2, FS_Subset
  <2>4. walk'[c].phase = "done"
    BY <1>3, <1>12 DEF WalkTyped
  <2>5. walk' \in [Caller -> [phase : Phases, ask : Bounds, cursor : Cursors, window : Bounds]]
    BY <1>3, <1>10, <1>12 DEF WalkTyped, Phases
  <2>6. owed'[c] \subseteq got'[c]
    BY <1>5, <1>6, <2>3
  <2>7. WalkOf(c)'
    BY <1>6, <2>4, <2>6 DEF WalkOf
  <2>8. WalkTyped'
    BY <1>9, <2>5 DEF WalkTyped
  <2> QED
    BY <1>8, <2>7, <2>8, WalkInvNext
<1> QED
  BY <1>2, <1>11, <1>12

LEMMA CountKeepsWalk ==
  ASSUME WalkInv, clock \in Nat, NEW c \in Caller, CountPage(c)
  PROVE  WalkInv'
<1>1. WalkTyped /\ \A d \in Caller : WalkOf(d)
  BY WalkInvParts
<1>2. PICK ask \in (IF walk[c].phase = "new" THEN Asks ELSE {walk[c].ask}) :
        walk' = [walk EXCEPT ![c] = [walk[c] EXCEPT !.ask = ask, !.window = WindowOf(ask)]]
  BY DEF CountPage
<1>3. /\ walk[c].phase # "done" /\ stage' = [stage EXCEPT ![c] = "counted"]
      /\ got' = got /\ owed' = owed
  BY DEF CountPage
<1>4. ask \in Bounds
  BY <1>1, <1>2, AsksTyped DEF WalkTyped, Bounds, NoBound
<1>5. WindowOf(ask) \in Bounds
  BY <1>4, LimitsTyped DEF WindowOf, Bounds
<1> HIDE DEF WindowOf
<1>6. walk'[c].phase = walk[c].phase /\ walk'[c].cursor = walk[c].cursor
  BY <1>1, <1>2 DEF WalkTyped
<1>7. \A d \in Caller \ {c} : walk'[d] = walk[d] /\ stage'[d] = stage[d]
  BY <1>1, <1>2, <1>3 DEF WalkTyped
<1>8. WalkTyped'
  BY <1>1, <1>2, <1>3, <1>4, <1>5 DEF WalkTyped, Stages
<1>9. WalkOf(c)'
  BY <1>1, <1>3, <1>6 DEF WalkOf, Settled
<1>10. \A d \in Caller \ {c} : WalkOf(d)'
  BY <1>1, <1>3, <1>7 DEF WalkOf, Settled
<1> QED
  BY <1>8, <1>9, <1>10, WalkInvNext

LEMMA FailKeepsWalk ==
  ASSUME WalkInv, NEW c \in Caller, SelectFails(c)
  PROVE  WalkInv'
<1>1. WalkTyped /\ \A d \in Caller : WalkOf(d)
  BY WalkInvParts
<1>2. /\ walk' = [walk EXCEPT ![c] = [walk[c] EXCEPT !.window = Unasked]]
      /\ stage' = [stage EXCEPT ![c] = "idle"] /\ got' = got /\ owed' = owed
  BY DEF SelectFails, historyVars
<1>3. Unasked \in Bounds
  BY DEF Unasked, Bounds, NoBound
<1>4. walk'[c].phase = walk[c].phase /\ walk'[c].cursor = walk[c].cursor
  BY <1>1, <1>2 DEF WalkTyped
<1>5. \A d \in Caller \ {c} : walk'[d] = walk[d] /\ stage'[d] = stage[d]
  BY <1>1, <1>2 DEF WalkTyped
<1>6. WalkTyped'
  BY <1>1, <1>2, <1>3 DEF WalkTyped, Stages
<1>7. WalkOf(c)'
  BY <1>1, <1>2, <1>4 DEF WalkOf, WalkTyped, Settled
<1>8. \A d \in Caller \ {c} : WalkOf(d)'
  BY <1>1, <1>2, <1>5 DEF WalkOf, Settled
<1> QED
  BY <1>6, <1>7, <1>8, WalkInvNext

(***************************************************************************)
(* A step that leaves the walks alone and counts no page.                  *)
(***************************************************************************)
LEMMA OthersKeepWalk ==
  ASSUME WalkInv, walk' = walk, got' = got, owed' = owed, stage' \in [Caller -> Stages],
         \A c \in Caller : stage'[c] = "counted" => stage[c] = "counted"
  PROVE  WalkInv'
<1>1. WalkTyped /\ \A d \in Caller : WalkOf(d)
  BY WalkInvParts
<1>2. WalkTyped' /\ \A d \in Caller : WalkOf(d)'
  BY <1>1 DEF WalkTyped, WalkOf, Settled
<1> QED
  BY <1>2, WalkInvNext

LEMMA NextWalkInv ==
  ASSUME TypeOK, WalkInv, clock \in Nat, [Next]_vars
  PROVE  WalkInv'
<1>0. stage \in [Caller -> Stages]
  BY DEF WalkInv
<1>1. ASSUME NEW c \in Caller, SelectPage(c) PROVE WalkInv'
  BY <1>1, SelectKeepsWalk
<1>2. ASSUME NEW c \in Caller, CountPage(c) PROVE WalkInv'
  BY <1>2, CountKeepsWalk
<1>3. ASSUME NEW c \in Caller, Authorize(c) \/ RefuseRead(c) \/ BadCursor(c) \/ Summary(c)
      PROVE  WalkInv'
  <2>1. walk' = walk /\ got' = got /\ owed' = owed
    BY <1>3 DEF Authorize, RefuseRead, BadCursor, Summary, historyVars
  <2>2. \/ stage' = stage \/ stage' = [stage EXCEPT ![c] = "admitted"]
        \/ stage' = [stage EXCEPT ![c] = "idle"]
    BY <1>3 DEF Authorize, RefuseRead, BadCursor, Summary
  <2>3. /\ stage' \in [Caller -> Stages]
        /\ \A d \in Caller : stage'[d] = "counted" => stage[d] = "counted"
    BY <1>0, <2>2 DEF Stages
  <2> QED
    BY <2>1, <2>3, OthersKeepWalk
<1>4. ASSUME NEW p \in Process, KillProcess(p) PROVE WalkInv'
  <2>1. walk' = walk /\ got' = got /\ owed' = owed
    BY <1>4 DEF KillProcess
  <2>2. stage' = stage \/ stage' = [c \in Caller |-> "idle"]
    BY <1>4 DEF KillProcess
  <2>3. /\ stage' \in [Caller -> Stages]
        /\ \A d \in Caller : stage'[d] = "counted" => stage[d] = "counted"
    BY <1>0, <2>2 DEF Stages
  <2> QED
    BY <2>1, <2>3, OthersKeepWalk
<1>5. CASE \/ \E t \in Thread, e \in Entry : Insert(t, e) /\ UNCHANGED adminVars
           \/ \E t \in Thread : (WriteStep(t) \/ StatementFails(t)) /\ UNCHANGED adminVars
           \/ CloseConnections \/ Tick \/ UNCHANGED vars
  <2>1. walk' = walk /\ got' = got /\ owed' = owed /\ stage' = stage
    BY <1>5 DEF CloseConnections, Tick, vars, adminVars, historyVars
  <2> QED
    BY <1>0, <2>1, OthersKeepWalk
<1>6. ASSUME NEW c \in Caller, SelectFails(c) PROVE WalkInv'
  BY <1>6, FailKeepsWalk
<1> QED
  BY <1>1, <1>2, <1>3, <1>4, <1>5, <1>6 DEF Next

LEMMA WalkInvariance == Spec => [](TypeOK /\ LimiterInv /\ WalkInv)
<1>1. Spec => []TypeOK
  BY RouterKeepsStore, TypeCorrect, PTL
<1>2. LimiterInv => clock \in Nat
  BY DEF LimiterInv
<1>3. TypeOK /\ LimiterInv /\ WalkInv /\ [Next]_vars => WalkInv'
  BY <1>2, NextWalkInv
<1>4. Spec => []LimiterInv
  BY LimiterInit, NextLimiterInv, PTL DEF Spec
<1> QED
  BY <1>1, <1>3, <1>4, WalkInit, PTL DEF Spec

\* Every variable of router and store keeps its type, and the limiter never
\* holds more than Limit hits of a principal.
THEOREM AdminTypeCorrect == Spec => []AdminTypeOK
<1>1. TypeOK /\ LimiterInv /\ ReadInv /\ WalkInv => AdminTypeOK
  BY DEF LimiterInv, Tied, ReadInv, WalkInv, AdminTypeOK
<1>2. Spec => []ReadInv
  BY ReadInit, NextReadInv, PTL DEF Spec
<1> QED
  BY <1>1, <1>2, WalkInvariance, PTL

\* A client that follows next_cursor to the end has been given every row of
\* its window that was there for every page, whatever was written and pruned
\* meanwhile and whatever the page size (query, _cursor_encode).
THEOREM WalkCompletes == Spec => []WalkIsComplete
<1>1. WalkInv => WalkIsComplete
  BY DEF WalkInv
<1> QED
  BY <1>1, WalkInvariance, PTL

\* ... and no page finds a row the walk has returned already.
THEOREM NoRowReturnsTwice == Spec => NoRowTwice
<1>1. TypeOK /\ WalkInv =>
        [\A c \in Caller : SelectPage(c) => Found(c) \intersect got[c] = {}]_vars
  BY FoundIsNew DEF SelectPage
<1> QED
  BY <1>1, WalkInvariance, PTL DEF NoRowTwice
=============================================================================
