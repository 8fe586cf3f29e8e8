----------------------------- MODULE TimerProofs -----------------------------
(***************************************************************************)
(* Proofs about Timer, for any number of sleepers, any tick period and any *)
(* sleep times.                                                            *)
(***************************************************************************)
EXTENDS Timer, SequenceTheorems, WellFoundedInduction, TLAPS

\* The hardware is armed or its interrupt is pending, one of the two.  Once the
\* first tick has been taken, an armed timer fires no later than the next tick
\* and no later than any alarm.
Armed ==
    /\ stip <=> ~mtie
    /\ next_tick > 0 /\ mtie =>
         /\ mtcmp <= next_tick
         /\ \A t \in Range(sleep_list) : mtcmp <= twake[t]

\* A thread that is not sleeping has an alarm in the past.
OutIsPast == \A t \in Threads : pc[t] = "out" => twake[t] <= mtime

IInv == ListSound /\ Armed /\ OutIsPast

-----------------------------------------------------------------------------
(* Lists *)

\* A set of naturals that is not empty has a least element.
LEMMA LeastNat ==
  ASSUME NEW T, T \subseteq Nat, T # {}
  PROVE  \E n \in T : \A m \in T : n <= m
<1> DEFINE R == {ss \in Nat \X Nat : ss[1] < ss[2]}
<1>1. IsWellFoundedOn(R, Nat)
    BY NatLessThanWellFounded, Zenon DEF OpToRel
<1>2. PICK n \in T : \A m \in T : ~(<<m, n>> \in R)
    <2> HIDE DEF R
    <2> QED BY Zenon, <1>1, WFMin
<1>3. ASSUME NEW m \in T, m < n PROVE FALSE
    <2>1. <<m, n>> \in R
        BY <1>3
    <2> QED BY <1>2, <2>1
<1>4. n \in Nat /\ T \subseteq Nat
    OBVIOUS
<1> QED BY <1>3, <1>4

\* A walk down a list stops: at the first place in Stop or at the end.
LEMMA Walk ==
  ASSUME NEW len \in Nat, NEW Stop
  PROVE  \E i \in 0 .. len : /\ \A j \in 1 .. i : j \notin Stop
                             /\ i < len => i + 1 \in Stop
<1> DEFINE T == {i \in Nat : i = len \/ (i < len /\ i + 1 \in Stop)}
<1>1. T \subseteq Nat /\ T # {}
    OBVIOUS
<1>2. PICK i \in T : \A m \in T : i <= m
    <2> HIDE DEF T
    <2> QED BY Zenon, <1>1, LeastNat
<1>3. i \in 0 .. len /\ (i < len => i + 1 \in Stop)
    OBVIOUS
<1>4. ASSUME NEW j \in 1 .. i, j \in Stop PROVE FALSE
    <2>1. j - 1 \in Nat /\ j - 1 < i /\ j - 1 < len /\ (j - 1) + 1 = j
        BY <1>3
    <2>2. j - 1 \in T
        BY <1>4, <2>1
    <2> QED BY <1>2, <2>1, <2>2
<1> QED BY <1>3, <1>4

Spliced(s, k, t) == SubSeq(s, 1, k) \o <<t>> \o SubSeq(s, k + 1, Len(s))

LEMMA Splice ==
  ASSUME NEW s \in Seq(Threads), NEW k \in 0 .. Len(s), NEW t \in Threads
  PROVE  /\ Spliced(s, k, t) \in Seq(Threads)
         /\ Len(Spliced(s, k, t)) = Len(s) + 1
         /\ \A i \in 1 .. Len(s) + 1 :
              Spliced(s, k, t)[i] = IF i <= k THEN s[i] ELSE IF i = k + 1 THEN t ELSE s[i - 1]
<1> DEFINE a == SubSeq(s, 1, k)
           c == SubSeq(s, k + 1, Len(s))
           m == <<t>>
<1>0. Len(s) \in Nat /\ k \in Nat /\ k <= Len(s) /\ \A i \in 1 .. Len(s) : s[i] \in Threads
    BY LenProperties
<1>1. a \in Seq(Threads) /\ Len(a) = k /\ \A i \in 1 .. k : a[i] = s[i]
    BY <1>0
<1>2. c \in Seq(Threads) /\ Len(c) = Len(s) - k /\ \A i \in 1 .. Len(s) - k : c[i] = s[k + i]
    BY <1>0
<1>3. m \in Seq(Threads) /\ Len(m) = 1 /\ m[1] = t
    OBVIOUS
<1> HIDE DEF a, c, m
<1> DEFINE am == a \o m
<1>4. /\ am \in Seq(Threads) /\ Len(am) = Len(a) + Len(m)
      /\ \A i \in 1 .. Len(a) + Len(m) : am[i] = IF i <= Len(a) THEN a[i] ELSE m[i - Len(a)]
    BY Zenon, <1>1, <1>3, ConcatProperties
<1> HIDE DEF am
<1>5. /\ am \o c \in Seq(Threads) /\ Len(am \o c) = Len(am) + Len(c)
      /\ \A i \in 1 .. Len(am) + Len(c) :
           (am \o c)[i] = IF i <= Len(am) THEN am[i] ELSE c[i - Len(am)]
    <2>1. am \in Seq(Threads) /\ c \in Seq(Threads)
        BY <1>2, <1>4
    <2> QED BY <2>1, ConcatProperties
<1>6. Len(am) = k + 1 /\ Len(am \o c) = Len(s) + 1
    BY <1>0, <1>1, <1>2, <1>3, <1>4, <1>5
<1>7. ASSUME NEW i \in 1 .. Len(s) + 1
      PROVE  (am \o c)[i] = IF i <= k THEN s[i] ELSE IF i = k + 1 THEN t ELSE s[i - 1]
    <2>1. CASE i <= k
        BY <1>0, <1>1, <1>2, <1>3, <1>4, <1>5, <2>1
    <2>2. CASE i = k + 1
        BY <1>0, <1>1, <1>2, <1>3, <1>4, <1>5, <2>2
    <2>3. CASE i > k + 1
        <3>1. i - (k + 1) \in 1 .. Len(s) - k /\ k + (i - (k + 1)) = i - 1
            BY <1>0, <2>3
        <3>2. (am \o c)[i] = c[i - (k + 1)]
            BY <1>0, <1>2, <1>5, <1>6, <2>3
        <3>3. c[i - (k + 1)] = s[k + (i - (k + 1))]
            BY <1>2, <3>1
        <3> QED BY <1>0, <2>3, <3>1, <3>2, <3>3
    <2>4. i <= k \/ i = k + 1 \/ i > k + 1
        BY <1>0
    <2> QED BY Zenon, <2>1, <2>2, <2>3, <2>4
<1> QED BY Zenon, <1>5, <1>6, <1>7 DEF a, c, m, am, Spliced

LEMMA Cut ==
  ASSUME NEW s \in Seq(Threads), NEW k \in 0 .. Len(s)
  PROVE  /\ SubSeq(s, k + 1, Len(s)) \in Seq(Threads)
         /\ Len(SubSeq(s, k + 1, Len(s))) = Len(s) - k
         /\ \A i \in 1 .. Len(s) - k : SubSeq(s, k + 1, Len(s))[i] = s[k + i]
         /\ SubSeq(s, 1, k) \in Seq(Threads)
         /\ Len(SubSeq(s, 1, k)) = k
         /\ \A i \in 1 .. k : SubSeq(s, 1, k)[i] = s[i]
<1>0. Len(s) \in Nat /\ k \in Nat /\ k <= Len(s) /\ \A i \in 1 .. Len(s) : s[i] \in Threads
    BY LenProperties
<1> QED BY <1>0

LEMMA ListType ==
  ASSUME TypeOK
  PROVE  /\ Len(sleep_list) \in Nat /\ DOMAIN sleep_list = 1 .. Len(sleep_list)
         /\ \A i \in 1 .. Len(sleep_list) : sleep_list[i] \in Threads
         /\ \A t \in Threads : twake[t] \in Nat /\ twake[t] <= UINT64_MAX
         /\ mtime \in Nat /\ mtime < UINT64_MAX
         /\ mtcmp \in Nat /\ next_tick \in Nat
<1>1. sleep_list \in Seq(Threads)
    BY DEF TypeOK
<1>2. /\ Len(sleep_list) \in Nat /\ DOMAIN sleep_list = 1 .. Len(sleep_list)
      /\ \A i \in 1 .. Len(sleep_list) : sleep_list[i] \in Threads
    BY <1>1, LenProperties
<1> QED BY <1>2, TimerAssumption DEF TypeOK

\* Where the loop of alarm_sleep puts t, and what the list is then: t added,
\* nothing lost, still in order.
LEMMA InsertList ==
  ASSUME TypeOK, Sorted, IsInjective(sleep_list), NEW t \in Threads, t \notin Range(sleep_list)
  PROVE  LET r == insert(sleep_list, t)
         IN  /\ r \in Seq(Threads)
             /\ Range(r) = Range(sleep_list) \cup {t}
             /\ IsInjective(r)
             /\ \A i, j \in DOMAIN r : i < j => twake[r[i]] <= twake[r[j]]
<1> DEFINE s == sleep_list
           n == Len(s)
           Place(i) == /\ \A j \in 1 .. i : twake[s[j]] < twake[t]
                       /\ i < n => twake[t] <= twake[s[i + 1]]
           k == CHOOSE i \in 0 .. n : Place(i)
           r == Spliced(s, k, t)
<1>1. /\ s \in Seq(Threads) /\ n \in Nat /\ DOMAIN s = 1 .. n /\ \A i \in 1 .. n : s[i] \in Threads
      /\ \A u \in Threads : twake[u] \in Nat
    BY ListType DEF TypeOK
<1>2. k \in 0 .. n /\ Place(k)
    <2> DEFINE Stop == {j \in 1 .. n : twake[t] <= twake[s[j]]}
    <2>1. PICK i \in 0 .. n : (\A j \in 1 .. i : j \notin Stop) /\ (i < n => i + 1 \in Stop)
        <3> HIDE DEF Stop
        <3> QED BY Zenon, <1>1, Walk
    <2>2. Place(i)
        BY <1>1, <2>1
    <2> HIDE DEF Place
    <2> QED BY <2>2
<1>3. insert(sleep_list, t) = r
    BY DEF insert, Spliced
<1> HIDE DEF k
<1>4. /\ r \in Seq(Threads) /\ Len(r) = n + 1
      /\ \A i \in 1 .. n + 1 :
           r[i] = IF i <= k THEN s[i] ELSE IF i = k + 1 THEN t ELSE s[i - 1]
    <2>1. s \in Seq(Threads) /\ k \in 0 .. Len(s)
        BY <1>1, <1>2
    <2> QED BY <2>1, Splice
<1> HIDE DEF r
<1> DEFINE old(i) == IF i <= k THEN i ELSE i - 1
<1>5. DOMAIN r = 1 .. n + 1
    BY <1>4, LenProperties
<1>9. /\ k + 1 \in 1 .. n + 1 /\ r[k + 1] = t
      /\ \A i \in 1 .. n + 1 : i # k + 1 => old(i) \in 1 .. n /\ r[i] = s[old(i)]
      /\ \A i, j \in 1 .. n + 1 : i # k + 1 /\ j # k + 1 /\ i < j => old(i) < old(j)
    BY <1>1, <1>2, <1>4
<1> HIDE DEF old
<1>6. Range(r) = Range(s) \cup {t}
    <2>1. ASSUME NEW i \in 1 .. n + 1 PROVE r[i] \in Range(s) \cup {t}
        BY <1>1, <1>9 DEF Range
    <2>2. ASSUME NEW i \in 1 .. n PROVE \E j \in 1 .. n + 1 : r[j] = s[i]
        <3>1. CASE i <= k
            BY <1>1, <1>2, <1>4, <3>1
        <3>2. CASE i > k
            <4>1. i + 1 \in 1 .. n + 1 /\ ~(i + 1 <= k) /\ i + 1 # k + 1 /\ (i + 1) - 1 = i
                BY <1>1, <1>2, <3>2
            <4> QED BY <1>4, <4>1
        <3> QED BY <1>1, <1>2, <3>1, <3>2
    <2> QED BY <1>1, <1>5, <1>9, <2>1, <2>2 DEF Range
<1>7. IsInjective(r)
    <2> SUFFICES ASSUME NEW i \in 1 .. n + 1, NEW j \in 1 .. n + 1, i < j, r[i] = r[j] PROVE FALSE
        BY <1>1, <1>5 DEF IsInjective
    <2>1. \A a \in 1 .. n : s[a] # t
        BY <1>1 DEF Range
    <2>2. \A a, b \in 1 .. n : a < b => s[a] # s[b]
        BY <1>1 DEF IsInjective
    <2> QED BY <1>9, <2>1, <2>2
<1>8. ASSUME NEW i \in 1 .. n + 1, NEW j \in 1 .. n + 1, i < j PROVE twake[r[i]] <= twake[r[j]]
    <2>1. \A a, b \in 1 .. n : a <= b => twake[s[a]] <= twake[s[b]]
        BY <1>1 DEF Sorted
    <2>2. \A a \in 1 .. n : twake[s[a]] \in Nat
        BY <1>1
    <2>3. CASE j <= k
        BY <1>1, <1>2, <1>4, <1>8, <2>1, <2>3
    <2>4. CASE j = k + 1
        BY <1>1, <1>2, <1>4, <1>8, <2>2, <2>4
    <2>5. CASE j > k + 1 /\ i # k + 1
        <3>1. j # k + 1
            BY <1>1, <1>2, <2>5
        <3>2. old(i) \in 1 .. n /\ old(j) \in 1 .. n /\ old(i) < old(j)
            BY <1>8, <1>9, <2>5, <3>1
        <3>3. old(i) <= old(j)
            BY <1>1, <3>2
        <3> QED BY <1>9, <2>1, <2>5, <3>1, <3>2, <3>3
    <2>6. CASE j > k + 1 /\ i = k + 1
        <3>1. k + 1 \in 1 .. n /\ j - 1 \in 1 .. n /\ k + 1 <= j - 1 /\ k < n
            BY <1>1, <1>2, <2>6
        <3>2. twake[t] <= twake[s[k + 1]] /\ twake[s[k + 1]] <= twake[s[j - 1]]
            BY <1>2, <2>1, <3>1
        <3>3. r[i] = t /\ r[j] = s[j - 1]
            BY <1>1, <1>2, <1>4, <2>6
        <3> QED BY <1>1, <2>2, <3>1, <3>2, <3>3
    <2> QED BY <1>1, <1>2, <2>3, <2>4, <2>5, <2>6
<1> QED BY <1>3, <1>4, <1>5, <1>6, <1>7, <1>8

\* What the loop of timer_intr_handler takes from the list and what it leaves.
Taken == Range(SubSeq(sleep_list, 1, due))
Rest == SubSeq(sleep_list, due + 1, Len(sleep_list))

LEMMA DueList ==
  ASSUME TypeOK, Sorted, IsInjective(sleep_list)
  PROVE  /\ Rest \in Seq(Threads)
         /\ Range(Rest) = Range(sleep_list) \ Taken
         /\ \A t \in Taken : t \in Range(sleep_list) /\ twake[t] <= mtime
         /\ IsInjective(Rest)
         /\ \A i, j \in DOMAIN Rest : i < j => twake[Rest[i]] <= twake[Rest[j]]
<1> DEFINE s == sleep_list
           n == Len(s)
           Place(i) == /\ \A j \in 1 .. i : twake[s[j]] <= mtime
                       /\ i < n => twake[s[i + 1]] > mtime
           k == CHOOSE i \in 0 .. n : Place(i)
<1>1. /\ s \in Seq(Threads) /\ n \in Nat /\ DOMAIN s = 1 .. n /\ \A i \in 1 .. n : s[i] \in Threads
      /\ \A u \in Threads : twake[u] \in Nat
      /\ mtime \in Nat
    BY ListType DEF TypeOK
<1>2. k \in 0 .. n /\ Place(k)
    <2> DEFINE Stop == {j \in 1 .. n : twake[s[j]] > mtime}
    <2>1. PICK i \in 0 .. n : (\A j \in 1 .. i : j \notin Stop) /\ (i < n => i + 1 \in Stop)
        <3> HIDE DEF Stop
        <3> QED BY Zenon, <1>1, Walk
    <2>2. Place(i)
        BY <1>1, <2>1
    <2> HIDE DEF Place
    <2> QED BY <2>2
<1>3. due = k
    BY DEF due
<1> HIDE DEF k
<1> DEFINE a == SubSeq(s, 1, k)
           c == SubSeq(s, k + 1, n)
<1>4. /\ c \in Seq(Threads) /\ Len(c) = n - k /\ \A i \in 1 .. n - k : c[i] = s[k + i]
      /\ a \in Seq(Threads) /\ Len(a) = k /\ \A i \in 1 .. k : a[i] = s[i]
    <2>1. s \in Seq(Threads) /\ k \in 0 .. Len(s)
        BY <1>1, <1>2
    <2> QED BY <2>1, Cut
<1>5. Taken = Range(a) /\ Rest = c
    BY <1>3 DEF Taken, Rest
<1> HIDE DEF a, c
<1>6. DOMAIN a = 1 .. k /\ DOMAIN c = 1 .. n - k
    BY <1>4, LenProperties
<1>7. \A i, j \in 1 .. n : s[i] = s[j] => i = j
    BY <1>1 DEF IsInjective
<1>8. Range(a) = {s[i] : i \in 1 .. k} /\ Range(s) = {s[i] : i \in 1 .. n}
    <2>1. Range(a) = {a[i] : i \in 1 .. k} /\ Range(s) = {s[i] : i \in 1 .. n}
        <3> HIDE DEF s, n, Place
        <3> QED BY <1>1, <1>6 DEF Range
    <2>2. {a[i] : i \in 1 .. k} = {s[i] : i \in 1 .. k}
        <3>1. \A i \in 1 .. k : a[i] = s[i]
            BY <1>4
        <3> HIDE DEF s
        <3> QED BY <3>1, Zenon
    <2> QED BY Zenon, <2>1, <2>2
<1>9. Range(c) = Range(s) \ Range(a)
    <2>1. ASSUME NEW i \in 1 .. n - k PROVE c[i] \in Range(s) \ Range(a)
        <3>1. k + i \in 1 .. n /\ c[i] = s[k + i] /\ \A j \in 1 .. k : j \in 1 .. n /\ j # k + i
            BY <1>1, <1>2, <1>4
        <3> QED BY <1>7, <1>8, <3>1
    <2>2. ASSUME NEW i \in 1 .. n, i \notin 1 .. k PROVE \E j \in 1 .. n - k : c[j] = s[i]
        <3>1. i - k \in 1 .. n - k /\ k + (i - k) = i
            BY <1>1, <1>2, <2>2
        <3> QED BY <1>4, <3>1
    <2>3. Range(c) = {c[i] : i \in 1 .. n - k}
        BY <1>6 DEF Range
    <2> QED BY <1>8, <2>1, <2>2, <2>3
<1>10. \A t \in Range(a) : t \in Range(s) /\ twake[t] <= mtime
    BY <1>1, <1>2, <1>8
<1>11. ASSUME NEW i \in 1 .. n - k, NEW j \in 1 .. n - k
       PROVE  /\ c[i] = c[j] => i = j
              /\ i < j => twake[c[i]] <= twake[c[j]]
    <2>1. k + i \in 1 .. n /\ k + j \in 1 .. n /\ (i < j => k + i < k + j) /\ (k + i = k + j => i = j)
        BY <1>1, <1>2
    <2>2. c[i] = s[k + i] /\ c[j] = s[k + j]
        BY <1>4
    <2> QED BY <1>1, <1>7, <2>1, <2>2 DEF Sorted
<1>12. IsInjective(c) /\ \A i, j \in DOMAIN c : i < j => twake[c[i]] <= twake[c[j]]
    BY <1>6, <1>11 DEF IsInjective
<1> QED BY <1>4, <1>5, <1>9, <1>10, <1>12

-----------------------------------------------------------------------------
(* The invariant *)

\* The first alarm of a list is the soonest.
LEMMA HeadFirst ==
  ASSUME NEW s \in Seq(Threads), s # <<>>,
         \A i, j \in DOMAIN s : i < j => twake[s[i]] <= twake[s[j]],
         \A t \in Threads : twake[t] \in Nat
  PROVE  /\ Head(s) \in Threads
         /\ \A t \in Range(s) : twake[Head(s)] <= twake[t]
<1>1. Len(s) \in Nat /\ Len(s) # 0 /\ DOMAIN s = 1 .. Len(s) /\ \A i \in 1 .. Len(s) : s[i] \in Threads
    BY LenProperties, EmptySeq
<1>2. Head(s) = s[1] /\ 1 \in 1 .. Len(s)
    BY <1>1
<1>3. ASSUME NEW i \in 1 .. Len(s) PROVE twake[s[1]] <= twake[s[i]]
    BY <1>1, <1>2
<1> QED BY <1>1, <1>2, <1>3 DEF Range

LEMMA InitOK == timer_init => IInv
<1> SUFFICES ASSUME timer_init PROVE IInv
    OBVIOUS
<1>1. TypeOK
    <2>1. mtime \in 0 .. TMAX /\ mtcmp \in Nat /\ next_tick \in Nat
          /\ twake \in [Threads -> 0 .. UINT64_MAX]
        BY TimerAssumption DEF timer_init
    <2>2. sleep_list \in Seq(Threads)
        BY DEF timer_init
    <2>3. mtie \in BOOLEAN /\ stip \in BOOLEAN
        BY Zenon DEF timer_init
    <2>4. pc \in [Threads -> {"out", "insert", "wait", "sleep"}]
        BY DEF timer_init
    <2> QED BY <2>1, <2>2, <2>3, <2>4 DEF TypeOK
<1>2. DOMAIN sleep_list = {} /\ Range(sleep_list) = {}
    BY DEF timer_init, Range
<1>3. Sorted /\ SleepersListed
    BY <1>2 DEF Sorted, SleepersListed, IsInjective, timer_init
<1>4. Armed /\ OutIsPast
    BY DEF Armed, OutIsPast, timer_init
<1> QED BY <1>1, <1>3, <1>4 DEF IInv, ListSound

\* A step that leaves the list and its alarms alone keeps it sound.
LEMMA SameList ==
  ASSUME ListSound, TypeOK', sleep_list' = sleep_list,
         \A t \in Range(sleep_list) : twake'[t] = twake[t],
         \A t \in Threads : pc'[t] \in {"wait", "sleep"} <=> pc[t] \in {"wait", "sleep"}
  PROVE  ListSound'
<1>1. \A i \in DOMAIN sleep_list : sleep_list[i] \in Range(sleep_list)
    BY DEF Range
<1>2. Sorted'
    BY <1>1 DEF ListSound, Sorted
<1>3. SleepersListed'
    BY DEF ListSound, SleepersListed
<1> QED BY <1>2, <1>3 DEF ListSound

LEMMA LaterType ==
  ASSUME TypeOK, NEW t \in Threads, NEW k \in Sleeps
  PROVE  later(t, k) \in 0 .. UINT64_MAX /\ twake[t] <= later(t, k)
<1>1. twake[t] \in Nat /\ twake[t] <= UINT64_MAX /\ k \in Nat /\ UINT64_MAX \in Nat
    BY ListType, TimerAssumption
<1> QED BY <1>1 DEF later

LEMMA ResetOK ==
  ASSUME IInv, NEW t \in Threads, alarm_reset(t)
  PROVE  IInv'
<1>1. TypeOK /\ t \notin Range(sleep_list)
    BY DEF IInv, ListSound, SleepersListed, alarm_reset
<1>2. /\ UNCHANGED <<mtime, mtcmp, mtie, stip, sleep_list, next_tick, pc>>
      /\ twake' = [twake EXCEPT ![t] = mtime]
    BY DEF alarm_reset, hardware
<1>3. mtime \in 0 .. UINT64_MAX
    BY <1>1, TimerAssumption DEF TypeOK
<1>4. TypeOK'
    BY <1>1, <1>2, <1>3 DEF TypeOK
<1>5. twake'[t] = mtime /\ \A u \in Threads : u # t => twake'[u] = twake[u]
    BY <1>1, <1>2 DEF TypeOK
<1>6. \A u \in Range(sleep_list) : u \in Threads /\ twake'[u] = twake[u]
    BY <1>1, <1>5, ListType DEF Range
<1>7. ListSound'
    BY <1>2, <1>4, <1>6, SameList DEF IInv
<1>8. Armed'
    BY <1>2, <1>6 DEF IInv, Armed
<1>9. OutIsPast'
    BY <1>1, <1>2, <1>5, ListType DEF IInv, OutIsPast
<1> QED BY <1>7, <1>8, <1>9 DEF IInv

LEMMA SleepOK ==
  ASSUME IInv, NEW t \in Threads, NEW k \in Sleeps, alarm_sleep(t, k)
  PROVE  IInv'
<1>1. TypeOK /\ t \notin Range(sleep_list)
    BY DEF IInv, ListSound, SleepersListed, alarm_sleep
<1>2. /\ UNCHANGED <<mtime, mtcmp, mtie, stip, sleep_list, next_tick>> /\ pc[t] = "out"
      /\ twake' = [twake EXCEPT ![t] = later(t, k)]
      /\ pc' = [pc EXCEPT ![t] = IF twake'[t] < mtime THEN "out" ELSE "insert"]
    BY DEF alarm_sleep, hardware
<1>3. later(t, k) \in 0 .. UINT64_MAX
    BY <1>1, LaterType
<1>4. TypeOK'
    BY <1>1, <1>2, <1>3 DEF TypeOK
<1>5. /\ \A u \in Threads : u # t => twake'[u] = twake[u] /\ pc'[u] = pc[u]
      /\ pc'[t] = IF twake'[t] < mtime THEN "out" ELSE "insert"
    BY <1>1, <1>2 DEF TypeOK
<1>6. \A u \in Range(sleep_list) : u \in Threads /\ twake'[u] = twake[u]
    BY <1>1, <1>5, ListType DEF Range
<1>7. ListSound'
    <2>1. \A u \in Threads : pc'[u] \in {"wait", "sleep"} <=> pc[u] \in {"wait", "sleep"}
        BY <1>2, <1>5
    <2> QED BY <1>2, <1>4, <1>6, <2>1, SameList DEF IInv
<1>8. Armed'
    BY <1>2, <1>6 DEF IInv, Armed
<1>9. OutIsPast'
    <2>1. twake'[t] \in Nat /\ mtime \in Nat
        BY <1>4, <1>1, ListType DEF TypeOK
    <2> QED BY <1>2, <1>5, <2>1 DEF IInv, OutIsPast
<1> QED BY <1>7, <1>8, <1>9 DEF IInv

LEMMA InsertOK ==
  ASSUME IInv, NEW t \in Threads, Insert(t)
  PROVE  IInv'
<1> DEFINE first == sleep_list # <<>> => twake[t] <= twake[Head(sleep_list)]
<1>1. /\ TypeOK /\ Sorted /\ IsInjective(sleep_list) /\ t \notin Range(sleep_list) /\ pc[t] = "insert"
      /\ \A u \in Threads : u \in Range(sleep_list) <=> pc[u] \in {"wait", "sleep"}
    BY DEF IInv, ListSound, SleepersListed, Insert
<1>2. /\ sleep_list' = insert(sleep_list, t) /\ UNCHANGED <<mtime, next_tick, twake>>
      /\ pc' = [pc EXCEPT ![t] = "wait"]
      /\ \/ first /\ twake[t] < next_tick /\ mtcmp' = twake[t] /\ mtie' = TRUE /\ stip' = FALSE
         \/ ~(first /\ twake[t] < next_tick) /\ UNCHANGED <<mtcmp, mtie, stip>>
    BY DEF Insert
<1>3. /\ sleep_list' \in Seq(Threads)
      /\ Range(sleep_list') = Range(sleep_list) \cup {t}
      /\ IsInjective(sleep_list')
      /\ \A i, j \in DOMAIN sleep_list' : i < j => twake[sleep_list'[i]] <= twake[sleep_list'[j]]
    BY <1>1, <1>2, InsertList
<1>4. /\ \A u \in Threads : twake[u] \in Nat /\ twake[u] <= UINT64_MAX
      /\ mtcmp \in Nat /\ next_tick \in Nat
    BY <1>1, ListType
<1>5. pc'[t] = "wait" /\ \A u \in Threads : u # t => pc'[u] = pc[u]
    BY <1>1, <1>2 DEF TypeOK
<1>6. TypeOK'
    <2>1. mtcmp' \in Nat /\ mtie' \in BOOLEAN /\ stip' \in BOOLEAN
        BY Zenon, <1>1, <1>2, <1>4 DEF TypeOK
    <2> QED BY <1>1, <1>2, <1>3, <2>1 DEF TypeOK
<1>7. ListSound'
    BY <1>1, <1>2, <1>3, <1>5, <1>6 DEF ListSound, Sorted, SleepersListed
<1>8. \A u \in Range(sleep_list) : u \in Threads
    BY <1>1, ListType DEF Range
<1>9. sleep_list # <<>> => /\ Head(sleep_list) \in Threads
                           /\ Head(sleep_list) \in Range(sleep_list)
                           /\ \A u \in Range(sleep_list) : twake[Head(sleep_list)] <= twake[u]
    <2> SUFFICES ASSUME sleep_list # <<>>
                 PROVE  /\ Head(sleep_list) \in Threads
                        /\ Head(sleep_list) \in Range(sleep_list)
                        /\ \A u \in Range(sleep_list) : twake[Head(sleep_list)] <= twake[u]
        OBVIOUS
    <2>1. Head(sleep_list) = sleep_list[1] /\ 1 \in DOMAIN sleep_list
        BY <1>1, EmptySeq, LenProperties DEF TypeOK
    <2>2. Head(sleep_list) \in Range(sleep_list)
        BY <2>1 DEF Range
    <2> QED BY SMTT(30), <1>1, <1>4, <2>2, HeadFirst DEF TypeOK, Sorted
<1>10. sleep_list = <<>> => Range(sleep_list) = {}
    BY DEF Range
<1>11. Armed'
    <2>1. CASE first /\ twake[t] < next_tick /\ mtcmp' = twake[t] /\ mtie' = TRUE /\ stip' = FALSE
        <3>1. \A u \in Range(sleep_list) \cup {t} : twake[t] <= twake[u]
            BY <1>4, <1>8, <1>9, <1>10, <2>1
        <3>2. twake[t] <= next_tick
            BY <1>4, <2>1
        <3> QED BY <1>2, <1>3, <2>1, <3>1, <3>2 DEF Armed
    <2>2. CASE ~(first /\ twake[t] < next_tick) /\ UNCHANGED <<mtcmp, mtie, stip>>
        <3>1. stip <=> ~mtie
            BY DEF IInv, Armed
        <3>2. ASSUME next_tick > 0, mtie
              PROVE  mtcmp <= next_tick /\ \A u \in Range(sleep_list) \cup {t} : mtcmp <= twake[u]
            <4>1. mtcmp <= next_tick /\ \A u \in Range(sleep_list) : mtcmp <= twake[u]
                BY <3>2 DEF IInv, Armed
            <4>2. mtcmp <= twake[t]
                BY <1>4, <1>9, <2>2, <4>1
            <4> QED BY <4>1, <4>2
        <3> QED BY <1>2, <1>3, <2>2, <3>1, <3>2 DEF Armed
    <2> QED BY Zenon, <1>2, <2>1, <2>2
<1>12. OutIsPast'
    BY <1>2, <1>5 DEF IInv, OutIsPast
<1> QED BY <1>7, <1>11, <1>12 DEF IInv

LEMMA HandlerOK ==
  ASSUME IInv, timer_intr_handler
  PROVE  IInv'
<1> DEFINE tick == IF next_tick < mtime THEN next_tick + TICK_PERIOD ELSE next_tick
<1>1. /\ TypeOK /\ Sorted /\ IsInjective(sleep_list)
      /\ \A u \in Threads : u \in Range(sleep_list) <=> pc[u] \in {"wait", "sleep"}
    BY DEF IInv, ListSound, SleepersListed
<1>2. /\ sleep_list' = Rest /\ next_tick' = tick /\ mtcmp' = rearm(Rest, tick)
      /\ stip' = FALSE /\ mtie' = TRUE /\ UNCHANGED <<mtime, twake>>
      /\ pc' = [t \in Threads |-> IF t \in Taken /\ pc[t] = "sleep" THEN "out" ELSE pc[t]]
      /\ \A t \in Threads : pc[t] # "wait"
    BY DEF timer_intr_handler, Rest, Taken, Masked
<1>3. /\ Rest \in Seq(Threads)
      /\ Range(Rest) = Range(sleep_list) \ Taken
      /\ \A t \in Taken : t \in Range(sleep_list) /\ twake[t] <= mtime
      /\ IsInjective(Rest)
      /\ \A i, j \in DOMAIN Rest : i < j => twake[Rest[i]] <= twake[Rest[j]]
    BY <1>1, DueList
<1>4. /\ \A u \in Threads : twake[u] \in Nat
      /\ tick \in Nat
    BY <1>1, ListType, TimerAssumption
<1> HIDE DEF tick
<1>5. \A u \in Range(Rest) : u \in Threads
    BY <1>1, <1>3, ListType DEF Range
<1>6. rearm(Rest, tick) \in Nat /\ rearm(Rest, tick) <= tick
      /\ \A u \in Range(Rest) : rearm(Rest, tick) <= twake[u]
    <2>1. CASE Rest = <<>>
        <3>1. Range(Rest) = {}
            BY <2>1 DEF Range
        <3> QED BY <1>4, <2>1, <3>1 DEF rearm
    <2>2. CASE Rest # <<>>
        <3>1. Head(Rest) \in Threads /\ \A u \in Range(Rest) : twake[Head(Rest)] <= twake[u]
            BY <1>3, <1>4, <2>2, HeadFirst
        <3> QED BY <1>4, <1>5, <2>2, <3>1 DEF rearm
    <2> QED BY <2>1, <2>2
<1>7. TypeOK'
    BY Zenon, <1>1, <1>2, <1>3, <1>4, <1>6 DEF TypeOK
<1>8. \A u \in Threads : /\ u \in Range(Rest) <=> pc'[u] \in {"wait", "sleep"}
                         /\ pc'[u] = "out" => pc[u] = "out" \/ twake[u] <= mtime
    BY <1>1, <1>2, <1>3
<1>9. ListSound'
    BY <1>2, <1>3, <1>7, <1>8 DEF ListSound, Sorted, SleepersListed
<1>10. Armed'
    BY <1>2, <1>6 DEF Armed
<1>11. OutIsPast'
    BY <1>2, <1>8 DEF IInv, OutIsPast
<1> QED BY <1>9, <1>10, <1>11 DEF IInv

LEMMA WaitOK ==
  ASSUME IInv, NEW t \in Threads, Wait(t)
  PROVE  IInv'
<1>1. TypeOK /\ ListSound /\ Armed /\ OutIsPast
    BY DEF IInv, ListSound
<1>2. /\ UNCHANGED <<mtime, mtcmp, mtie, stip, sleep_list, next_tick, twake>>
      /\ pc[t] = "wait" /\ pc' = [pc EXCEPT ![t] = "sleep"]
    BY DEF Wait, hardware
<1>3. TypeOK'
    BY <1>1, <1>2 DEF TypeOK
<1>4. pc'[t] = "sleep" /\ \A u \in Threads : u # t => pc'[u] = pc[u]
    BY <1>1, <1>2 DEF TypeOK
<1>5. ListSound'
    <2>1. \A u \in Threads : pc'[u] \in {"wait", "sleep"} <=> pc[u] \in {"wait", "sleep"}
        BY <1>2, <1>4
    <2> QED BY <1>1, <1>2, <1>3, <2>1, SameList
<1>6. Armed' /\ OutIsPast'
    BY <1>1, <1>2, <1>4 DEF Armed, OutIsPast
<1> QED BY <1>5, <1>6 DEF IInv

LEMMA TimeOK ==
  ASSUME IInv, Time
  PROVE  IInv'
<1>1. TypeOK /\ ListSound /\ Armed /\ OutIsPast
    BY DEF IInv, ListSound
<1>2. /\ UNCHANGED <<mtcmp, mtie, stip, sleep_list, next_tick, twake, pc>>
      /\ mtime < TMAX /\ mtime' = mtime + 1
    BY DEF Time
<1>3. TypeOK'
    BY <1>1, <1>2, TimerAssumption DEF TypeOK
<1>4. ListSound'
    BY <1>1, <1>2, <1>3, SameList
<1>5. Armed'
    BY <1>1, <1>2 DEF Armed
<1>6. OutIsPast'
    <2>1. mtime \in Nat /\ \A t \in Threads : twake[t] \in Nat
        BY <1>1, ListType DEF TypeOK
    <2> QED BY <1>1, <1>2, <2>1 DEF OutIsPast
<1> QED BY <1>4, <1>5, <1>6 DEF IInv

LEMMA MachineModeOK ==
  ASSUME IInv, mmode_intr_handler
  PROVE  IInv'
<1>1. TypeOK /\ ListSound /\ Armed /\ OutIsPast
    BY DEF IInv, ListSound
<1>2. /\ UNCHANGED <<mtime, mtcmp, sleep_list, next_tick, twake, pc>>
      /\ stip' = TRUE /\ mtie' = FALSE
    BY DEF mmode_intr_handler
<1>3. TypeOK'
    BY Zenon, <1>1, <1>2 DEF TypeOK
<1>4. ListSound'
    BY <1>1, <1>2, <1>3, SameList
<1>5. Armed' /\ OutIsPast'
    BY <1>1, <1>2 DEF Armed, OutIsPast
<1> QED BY <1>4, <1>5 DEF IInv

LEMMA StepOK == IInv /\ [Next]_vars => IInv'
<1> SUFFICES ASSUME IInv, [Next]_vars PROVE IInv'
    OBVIOUS
<1>1. CASE \E t \in Threads : alarm_reset(t)
    BY <1>1, ResetOK
<1>2. CASE \E t \in Threads : \E k \in Sleeps : alarm_sleep(t, k)
    BY <1>2, SleepOK
<1>3. CASE ThreadStep
    BY <1>3, InsertOK, WaitOK DEF ThreadStep
<1>4. CASE Time
    BY <1>4, TimeOK
<1>5. CASE mmode_intr_handler
    BY <1>5, MachineModeOK
<1>6. CASE timer_intr_handler
    BY <1>6, HandlerOK
<1>7. CASE UNCHANGED vars
    <2>1. UNCHANGED <<mtime, mtcmp, mtie, stip, sleep_list, next_tick, twake, pc>>
        BY <1>7 DEF vars, hardware
    <2>2. TypeOK' /\ Armed' /\ OutIsPast'
        BY <2>1 DEF IInv, ListSound, TypeOK, Armed, OutIsPast
    <2> QED BY <2>1, <2>2, SameList DEF IInv
<1> QED BY <1>1, <1>2, <1>3, <1>4, <1>5, <1>6, <1>7 DEF Next

LEMMA Invariant == Spec => []IInv
BY InitOK, StepOK, PTL DEF Spec

-----------------------------------------------------------------------------
(* Theorems *)

\* At every moment the sleep list holds the alarms of exactly the waiting
\* threads, each once and soonest first, however insertions, machine-mode
\* interrupts and the handler that takes alarms off the head interleave.
THEOREM SleepListIsSound == Spec => []ListSound
<1>1. IInv => ListSound
    BY DEF IInv
<1> QED BY <1>1, Invariant, PTL

\* No alarm is lost to re-arming: after the first tick a due alarm always has an
\* interrupt pending or about to be, although an insertion that re-arms the
\* timer clears a pending one.
THEOREM DueAlarmsInterrupt == Spec => []DueIsPending
<1>1. IInv => DueIsPending
    <2> SUFFICES ASSUME IInv, next_tick > 0, NEW t \in Range(sleep_list), twake[t] <= mtime
                 PROVE  stip \/ (mtie /\ mtcmp <= mtime)
        BY DEF DueIsPending
    <2>1. TypeOK /\ Armed
        BY DEF IInv, ListSound
    <2>2. twake[t] \in Nat /\ mtcmp \in Nat /\ mtime \in Nat
        BY <2>1, ListType DEF TypeOK, Range
    <2>3. CASE mtie
        BY <2>1, <2>2, <2>3 DEF Armed
    <2>4. CASE ~mtie
        BY <2>1, <2>4 DEF Armed
    <2> QED BY <2>3, <2>4
<1> QED BY <1>1, Invariant, PTL

\* alarm_sleep never returns early and wake-up times never move back, at any
\* sleep length: the sum in alarm_sleep saturates.
THEOREM AlarmsKeepTime == Spec => KeepsTime
<1> DEFINE Keeps == \A t \in Threads :
                       /\ pc[t] = "sleep" /\ pc'[t] # "sleep" => twake[t] <= mtime
                       /\ twake'[t] >= twake[t]
<1>1. ASSUME IInv, Next PROVE Keeps
    <2>1. TypeOK /\ OutIsPast /\ \A t \in Threads : twake[t] \in Nat
        BY <1>1, ListType DEF IInv, ListSound
    <2>2. ASSUME NEW t \in Threads, alarm_reset(t) PROVE Keeps
        <3>1. pc' = pc /\ twake[t] <= mtime
            BY <2>1, <2>2 DEF alarm_reset, OutIsPast
        <3>2. twake'[t] = mtime /\ \A u \in Threads : u # t => twake'[u] = twake[u]
            BY <2>1, <2>2 DEF alarm_reset, TypeOK
        <3> QED BY <2>1, <3>1, <3>2 DEF TypeOK
    <2>3. ASSUME NEW t \in Threads, NEW k \in Sleeps, alarm_sleep(t, k) PROVE Keeps
        <3>1. twake[t] <= later(t, k) /\ later(t, k) \in Nat
            BY <2>1, LaterType
        <3>2. /\ twake'[t] = later(t, k) /\ \A u \in Threads : u # t => twake'[u] = twake[u]
              /\ pc[t] = "out" /\ \A u \in Threads : u # t => pc'[u] = pc[u]
            BY <2>1, <2>3 DEF alarm_sleep, TypeOK
        <3> QED BY <2>1, <3>1, <3>2
    <2>4. ASSUME NEW t \in Threads, Insert(t) \/ Wait(t) PROVE Keeps
        <3>1. /\ twake' = twake /\ pc[t] # "sleep"
              /\ \A u \in Threads : u # t => pc'[u] = pc[u]
            BY <2>1, <2>4 DEF Insert, Wait, TypeOK
        <3> QED BY <2>1, <3>1
    <2>5. CASE Time \/ mmode_intr_handler
        BY <2>1, <2>5 DEF Time, mmode_intr_handler
    <2>6. CASE timer_intr_handler
        <3>1. \A t \in Taken : twake[t] <= mtime
            <4>1. TypeOK /\ Sorted /\ IsInjective(sleep_list)
                BY <1>1 DEF IInv, ListSound, SleepersListed
            <4> HIDE DEF Keeps
            <4> QED BY <4>1, DueList
        <3>2. twake' = twake /\ \A t \in Threads : pc'[t] # pc[t] => t \in Taken
            BY <2>6 DEF timer_intr_handler, Taken
        <3> QED BY <2>1, <3>1, <3>2
    <2> QED BY <1>1, <2>2, <2>3, <2>4, <2>5, <2>6 DEF Next, ThreadStep
<1>2. IInv /\ [Next]_vars => [Keeps]_vars
    BY <1>1
<1> QED BY <1>2, Invariant, PTL DEF Spec, KeepsTime
=============================================================================
