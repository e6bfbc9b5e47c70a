-------------------------- MODULE RateLimiter_proofs --------------------------
(***************************************************************************)
(* Proofs about RateLimiter, for all clients, limits and windows.          *)
(***************************************************************************)
EXTENDS RateLimiter, FiniteSetTheorems, TLAPS

USE LimiterAssumption

\* The requests of a client passed in the order of their times.
Ordered ==
  \A k \in Clients :
    /\ \A i \in 1 .. Len(granted[k]) : granted[k][i] <= now
    /\ \A i, j \in 1 .. Len(granted[k]) : i <= j => granted[k][i] <= granted[k][j]

\* The map may have dropped requests, but none that are still in the window.
Remembers == \A k \in Clients : InWindow(k) \subseteq Times(k)

LimiterInv == TypeOK /\ Ordered /\ Remembers /\ AtMostLimit

\* What a handler counts is what there is to count.
LEMMA ValidIsInWindow ==
  ASSUME TypeOK, Remembers, NEW k \in Clients
  PROVE  Valid(k) = InWindow(k)
<1>1. Times(k) \subseteq 1 .. Len(granted[k])
  BY DEF TypeOK, Times
<1>2. QED BY <1>1 DEF Remembers, Valid, InWindow

\* An interval of places is as large as it is long.
LEMMA PlacesAreFinite ==
  ASSUME NEW n \in Nat
  PROVE  /\ IsFiniteSet(1 .. n)
         /\ \A i \in 1 .. n : Cardinality(i .. n) = n - i + 1
BY FS_Interval

LEMMA WindowIsFinite ==
  ASSUME TypeOK, NEW k \in Clients
  PROVE  IsFiniteSet(InWindow(k)) /\ Cardinality(InWindow(k)) \in Nat
<1>1. PICK n \in Nat : n = Len(granted[k])
  BY DEF TypeOK
<1>2. InWindow(k) \subseteq 1 .. n /\ IsFiniteSet(1 .. n)
  BY <1>1, PlacesAreFinite DEF InWindow
<1>3. QED BY <1>2, FS_Subset, FS_CardinalityType

\* If a window has room, the request that passed Limit requests ago has left it.
LEMMA RoomMeansOld ==
  ASSUME LimiterInv, NEW k \in Clients, Cardinality(InWindow(k)) < Limit,
         NEW i \in 1 .. Len(granted[k]), i + Limit = Len(granted[k]) + 1
  PROVE  granted[k][i] + Window <= now
<1> DEFINE n == Len(granted[k])
           g == granted[k]
<1>0. /\ n \in Nat /\ g \in [1 .. n -> Nat]
      /\ n = Len(granted[k]) /\ g = granted[k]
  <2>1. granted[k] \in Seq(0 .. MaxTime)
    BY DEF LimiterInv, TypeOK
  <2>2. QED BY <2>1
<1> HIDE DEF n, g
<1>1. now \in Nat /\ Window \in Nat /\ Limit \in Nat /\ i \in 1 .. n
  BY <1>0 DEF LimiterInv, TypeOK
<1>2. CASE g[i] + Window > now
  <2>1. i .. n \subseteq InWindow(k)
    <3>1. ASSUME NEW j \in i .. n
          PROVE  j \in 1 .. n /\ g[j] + Window > now
      <4>1. j \in 1 .. n /\ i <= j
        BY <1>1
      <4>2. g[i] <= g[j]
        BY <1>0, <1>1, <4>1 DEF LimiterInv, Ordered
      <4>3. g[i] \in Nat /\ g[j] \in Nat
        BY <1>0, <1>1, <4>1
      <4>4. QED BY <1>1, <1>2, <4>1, <4>2, <4>3
    <3>2. QED BY <1>0, <3>1 DEF InWindow
  <2>2. Cardinality(i .. n) = Limit
    <3>1. Cardinality(i .. n) = n - i + 1
      BY <1>0, <1>1, PlacesAreFinite
    <3>2. QED BY <1>0, <1>1, <3>1
  <2>3. /\ Cardinality(i .. n) <= Cardinality(InWindow(k))
        /\ Cardinality(InWindow(k)) \in Nat
    BY <2>1, WindowIsFinite, FS_Subset DEF LimiterInv
  <2>4. QED BY <1>1, <2>2, <2>3
<1>3. CASE ~(g[i] + Window > now)
  <2>1. g[i] \in Nat
    BY <1>0, <1>1
  <2>2. QED BY <1>0, <1>1, <1>3, <2>1
<1>4. QED BY <1>2, <1>3

LEMMA InitInv == Init => LimiterInv
<1> SUFFICES ASSUME Init PROVE LimiterInv
  OBVIOUS
<1>1. TypeOK
  BY DEF Init, WindowInit, TypeOK, Answers
<1>2. Ordered /\ Remembers /\ AtMostLimit
  BY DEF Init, WindowInit, Ordered, Remembers, AtMostLimit, InWindow
<1>3. QED BY <1>1, <1>2 DEF LimiterInv

\* A refused request only drops what has left the window.
LEMMA RefusedKeepsInv ==
  ASSUME LimiterInv, NEW k \in Clients,
         UNCHANGED <<now, granted>>, answer' = [answer EXCEPT ![k] = "refused"],
         requests' = Put(k, Valid(k))
  PROVE  LimiterInv'
<1>1. \A l \in Clients : Times(l)' = IF l = k THEN Valid(k) ELSE Times(l)
  BY DEF Times, Put
<1>2. TypeOK'
  BY DEF LimiterInv, TypeOK, Put, Valid, Times, Answers
<1>3. Ordered' /\ AtMostLimit'
  BY DEF LimiterInv, Ordered, AtMostLimit
<1>4. Remembers'
  BY <1>1, ValidIsInWindow DEF LimiterInv, Remembers, InWindow
<1>5. QED BY <1>2, <1>3, <1>4 DEF LimiterInv

\* A request that passes is remembered, and found room.
LEMMA PassedKeepsInv ==
  ASSUME LimiterInv, NEW k \in Clients, Cardinality(Valid(k)) < Limit,
         UNCHANGED now, answer' = [answer EXCEPT ![k] = "passed"],
         granted' = [granted EXCEPT ![k] = Append(@, now)],
         requests' = Put(k, Valid(k) \cup {Len(granted'[k])})
  PROVE  LimiterInv'
<1> DEFINE n == Len(granted[k])
<1>0. /\ TypeOK /\ Ordered /\ Remembers /\ AtMostLimit
      /\ now \in 0 .. MaxTime /\ n \in Nat /\ granted[k] \in Seq(0 .. MaxTime)
  BY DEF LimiterInv, TypeOK
<1>1. /\ granted'[k] = Append(granted[k], now) /\ Len(granted'[k]) = n + 1
      /\ granted'[k] \in Seq(0 .. MaxTime)
      /\ granted'[k][n + 1] = now
      /\ \A i \in 1 .. n : granted'[k][i] = granted[k][i]
      /\ \A l \in Clients \ {k} : granted'[l] = granted[l]
  BY <1>0 DEF TypeOK
<1>2. \A l \in Clients : Times(l)' = IF l = k THEN Valid(k) \cup {n + 1} ELSE Times(l)
  BY <1>1 DEF Times, Put
<1>3. TypeOK'
  <2>1. granted' \in [Clients -> Seq(0 .. MaxTime)] /\ answer' \in [Clients -> Answers]
    BY <1>0, <1>1 DEF TypeOK, Answers
  <2>2. Valid(k) \subseteq 1 .. n
    BY <1>0 DEF Valid, Times, TypeOK
  <2>3. /\ DOMAIN requests' = DOMAIN requests \cup {k}
        /\ requests' \in [DOMAIN requests' -> SUBSET (Nat \ {0})]
        /\ \A l \in DOMAIN requests' :
             requests'[l] = IF l = k THEN Valid(k) \cup {n + 1} ELSE requests[l]
    BY <1>0, <1>1, <2>2 DEF Put, TypeOK
  <2>4. ASSUME NEW l \in DOMAIN requests'
        PROVE  requests'[l] \subseteq 1 .. Len(granted'[l])
    <3>1. CASE l = k
      <4>1. requests'[k] = Valid(k) \cup {n + 1} /\ Len(granted'[k]) = n + 1
        BY <1>1, <2>3, <2>4, <3>1
      <4>2. \A m \in Nat : 1 .. m \subseteq 1 .. m + 1 /\ m + 1 \in 1 .. m + 1
        OBVIOUS
      <4> HIDE DEF n
      <4>3. QED BY <1>0, <2>2, <3>1, <4>1, <4>2
    <3>2. CASE l # k
      BY <1>0, <1>1, <2>3, <2>4, <3>2 DEF TypeOK
    <3>3. QED BY <3>1, <3>2
  <2>5. QED BY <1>0, <2>1, <2>3, <2>4 DEF TypeOK
<1>4. Ordered'
  <2>1. ASSUME NEW l \in Clients
        PROVE  /\ \A i \in 1 .. Len(granted'[l]) : granted'[l][i] <= now
               /\ \A i, j \in 1 .. Len(granted'[l]) :
                    i <= j => granted'[l][i] <= granted'[l][j]
    <3>1. CASE l = k
      <4>1. \A i \in 1 .. n + 1 : granted'[k][i] <= now
        BY <1>0, <1>1 DEF Ordered
      <4>2. ASSUME NEW i \in 1 .. n + 1, NEW j \in 1 .. n + 1, i <= j
            PROVE  granted'[k][i] <= granted'[k][j]
        <5>1. CASE j = n + 1
          BY <1>1, <4>1, <5>1
        <5>2. CASE j # n + 1
          <6>1. i \in 1 .. n /\ j \in 1 .. n
            BY <1>0, <4>2, <5>2
          <6>2. QED BY <1>0, <1>1, <4>2, <6>1 DEF Ordered
        <5>3. QED BY <5>1, <5>2
      <4>3. QED BY <1>1, <3>1, <4>1, <4>2
    <3>2. CASE l # k
      BY <1>0, <1>1, <3>2 DEF Ordered
    <3>3. QED BY <3>1, <3>2
  <2>2. QED BY <2>1 DEF Ordered
<1>5. Remembers'
  <2>1. ASSUME NEW l \in Clients, NEW i \in InWindow(l)'
        PROVE  i \in Times(l)'
    <3>1. i \in 1 .. Len(granted'[l]) /\ granted'[l][i] + Window > now
      BY <2>1 DEF InWindow
    <3>2. CASE l = k /\ i # n + 1
      <4>1. i \in 1 .. n
        BY <1>0, <1>1, <3>1, <3>2
      <4>2. i \in InWindow(k)
        BY <1>1, <3>1, <3>2, <4>1 DEF InWindow
      <4>3. QED BY <1>0, <1>2, <3>2, <4>2, ValidIsInWindow
    <3>3. CASE l = k /\ i = n + 1
      BY <1>2, <3>3
    <3>4. CASE l # k
      BY SMTT(30), <1>0, <1>1, <1>2, <3>1, <3>4 DEF Remembers, InWindow
    <3>5. QED BY <3>2, <3>3, <3>4
  <2>2. QED BY <2>1 DEF Remembers
<1>6. AtMostLimit'
  <2>1. ASSUME NEW l \in Clients, NEW i \in 1 .. Len(granted'[l]),
               i + Limit <= Len(granted'[l])
        PROVE  granted'[l][i + Limit] >= granted'[l][i] + Window
    <3>1. CASE l = k /\ i + Limit = n + 1
      <4>1. i \in 1 .. n
        BY <1>0, <1>1, <2>1, <3>1
      <4>2. granted[k][i] + Window <= now
        BY <1>0, <3>1, <4>1, ValidIsInWindow, RoomMeansOld
      <4>3. granted[k][i] \in Nat
        BY <1>0, <4>1
      <4>4. QED BY <1>0, <1>1, <3>1, <4>1, <4>2, <4>3
    <3>2. CASE l = k /\ i + Limit # n + 1
      <4>1. i \in 1 .. n /\ i + Limit \in 1 .. n
        <5>1. i \in 1 .. n + 1 /\ i + Limit <= n + 1 /\ Limit \in Nat \ {0}
          BY <1>1, <2>1, <3>2
        <5> HIDE DEF n
        <5>2. QED BY <1>0, <3>2, <5>1
      <4>2. granted[k][i + Limit] >= granted[k][i] + Window
        BY <1>0, <4>1 DEF AtMostLimit
      <4>3. QED BY <1>1, <3>2, <4>1, <4>2
    <3>3. CASE l # k
      BY <1>0, <1>1, <2>1, <3>3 DEF AtMostLimit
    <3>4. QED BY <3>1, <3>2, <3>3
  <2>2. QED BY <2>1 DEF AtMostLimit
<1>7. QED BY <1>3, <1>4, <1>5, <1>6 DEF LimiterInv

LEMMA AllowKeepsInv ==
  ASSUME LimiterInv, NEW k \in Clients, allow(k)
  PROVE  LimiterInv'
<1>1. Cardinality(Valid(k)) \in Nat
  BY ValidIsInWindow, WindowIsFinite DEF LimiterInv
<1>2. CASE Cardinality(Valid(k)) >= Limit
  BY <1>2, RefusedKeepsInv DEF allow
<1>3. CASE Cardinality(Valid(k)) < Limit
  BY <1>1, <1>3, PassedKeepsInv DEF allow
<1>4. QED BY <1>1, <1>2, <1>3

LEMMA CleanupKeepsInv ==
  ASSUME LimiterInv, cleanup
  PROVE  LimiterInv'
<1>1. TypeOK'
  BY DEF LimiterInv, cleanup, TypeOK, Valid, Times
<1>2. Ordered' /\ AtMostLimit'
  BY DEF LimiterInv, cleanup, Ordered, AtMostLimit
<1>3. Remembers'
  <2>1. ASSUME NEW k \in Clients, NEW i \in InWindow(k)
        PROVE  i \in Times(k)'
    <3>1. i \in Valid(k)
      BY <2>1, ValidIsInWindow DEF LimiterInv
    <3>2. k \in DOMAIN requests
      BY <3>1 DEF Valid, Times
    <3>3. QED BY <3>1, <3>2 DEF cleanup, Times
  <2>2. \A k \in Clients : InWindow(k)' = InWindow(k)
    BY DEF cleanup, InWindow
  <2>3. QED BY <2>1, <2>2 DEF Remembers
<1>4. QED BY <1>1, <1>2, <1>3 DEF LimiterInv

LEMMA TickKeepsInv ==
  ASSUME LimiterInv, Tick, UNCHANGED requests
  PROVE  LimiterInv'
<1>1. /\ now \in 0 .. MaxTime /\ now' = now + 1 /\ now' \in 0 .. MaxTime
      /\ UNCHANGED <<granted, answer, requests>>
      /\ \A k \in Clients : \A i \in 1 .. Len(granted[k]) : granted[k][i] \in Nat
  BY DEF LimiterInv, Tick, TypeOK
<1>2. TypeOK'
  BY <1>1 DEF LimiterInv, TypeOK
<1>3. Ordered'
  BY <1>1 DEF LimiterInv, Ordered
<1>4. AtMostLimit'
  BY <1>1 DEF LimiterInv, AtMostLimit
<1>5. Remembers'
  <2>1. \A k \in Clients : InWindow(k)' \subseteq InWindow(k) /\ Times(k)' = Times(k)
    BY <1>1 DEF InWindow, Times
  <2>2. QED BY <2>1 DEF LimiterInv, Remembers
<1>6. QED BY <1>2, <1>3, <1>4, <1>5 DEF LimiterInv

LEMMA NextInv == LimiterInv /\ [Next]_vars => LimiterInv'
<1> SUFFICES ASSUME LimiterInv, [Next]_vars PROVE LimiterInv'
  OBVIOUS
<1>1. ASSUME NEW k \in Clients, allow(k)
      PROVE  LimiterInv'
  BY <1>1, AllowKeepsInv
<1>2. CASE cleanup
  BY <1>2, CleanupKeepsInv
<1>3. CASE Tick /\ UNCHANGED requests
  BY <1>3, TickKeepsInv
<1>4. CASE UNCHANGED vars
  BY <1>4 DEF vars, LimiterInv, TypeOK, Ordered, Remembers, AtMostLimit, InWindow, Times
<1>5. QED BY <1>1, <1>2, <1>3, <1>4 DEF Next

LEMMA Inductive == Spec => []LimiterInv
BY InitInv, NextInv, PTL DEF Spec

\* Every reachable state is well-typed: the slices name requests that passed.
THEOREM TypeCorrect == Spec => []TypeOK
<1>1. LimiterInv => TypeOK
  BY DEF LimiterInv
<1>2. QED BY <1>1, Inductive, PTL

\* No Window, wherever it is placed, has more than Limit requests of a client
\* that passed (ratelimit.go:34-56), whatever cleanup drops (ratelimit.go:58-75).
THEOREM NeverOverLimit == Spec => []AtMostLimit
<1>1. LimiterInv => AtMostLimit
  BY DEF LimiterInv
<1>2. QED BY <1>1, Inductive, PTL

\* The limiter, with its map, its cutoff and its cleanup, implements the one
\* that forgets nothing: it refuses nothing it need not refuse.
THEOREM LimiterImplementsWindow == Spec => ImplementsWindow
<1>1. Init => WindowInit
  BY DEF Init
<1>2. LimiterInv /\ [Next]_vars => [WindowNext]_windowVars
  <2> SUFFICES ASSUME LimiterInv, [Next]_vars
               PROVE  [WindowNext]_windowVars
    OBVIOUS
  <2>1. ASSUME NEW k \in Clients, allow(k)
        PROVE  Pass(k) \/ Refuse(k)
    <3>1. Valid(k) = InWindow(k)
      BY ValidIsInWindow DEF LimiterInv
    <3>2. Cardinality(InWindow(k)) \in Nat
      BY WindowIsFinite DEF LimiterInv
    <3>3. QED BY <2>1, <3>1, <3>2 DEF allow, Pass, Refuse
  <2>2. CASE cleanup
    BY <2>2 DEF cleanup, windowVars
  <2>3. CASE Tick
    BY <2>3 DEF WindowNext
  <2>4. CASE UNCHANGED vars
    BY <2>4 DEF vars, windowVars
  <2>5. QED BY <2>1, <2>2, <2>3, <2>4 DEF Next, WindowNext
<1>3. QED BY <1>1, <1>2, Inductive, PTL DEF Spec, ImplementsWindow, WindowSpec

-----------------------------------------------------------------------------
\* What is left in the window is finite, and no more than there was.
LEMMA ValidIsSmaller ==
  ASSUME LimiterInv, SlicesAreBounded, NEW k \in Clients
  PROVE  IsFiniteSet(Valid(k)) /\ Cardinality(Valid(k)) \in 0 .. Limit
<1>1. IsFiniteSet(Times(k)) /\ Cardinality(Times(k)) <= Limit
  <2>1. CASE k \in DOMAIN requests
    BY <2>1 DEF SlicesAreBounded, Times
  <2>2. CASE k \notin DOMAIN requests
    BY <2>2, FS_EmptySet DEF Times
  <2>3. QED BY <2>1, <2>2
<1>2. Valid(k) \subseteq Times(k)
  BY DEF Valid
<1>3. /\ IsFiniteSet(Valid(k)) /\ Cardinality(Valid(k)) <= Cardinality(Times(k))
      /\ Cardinality(Valid(k)) \in Nat /\ Cardinality(Times(k)) \in Nat
  BY <1>1, <1>2, FS_Subset, FS_CardinalityType
<1>4. QED BY <1>1, <1>3

\* One more fits where there is room.
LEMMA RoomForOne ==
  ASSUME NEW S, IsFiniteSet(S), Cardinality(S) < Limit, NEW x
  PROVE  IsFiniteSet(S \cup {x}) /\ Cardinality(S \cup {x}) <= Limit
<1>1. Cardinality(S) \in Nat
  BY FS_CardinalityType
<1>2. QED BY <1>1, FS_AddElement

LEMMA NextBounded ==
  ASSUME LimiterInv, SlicesAreBounded, [Next]_vars
  PROVE  SlicesAreBounded'
<1>1. ASSUME NEW k \in Clients, allow(k)
      PROVE  SlicesAreBounded'
  <2>1. PICK times : /\ requests' = Put(k, times)
                     /\ IsFiniteSet(times) /\ Cardinality(times) <= Limit
    <3>1. IsFiniteSet(Valid(k)) /\ Cardinality(Valid(k)) \in 0 .. Limit
      BY ValidIsSmaller
    <3>2. CASE Cardinality(Valid(k)) >= Limit
      BY <1>1, <3>1, <3>2 DEF allow
    <3>3. CASE Cardinality(Valid(k)) < Limit
      <4>1. requests' = Put(k, Valid(k) \cup {Len(granted'[k])})
        BY <1>1, <3>1, <3>3 DEF allow
      <4>2. \A x : /\ IsFiniteSet(Valid(k) \cup {x})
                   /\ Cardinality(Valid(k) \cup {x}) <= Limit
        BY <3>1, <3>3, RoomForOne
      <4>3. QED BY <4>1, <4>2
    <3>4. QED BY <3>1, <3>2, <3>3
  <2>2. \A l \in DOMAIN requests' :
          requests'[l] = times \/ (l \in DOMAIN requests /\ requests'[l] = requests[l])
    BY <2>1 DEF Put
  <2>3. QED BY <2>1, <2>2 DEF SlicesAreBounded
<1>2. CASE cleanup
  <2>1. \A k \in DOMAIN requests' : k \in Clients /\ requests'[k] = Valid(k)
    BY <1>2 DEF cleanup, LimiterInv, TypeOK
  <2>2. QED BY <2>1, ValidIsSmaller DEF SlicesAreBounded
<1>3. CASE UNCHANGED requests
  BY <1>3 DEF SlicesAreBounded
<1>4. QED BY <1>1, <1>2, <1>3 DEF Next, vars

\* However many requests a client makes, the map keeps no more than Limit times
\* of it (ratelimit.go:34-56).
THEOREM SlicesBounded == Spec => []SlicesAreBounded
<1>1. Init => SlicesAreBounded
  BY DEF Init, SlicesAreBounded
<1>2. LimiterInv /\ SlicesAreBounded /\ [Next]_vars => SlicesAreBounded'
  BY NextBounded
<1>3. QED BY <1>1, <1>2, Inductive, PTL DEF Spec

\* A client that keeps trying while it is refused is let through a Window
\* after its last success, like one that waits (ratelimit.go:46-49).
THEOREM RefusedAreNotCounted == Spec => []RefusalsDoNotCount
<1>1. LimiterInv => RefusalsDoNotCount
  <2> SUFFICES ASSUME LimiterInv, NEW k \in Clients,
                      Len(granted[k]) > 0, granted[k][Len(granted[k])] + Window <= now,
                      NEW i \in Valid(k)
               PROVE  FALSE
    BY DEF RefusalsDoNotCount
  <2>1. PICK n \in Nat : n = Len(granted[k]) /\ granted[k] \in [1 .. n -> Nat]
    BY DEF LimiterInv, TypeOK
  <2>2. i \in 1 .. n /\ granted[k][i] + Window > now
    BY <2>1, ValidIsInWindow DEF LimiterInv, InWindow
  <2>3. n \in 1 .. n /\ i <= n
    BY <2>1, <2>2
  <2>4. granted[k][i] <= granted[k][n]
    BY <2>1, <2>2, <2>3 DEF LimiterInv, Ordered
  <2>5. now \in Nat /\ granted[k][i] \in Nat /\ granted[k][n] \in Nat
    BY <2>1, <2>2, <2>3 DEF LimiterInv, TypeOK
  <2>6. QED BY <2>1, <2>2, <2>4, <2>5
<1>2. QED BY <1>1, Inductive, PTL
=============================================================================
