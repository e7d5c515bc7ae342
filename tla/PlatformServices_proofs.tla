------------------------ MODULE PlatformServices_proofs ------------------------
(***************************************************************************)
(* What the services around training and data promise, for any number of   *)
(* users, workers, watches, drafts and requests.                           *)
(*                                                                         *)
(* Every service has an inductive invariant and its own steps keep it; the *)
(* services share no rows, so a step of the platform is for each of them   *)
(* one of its own or none (ServicesStep), and the theorems follow.         *)
(***************************************************************************)
EXTENDS PlatformServices, FiniteSetTheorems, WellFoundedInduction, TLAPS

-----------------------------------------------------------------------------
(* Facts about numbers. *)

\* Naturals have a least one: descending intervals end.
LEMMA LeastNatural ==
  ASSUME NEW S \in SUBSET Nat, S # {}
  PROVE  \E m \in S : \A k \in S : m <= k
<1> DEFINE R == {ss \in Nat \X Nat : ss[1] < ss[2]}
<1>1. IsWellFoundedOn(R, Nat)
  BY NatLessThanWellFounded, Zenon DEF OpToRel
<1> HIDE DEF R
<1>2. PICK m \in S : \A k \in S : <<k, m>> \notin R
  BY <1>1, WFMin
<1>3. \A k \in S : ~ (k < m)
  BY <1>2 DEF R
<1> QED  BY <1>2, <1>3

\* Naturals up to a bound have a greatest one.
LEMMA GreatestNatural ==
  ASSUME NEW n \in Nat, NEW S \in SUBSET (0..n), S # {}
  PROVE  \E m \in S : \A k \in S : k <= m
<1> DEFINE D == {d \in 0..n : n - d \in S}
<1>1. \A k \in S : k \in 0..n /\ n - k \in 0..n /\ n - (n - k) = k
  OBVIOUS
<1>2. D \in SUBSET Nat /\ \A k \in S : n - k \in D
  BY <1>1
<1>3. PICK d \in D : \A e \in D : d <= e
  BY <1>2, LeastNatural
<1>4. n - d \in S /\ d \in 0..n
  BY <1>3
<1>5. ASSUME NEW k \in S PROVE k <= n - d
  BY <1>1, <1>2, <1>3, <1>4
<1> QED  BY <1>4, <1>5

-----------------------------------------------------------------------------
(***************************************************************************)
(* Host measurements: what is stored was stamped near the time it says, so *)
(* the newest is the node's and an online node is fresh.                   *)
(***************************************************************************)
\* What is stamped was measured within the tolerance of its arrival.
Stamped(s) == s.received # Unstamped => s.sampled <= s.received + Tolerance /\ s.received <= s.sampled + Tolerance

TelemetryRows == [sampled : Int, received : Int, order : Int, pressed : SUBSET Resources]

TelemetryInv ==
    /\ time \in Int /\ arrivals \in Int
    /\ posts \subseteq TelemetryRows /\ stored \subseteq TelemetryRows /\ node \in TelemetryRows
    /\ \A s \in posts : Stamped(s)
    /\ node # NoNode => Stamped(node) /\ node.received # Unstamped
    /\ node = NoNode => stored = {}
    /\ NewestShown

LEMMA TelemetryInitInv == TelemetryInit => TelemetryInv
  BY DEF TelemetryInit, TelemetryInv, TelemetryRows, NoNode, Unstamped, NewestShown

LEMMA TelemetryStepInv ==
  ASSUME TelemetryInv, TelemetryStep \/ UNCHANGED telemetryVars
  PROVE  TelemetryInv'
<1> USE DEF TelemetryInv
<1>1. CASE UNCHANGED telemetryVars
  BY <1>1 DEF telemetryVars, NewestShown, Stamped
<1>2. CASE Tick \/ Prune
  BY <1>2 DEF Tick, Prune, NewestShown, Stamped
<1>3. ASSUME NEW pressed \in SUBSET Resources, Measure(pressed) PROVE TelemetryInv'
  <2> DEFINE m == [sampled |-> time, received |-> Unstamped, order |-> 0, pressed |-> pressed]
  <2>1. m \in TelemetryRows /\ m.received = Unstamped
    BY DEF TelemetryRows, Unstamped
  <2>2. posts' = posts \cup {m} /\ UNCHANGED <<time, arrivals, node, samples, stored>>
    BY <1>3 DEF Measure
  <2> HIDE DEF m
  <2> QED  BY <2>1, <2>2 DEF NewestShown, Stamped
<1>4. ASSUME NEW s \in posts, Lose(s) PROVE TelemetryInv'
  BY <1>4 DEF Lose, NewestShown, Stamped
<1>5. ASSUME NEW s \in posts, Arrive(s) PROVE TelemetryInv'
  <2>0. PICK n \in Int : n = arrivals + 1
    OBVIOUS
  <2> DEFINE m == [s EXCEPT !.received = time, !.order = n]
  <2>1. s \in TelemetryRows /\ UNCHANGED <<time, node, samples, stored>> /\ arrivals' \in Int
    BY <1>5 DEF Arrive
  <2>2. m \in TelemetryRows /\ m.received = time /\ m.sampled = s.sampled
    BY <2>1 DEF TelemetryRows
  <2>3. posts' = posts \ {s} \/ (Valid(s) /\ posts' = (posts \ {s}) \cup {m})
    BY <1>5, <2>0 DEF Arrive
  <2> HIDE DEF m
  <2>4. Valid(s) => Stamped(m)
    BY <2>1, <2>2, TelemetryAssumption DEF Valid, Stamped, TelemetryRows
  <2>5. posts' \subseteq TelemetryRows /\ \A x \in posts' : Stamped(x)
    BY <2>2, <2>3, <2>4
  <2> QED  BY <2>1, <2>5 DEF NewestShown, Stamped
<1>6. ASSUME NEW s \in posts, Ingest(s) PROVE TelemetryInv'
  <2>1. s \in TelemetryRows /\ Stamped(s) /\ s.received # Unstamped /\ posts' = posts \ {s}
        /\ UNCHANGED <<time, arrivals>>
    BY <1>6 DEF Ingest
  <2>2. CASE NewerSample(s)
    <3>1. node' = s /\ stored' = stored \cup {s}
      BY <1>6, <2>2 DEF Ingest
    <3>2. NewestShown'
      BY <2>1, <2>2, <3>1 DEF NewerSample, NewestShown, TelemetryRows
    <3>3. s # NoNode
      BY <2>1 DEF NoNode
    <3> QED  BY <2>1, <3>1, <3>2, <3>3 DEF Stamped
  <2>3. CASE ~NewerSample(s)
    BY <1>6, <2>1, <2>3 DEF Ingest, NewestShown, Stamped
  <2> QED  BY <2>2, <2>3
<1> QED  BY <1>1, <1>2, <1>3, <1>4, <1>5, <1>6 DEF TelemetryStep

LEMMA TelemetryInvSound == TelemetryInv => NewestShown /\ OnlineIsFresh
  BY TelemetryAssumption DEF TelemetryInv, OnlineIsFresh, Status, Stamped, TelemetryRows

-----------------------------------------------------------------------------
(***************************************************************************)
(* Alerts: of the walk back over the samples, a recursive function, it is  *)
(* shown that it exists and where it ends; a walk that ended wrongly would *)
(* do so first at some instant.  What is read of the samples is enough.    *)
(***************************************************************************)
\* One step of the walk back: where it is after instant i, when f says so of later ones.
WalkAt(S, r, last, f, i) ==
    IF i = last THEN last
    ELSE LET from == f[i + 1] IN
         IF /\ \E s \in S : s.received = i /\ r \in s.pressed
            /\ from - i <= GapLimit
            /\ ~\E s \in S : s.received \in i + 1..from - 1
         THEN i ELSE from

\* f is the walk back over S from instant last to instant k.
Walk(S, r, last, k, f) == f = [i \in k..last |-> WalkAt(S, r, last, f, i)]

\* The walk is defined as far back as one likes.
LEMMA WalkExists ==
  ASSUME NEW S, NEW r, NEW last \in Nat
  PROVE  \E f : Walk(S, r, last, 0, f)
<1> DEFINE Defined(k) == \E f : Walk(S, r, last, k, f)
<1>1. Defined(last)
  <2> DEFINE f == [i \in last..last |-> last]
  <2>1. \A i \in last..last : WalkAt(S, r, last, f, i) = last
    BY DEF WalkAt
  <2>2. Walk(S, r, last, last, f)
    BY <2>1 DEF Walk
  <2> QED  BY <2>2
<1>2. ASSUME NEW k \in 1..last, Defined(k) PROVE Defined(k - 1)
  <2>1. PICK f : Walk(S, r, last, k, f)
    BY <1>2
  <2> DEFINE g == [i \in k - 1..last |-> IF i = k - 1 THEN WalkAt(S, r, last, f, i) ELSE f[i]]
  <2>2. \A i \in k..last : g[i] = f[i] /\ f[i] = WalkAt(S, r, last, f, i)
    BY <2>1 DEF Walk
  <2>3. g[k - 1] = WalkAt(S, r, last, f, k - 1)
    OBVIOUS
  <2>4. g = [i \in k - 1..last |-> g[i]]
    OBVIOUS
  <2> HIDE DEF g
  <2>5. \A i \in k - 1..last : WalkAt(S, r, last, g, i) = WalkAt(S, r, last, f, i)
    <3> SUFFICES ASSUME NEW i \in k - 1..last, i # last PROVE g[i + 1] = f[i + 1]
      BY DEF WalkAt
    <3>1. i + 1 \in k..last
      OBVIOUS
    <3> QED  BY <2>2, <3>1
  <2>6. \A i \in k - 1..last : g[i] = WalkAt(S, r, last, g, i)
    <3> SUFFICES ASSUME NEW i \in k - 1..last PROVE g[i] = WalkAt(S, r, last, f, i)
      BY <2>5
    <3>1. i = k - 1 \/ i \in k..last
      OBVIOUS
    <3> QED  BY <2>2, <2>3, <3>1
  <2>7. Walk(S, r, last, k - 1, g)
    BY <2>4, <2>6 DEF Walk
  <2> QED  BY <2>7
<1> DEFINE D == {k \in 0..last : Defined(k)}
<1> HIDE DEF Defined
<1>3. D \in SUBSET Nat /\ last \in D
  BY <1>1
<1>4. PICK m \in D : \A k \in D : m <= k
  BY <1>3, LeastNatural
<1>5. m = 0
  <2> SUFFICES ASSUME m # 0 PROVE FALSE
    OBVIOUS
  <2>1. m \in 1..last /\ m - 1 \in 0..last
    OBVIOUS
  <2>2. m - 1 \in D
    BY <1>2, <2>1
  <2> QED  BY <1>4, <2>1, <2>2
<1> QED  BY <1>4, <1>5 DEF Defined

\* Pressure starts where the walk back ends.
LEMMA PressureStartIs ==
  ASSUME NEW S, NEW r, Last(S).received \in Nat
  PROVE  \E f : Walk(S, r, Last(S).received, 0, f) /\ PressureStart(S, r) = f[0]
<1>1. \E f : Walk(S, r, Last(S).received, 0, f)
  BY WalkExists
<1> QED  BY <1>1 DEF PressureStart, WalkAt, Walk

\* What is known of a walk from the last of the samples S, which are apart.
WalkedBack(S, r, last, f) ==
    /\ S \subseteq TelemetryRows /\ last \in Nat
    /\ \A s \in S : s.received \in 0..last
    /\ \A s, t \in S : s.received = t.received => s = t
    /\ \E s \in S : s.received = last /\ r \in s.pressed
    /\ Walk(S, r, last, 0, f)

LEMMA WalkGoesOn ==
  ASSUME NEW S, NEW r, NEW last, NEW f, WalkedBack(S, r, last, f)
  PROVE  /\ f[last] = last
         /\ \A i \in 0..last - 1 :
              \/ /\ f[i] = i /\ f[i + 1] - i <= GapLimit
                 /\ \E s \in S : s.received = i /\ r \in s.pressed
                 /\ \A s \in S : s.received \notin i + 1..f[i + 1] - 1
              \/ /\ f[i] = f[i + 1]
                 /\ ~ /\ f[i + 1] - i <= GapLimit
                      /\ \E s \in S : s.received = i /\ r \in s.pressed
                      /\ \A s \in S : s.received \notin i + 1..f[i + 1] - 1
<1>1. \A i \in 0..last : f[i] = WalkAt(S, r, last, f, i)
  BY DEF WalkedBack, Walk
<1>2. last \in 0..last
  BY DEF WalkedBack
<1>3. f[last] = last
  BY <1>1, <1>2 DEF WalkAt
<1>4. ASSUME NEW i \in 0..last - 1 PROVE i \in 0..last /\ i # last
  BY DEF WalkedBack
<1> QED  BY <1>1, <1>3, <1>4 DEF WalkAt

\* Where the walk has come to there is a sample; all from there on are under pressure, and
\* none of them came late.
LEMMA WalkSound ==
  ASSUME NEW S, NEW r, NEW last, NEW f, WalkedBack(S, r, last, f), GapLimit \in Nat
  PROVE  /\ f[0] \in 0..last
         /\ \E s \in S : s.received = f[0]
         /\ \A t \in S : t.received >= f[0] => r \in t.pressed
         /\ \A t \in S : t.received > f[0] =>
               \E u \in S : f[0] <= u.received /\ u.received < t.received /\ t.received - u.received <= GapLimit
<1> DEFINE Reached(x) ==
             /\ \E s \in S : s.received = x
             /\ \A t \in S : t.received >= x => r \in t.pressed
             /\ \A t \in S : t.received > x =>
                   \E u \in S : x <= u.received /\ u.received < t.received /\ t.received - u.received <= GapLimit
           Good(i) == f[i] \in i..last /\ Reached(f[i])
<1>0. /\ last \in Nat /\ \A s \in S : s.received \in 0..last
      /\ \A s, t \in S : s.received = t.received => s = t
      /\ \E s \in S : s.received = last /\ r \in s.pressed
  BY DEF WalkedBack
<1>1. Good(last)
  <2>1. f[last] = last
    BY WalkGoesOn
  <2>2. Reached(last)
    BY <1>0
  <2> QED  BY <1>0, <2>1, <2>2
<1>2. ASSUME NEW i \in 0..last - 1, Good(i + 1) PROVE Good(i)
  <2>1. PICK from : from = f[i + 1]
    OBVIOUS
  <2>2. from \in i + 1..last /\ Reached(from)
    BY <1>2, <2>1
  <2>3. CASE f[i] = from
    <3>1. from \in i..last
      BY <2>2
    <3> QED  BY <2>2, <2>3, <3>1
  <2>4. CASE /\ f[i] = i /\ from - i <= GapLimit
             /\ \E s \in S : s.received = i /\ r \in s.pressed
             /\ \A s \in S : s.received \notin i + 1..from - 1
    <3>1. PICK s \in S : s.received = i /\ r \in s.pressed
      BY <2>4
    <3>2. \A t \in S : t.received >= i => t = s \/ t.received >= from
      BY <1>0, <2>2, <2>4, <3>1
    <3>3. \A t \in S : t.received >= i => r \in t.pressed
      BY <2>2, <3>1, <3>2
    <3>4. ASSUME NEW t \in S, t.received > i
          PROVE  \E u \in S : i <= u.received /\ u.received < t.received /\ t.received - u.received <= GapLimit
      <4>1. t.received >= from
        BY <1>0, <3>1, <3>2, <3>4
      <4>2. CASE t.received = from
        BY <2>2, <2>4, <3>1, <4>2
      <4>3. CASE t.received # from
        <5>1. t.received > from
          BY <1>0, <2>2, <4>1, <4>3
        <5>2. PICK u \in S : from <= u.received /\ u.received < t.received /\ t.received - u.received <= GapLimit
          BY <2>2, <5>1
        <5>3. i <= u.received
          BY <1>0, <2>2, <5>2
        <5> QED  BY <5>2, <5>3
      <4> QED  BY <4>2, <4>3
    <3>5. Reached(i)
      BY <3>1, <3>3, <3>4
    <3> HIDE DEF Reached
    <3> QED  BY <1>0, <2>4, <3>5
  <2> QED  BY <2>1, <2>3, <2>4, WalkGoesOn
<1> DEFINE D == {i \in 0..last : Good(i)}
<1> HIDE DEF Good
<1>3. D \in SUBSET Nat /\ last \in D
  BY <1>0, <1>1
<1>4. PICK m \in D : \A k \in D : m <= k
  BY <1>3, LeastNatural
<1>5. m = 0
  <2> SUFFICES ASSUME m # 0 PROVE FALSE
    OBVIOUS
  <2>1. m \in 0..last /\ m - 1 \in 0..last - 1 /\ (m - 1) + 1 = m /\ m - 1 \in 0..last
    BY <1>0
  <2>2. m - 1 \in D
    BY <1>2, <2>1
  <2> QED  BY <1>4, <2>1, <2>2
<1> QED  BY <1>4, <1>5 DEF Good

\* The walk comes to the sample at b at least, when all from there on are under pressure and
\* none of them came late.
LEMMA WalkReaches ==
  ASSUME NEW S, NEW r, NEW last, NEW f, WalkedBack(S, r, last, f), GapLimit \in Nat,
         NEW b \in S,
         \A t \in S : t.received >= b.received => r \in t.pressed,
         \A t \in S : t.received > b.received =>
            \E u \in S : u.received < t.received /\ t.received - u.received <= GapLimit
  PROVE  f[0] \in 0..last /\ f[0] <= b.received
<1> DEFINE at == b.received
           Nearest(i) == /\ f[i] \in i..last /\ \E t \in S : t.received = f[i]
                      /\ \A t \in S : t.received \notin i..f[i] - 1
           Behind(i) == f[i] \in i..at
<1>0. /\ last \in Nat /\ \A s \in S : s.received \in 0..last
      /\ \E s \in S : s.received = last /\ r \in s.pressed
      /\ at \in 0..last
  BY DEF WalkedBack
<1>1. Nearest(last)
  <2>1. f[last] = last
    BY WalkGoesOn
  <2> QED  BY <1>0, <2>1
<1>2. ASSUME NEW i \in at..last - 1, Nearest(i + 1) PROVE Nearest(i)
  <2>1. PICK from : from = f[i + 1]
    OBVIOUS
  <2>2. /\ from \in i + 1..last /\ \A t \in S : t.received \notin i + 1..from - 1
        /\ i \in 0..last - 1 /\ i \in Nat /\ at \in Nat
    BY <1>0, <1>2, <2>1
  <2>3. PICK n \in S : n.received = from
    BY <1>2, <2>1
  <2>4. from - i <= GapLimit
    <3>1. n.received > at /\ n.received \in Nat
      BY <2>2, <2>3
    <3>2. PICK u \in S : u.received < n.received /\ n.received - u.received <= GapLimit
      BY <3>1
    <3>3. u.received \in Nat /\ u.received <= i
      BY <1>0, <2>2, <2>3, <3>2
    <3> QED  BY <2>2, <2>3, <3>2, <3>3
  <2>5. CASE \E s \in S : s.received = i
    <3>1. PICK s \in S : s.received = i
      BY <2>5
    <3>2. r \in s.pressed
      BY <1>0, <2>2, <3>1
    <3>3. f[i] = i
      BY <2>1, <2>2, <2>4, <3>1, <3>2, WalkGoesOn
    <3>4. i \in i..last /\ \A t \in S : t.received \notin i..i - 1
      BY <1>0, <2>2
    <3> QED  BY <3>1, <3>3, <3>4
  <2>6. CASE ~\E s \in S : s.received = i
    <3>1. f[i] = from
      BY <2>1, <2>2, <2>6, WalkGoesOn
    <3>2. from \in i..last /\ \A t \in S : t.received \notin i..from - 1
      BY <1>0, <2>2, <2>6
    <3> QED  BY <2>3, <3>1, <3>2
  <2> QED  BY <2>5, <2>6
<1> HIDE DEF Nearest
<1>3. Nearest(at)
  <2> DEFINE D == {i \in 0..last : i >= at /\ Nearest(i)}
  <2>1. D \in SUBSET Nat /\ last \in D
    BY <1>0, <1>1
  <2>2. PICK m \in D : \A k \in D : m <= k
    BY <2>1, LeastNatural
  <2>3. m = at
    <3> SUFFICES ASSUME m # at PROVE FALSE
      OBVIOUS
    <3>1. m \in 0..last /\ m - 1 \in at..last - 1 /\ (m - 1) + 1 = m /\ m - 1 \in 0..last /\ m - 1 >= at
      BY <1>0
    <3>2. m - 1 \in D
      BY <1>2, <3>1
    <3> QED  BY <2>2, <3>1, <3>2
  <2> QED  BY <2>2, <2>3
<1>4. Behind(at)
  <2>1. f[at] \in at..last /\ at \notin at..f[at] - 1
    BY <1>3 DEF Nearest
  <2> QED  BY <1>0, <2>1
<1>5. ASSUME NEW i \in 0..at - 1, Behind(i + 1) PROVE Behind(i)
  <2>1. i \in 0..last - 1
    BY <1>0
  <2>2. f[i] = i \/ f[i] = f[i + 1]
    BY <2>1, WalkGoesOn
  <2> QED  BY <1>0, <1>5, <2>2
<1> DEFINE D == {i \in 0..at : Behind(i)}
<1>6. D \in SUBSET Nat /\ at \in D
  BY <1>0, <1>4
<1> HIDE DEF Behind
<1>7. PICK m \in D : \A k \in D : m <= k
  BY <1>6, LeastNatural
<1>8. m = 0
  <2> SUFFICES ASSUME m # 0 PROVE FALSE
    OBVIOUS
  <2>1. m \in 0..at /\ m - 1 \in 0..at - 1 /\ (m - 1) + 1 = m /\ m - 1 \in 0..at
    BY <1>0
  <2>2. m - 1 \in D
    BY <1>5, <2>1
  <2> QED  BY <1>7, <2>1, <2>2
<1> QED  BY <1>0, <1>7, <1>8 DEF Behind

\* Samples are kept as long as they may be asked for; in a second they have an order.
HistoryInv ==
    /\ time \in Nat /\ arrivals \in Nat
    /\ posts \subseteq TelemetryRows /\ stored \subseteq TelemetryRows /\ IsFiniteSet(stored)
    /\ \A s \in posts : s.received = Unstamped \/ s.received \in 0..time
    /\ \A s \in stored : s.received \in 0..time
    /\ \A s \in posts \cup stored : s.received = time => s.order <= arrivals
    /\ \A s, t \in posts \cup stored :
          s.received = t.received /\ s.received # Unstamped /\ s.order = t.order => s = t
    /\ samples \subseteq stored /\ \A s \in stored : s.received >= time - Retention => s \in samples

LEMMA HistoryInit == TelemetryInit => HistoryInv
  BY FS_EmptySet DEF TelemetryInit, HistoryInv

LEMMA HistoryStep ==
  ASSUME HistoryInv, TelemetryStep \/ UNCHANGED telemetryVars
  PROVE  HistoryInv'
<1> USE DEF HistoryInv
<1>1. CASE UNCHANGED telemetryVars
  BY <1>1 DEF telemetryVars
<1>2. CASE Tick
  <2>1. time' = time + 1 /\ arrivals' = 0 /\ UNCHANGED <<posts, samples, stored>>
    BY <1>2 DEF Tick
  <2>2. \A s \in stored : s.received >= time' - Retention => s \in samples
    BY <2>1, TelemetryAssumption
  <2>3. /\ \A s \in posts : s.received = Unstamped \/ s.received \in 0..time'
        /\ \A s \in stored : s.received \in 0..time'
    BY <2>1
  <2>4. \A s \in posts \cup stored : s.received # time'
    BY <2>1 DEF Unstamped
  <2> QED  BY <2>1, <2>2, <2>3, <2>4
<1>3. CASE Prune
  BY <1>3 DEF Prune
<1>4. ASSUME NEW pressed \in SUBSET Resources, Measure(pressed) PROVE HistoryInv'
  <2> DEFINE m == [sampled |-> time, received |-> Unstamped, order |-> 0, pressed |-> pressed]
  <2>1. m \in TelemetryRows /\ m.received = Unstamped
    BY DEF TelemetryRows, Unstamped
  <2>2. posts' = posts \cup {m} /\ UNCHANGED <<time, arrivals, samples, stored>> /\ time # Unstamped
    BY <1>4 DEF Measure, Unstamped
  <2> HIDE DEF m
  <2> QED  BY <2>1, <2>2
<1>5. ASSUME NEW s \in posts, Lose(s) PROVE HistoryInv'
  BY <1>5 DEF Lose
<1>6. ASSUME NEW s \in posts, Arrive(s) PROVE HistoryInv'
  <2>9. CASE ~Valid(s)
    BY <1>6, <2>9 DEF Arrive
  <2>10. SUFFICES ASSUME Valid(s) PROVE HistoryInv'
    BY <2>9
  <2>0. PICK n \in Int : n = arrivals + 1
    OBVIOUS
  <2> DEFINE m == [s EXCEPT !.received = time, !.order = n]
  <2>1. s \in TelemetryRows /\ UNCHANGED <<time, samples, stored>> /\ arrivals' = arrivals + 1
    BY <1>6, <2>10 DEF Arrive
  <2>2. m \in TelemetryRows /\ m.received = time /\ m.order = n
    <3>1. time \in Int /\ n \in Int
      OBVIOUS
    <3> QED  BY ONLY <2>1, <3>1 DEF TelemetryRows
  <2>3. posts' \subseteq posts \cup {m}
    BY <1>6, <2>0, <2>10 DEF Arrive
  <2> HIDE DEF m
  <2>4. ASSUME NEW t \in posts \cup stored, t.received = time PROVE t.order < n
    <3>1. t.order \in Int /\ t.order <= arrivals
      BY <2>4 DEF TelemetryRows
    <3> QED  BY <2>0, <3>1
  <2>5. \A t \in posts' \cup stored' : t = m \/ t \in posts \cup stored
    BY <2>1, <2>3
  <2>6. \A t \in posts' \cup stored' : t.received = time' => t.order <= arrivals'
    <3> SUFFICES ASSUME NEW t \in posts' \cup stored', t.received = time PROVE t.order <= n
      BY <2>0, <2>1
    <3>1. CASE t = m
      BY <2>2, <3>1
    <3>2. CASE t \in posts \cup stored
      <4>1. t.order \in Int /\ t.order < n
        BY <2>4, <3>2 DEF TelemetryRows
      <4> QED  BY <4>1
    <3> QED  BY <2>5, <3>1, <3>2
  <2>7. \A x, t \in posts' \cup stored' :
           x.received = t.received /\ x.received # Unstamped /\ x.order = t.order => x = t
    <3> SUFFICES ASSUME NEW x \in posts' \cup stored', NEW t \in posts' \cup stored',
                        x.received = t.received, x.received # Unstamped, x.order = t.order
                 PROVE  x = t
      OBVIOUS
    <3>1. CASE x = m /\ t # m
      <4>1. t.order < n /\ t.order = n
        BY <2>2, <2>4, <2>5, <3>1
      <4> QED  BY <4>1
    <3>2. CASE t = m /\ x # m
      <4>1. x.order < n /\ x.order = n
        BY <2>2, <2>4, <2>5, <3>2
      <4> QED  BY <4>1
    <3>3. CASE x # m /\ t # m
      BY <2>5, <3>3
    <3> QED  BY <3>1, <3>2, <3>3
  <2> QED  BY <2>1, <2>2, <2>3, <2>6, <2>7
<1>7. ASSUME NEW s \in posts, Ingest(s) PROVE HistoryInv'
  <2>1. /\ s \in TelemetryRows /\ s.received \in 0..time
        /\ posts' = posts \ {s} /\ UNCHANGED <<time, arrivals>>
    BY <1>7 DEF Ingest
  <2>2. CASE NewerSample(s)
    <3>1. samples' = samples \cup {s} /\ stored' = stored \cup {s}
      BY <1>7, <2>2 DEF Ingest
    <3>2. IsFiniteSet(stored')
      BY <3>1, FS_AddElement
    <3> QED  BY <2>1, <3>1, <3>2
  <2>3. CASE ~NewerSample(s)
    BY <1>7, <2>1, <2>3 DEF Ingest
  <2> QED  BY <2>2, <2>3
<1> QED  BY <1>1, <1>2, <1>3, <1>4, <1>5, <1>6, <1>7 DEF TelemetryStep

\* What alerts can be decided by: of each second one sample, and of those the recent ones.
HistoryKept ==
    /\ time \in Nat
    /\ Kept \subseteq TelemetryRows /\ IsFiniteSet(Kept)
    /\ \A s \in Kept : s.received \in 0..time
    /\ \A s, t \in Kept : s.received = t.received => s = t
    /\ Recent = {s \in Kept : s.received >= time - Window}

LEMMA KeptHistory == HistoryInv => HistoryKept
<1> SUFFICES ASSUME HistoryInv PROVE HistoryKept
  OBVIOUS
<1>1. Kept \subseteq stored /\ IsFiniteSet(Kept)
  <2>1. Kept \subseteq stored
    BY DEF Kept, Thinned
  <2> QED  BY <2>1, FS_Subset DEF HistoryInv
<1>2. ASSUME NEW s \in Kept, NEW t \in Kept, s.received = t.received PROVE s = t
  <2>1. s.order <= t.order /\ t.order <= s.order
    BY <1>2 DEF Kept, Thinned
  <2>2. s \in stored /\ t \in stored /\ s.order \in Int /\ t.order \in Int /\ s.received # Unstamped
    BY <1>1 DEF HistoryInv, TelemetryRows, Unstamped
  <2>3. s.order = t.order
    BY <2>1, <2>2
  <2> QED  BY <1>2, <2>2, <2>3 DEF HistoryInv
<1>3. {s \in samples : s.received >= time - Window} = {s \in stored : s.received >= time - Window}
  BY TelemetryAssumption DEF HistoryInv, TelemetryRows
<1>4. Recent = {s \in Kept : s.received >= time - Window}
  <2>1. Recent = Thinned({s \in stored : s.received >= time - Window})
    BY <1>3 DEF Recent
  <2> QED  BY <2>1 DEF Kept, Thinned
<1> QED  BY <1>1, <1>2, <1>4 DEF HistoryInv, HistoryKept

\* Of samples there is a last one.
LEMMA LastIsThere ==
  ASSUME HistoryKept, NEW S \in SUBSET Kept, S # {}
  PROVE  Last(S) \in S /\ \A t \in S : t.received <= Last(S).received
<1> DEFINE instants == {i \in 0..time : \E s \in S : s.received = i}
<1>1. instants \in SUBSET (0..time) /\ instants # {} /\ \A s \in S : s.received \in instants
  BY DEF HistoryKept
<1>0. time \in Nat
  BY DEF HistoryKept
<1>3. ASSUME NEW m \in instants PROVE \E s \in S : s.received = m
  OBVIOUS
<1> HIDE DEF instants
<1>2. PICK m \in instants : \A k \in instants : k <= m
  BY <1>0, <1>1, GreatestNatural
<1>4. PICK s \in S : s.received = m
  BY <1>3
<1>5. \A t \in S : t.received <= s.received
  BY <1>1, <1>2, <1>4
<1> QED  BY <1>4, <1>5 DEF Last

\* The last of the samples read is the last there is, when any is read.
LEMMA LastIsRecent ==
  ASSUME HistoryKept, NEW s \in Kept, s.received >= time - Window
  PROVE  /\ Last(Kept) \in Recent /\ Last(Recent) = Last(Kept)
         /\ \A t \in Kept : t.received <= Last(Kept).received
<1>1. Recent = {t \in Kept : t.received >= time - Window}
  BY DEF HistoryKept
<1>2. Last(Kept) \in Kept /\ \A t \in Kept : t.received <= Last(Kept).received
  BY LastIsThere
<1>3. Last(Kept) \in Recent
  BY <1>1, <1>2, TelemetryAssumption DEF HistoryKept, TelemetryRows
<1>4. Last(Recent) \in Recent /\ \A t \in Recent : t.received <= Last(Recent).received
  BY <1>1, <1>3, LastIsThere
<1>5. Last(Recent).received = Last(Kept).received
  BY <1>1, <1>2, <1>3, <1>4 DEF HistoryKept, TelemetryRows
<1>6. Last(Recent) = Last(Kept)
  BY <1>1, <1>2, <1>4, <1>5 DEF HistoryKept
<1> QED  BY <1>2, <1>3, <1>6

\* An alert is the truth about the whole history.
LEMMA AlertIsTrue ==
  ASSUME HistoryKept, NEW r \in Alerts
  PROVE  /\ r \in Resources /\ Kept # {} /\ Status(Last(Kept)) = "online"
         /\ \E s \in Kept : PressedSince(s, r) /\ Last(Kept).received - s.received >= Hold
<1> DEFINE L == Last(Kept)
<1>1. /\ Recent # {} /\ Status(Last(Recent)) = "online" /\ r \in Last(Recent).pressed
      /\ Last(Recent).received - PressureStart(Recent, r) >= Hold
  BY FS_EmptySet DEF Alerts
<1>2. Recent = {t \in Kept : t.received >= time - Window}
  BY DEF HistoryKept
<1>3. L \in Recent /\ Last(Recent) = L /\ \A t \in Kept : t.received <= L.received
  BY <1>1, <1>2, LastIsRecent
<1>4. L \in Kept /\ L.received \in Nat /\ L \in TelemetryRows
  BY <1>2, <1>3 DEF HistoryKept
<1> HIDE DEF L
<1>5. PICK f : Walk(Recent, r, L.received, 0, f) /\ PressureStart(Recent, r) = f[0]
  BY <1>3, <1>4, PressureStartIs
<1>6. WalkedBack(Recent, r, L.received, f)
  <2>1. Recent \subseteq TelemetryRows /\ \A s, t \in Recent : s.received = t.received => s = t
    BY <1>2 DEF HistoryKept
  <2>2. \A s \in Recent : s.received \in 0..L.received
    BY <1>2, <1>3, <1>4 DEF HistoryKept
  <2>3. L \in Recent /\ r \in L.pressed
    BY <1>1, <1>3
  <2> QED  BY <1>4, <1>5, <2>1, <2>2, <2>3 DEF WalkedBack
<1>7. /\ f[0] \in 0..L.received /\ \E s \in Recent : s.received = f[0]
      /\ \A t \in Recent : t.received >= f[0] => r \in t.pressed
      /\ \A t \in Recent : t.received > f[0] =>
            \E u \in Recent : f[0] <= u.received /\ u.received < t.received /\ t.received - u.received <= GapLimit
  BY <1>6, WalkSound, TelemetryAssumption
<1>8. PICK s \in Recent : s.received = f[0]
  BY <1>7
<1>9. PressedSince(s, r)
  <2>1. s \in Kept /\ s.received \in Nat
    BY <1>2, <1>8 DEF HistoryKept
  <2>2. \A t \in Kept : t.received \in Nat /\ (t.received = s.received => t = s)
    BY <2>1 DEF HistoryKept
  <2>3. \A t \in Kept : t.received >= s.received => t \in Recent
    BY <1>2, <1>8, <2>1, <2>2, TelemetryAssumption DEF HistoryKept
  <2>4. ASSUME NEW t \in Kept, t.received >= s.received PROVE r \in t.pressed
    BY <1>7, <1>8, <2>3, <2>4
  <2>5. ASSUME NEW t \in Kept, t.received >= s.received, t # s
        PROVE  \E u \in Kept : u.received >= s.received /\ u.received < t.received /\ t.received - u.received <= GapLimit
    <3>1. t \in Recent /\ t.received > f[0]
      BY <1>8, <2>1, <2>2, <2>3, <2>5
    <3>2. PICK u \in Recent : f[0] <= u.received /\ u.received < t.received /\ t.received - u.received <= GapLimit
      BY <1>7, <3>1
    <3> QED  BY <1>2, <1>8, <2>1, <2>2, <3>2
  <2> QED  BY <2>4, <2>5 DEF PressedSince
<1>10. r \in Resources
  BY <1>1, <1>3, <1>4 DEF TelemetryRows
<1>11. Kept # {} /\ s \in Kept /\ Status(L) = "online" /\ L.received - s.received >= Hold
  BY <1>1, <1>2, <1>3, <1>5, <1>8
<1> QED  BY <1>9, <1>10, <1>11 DEF L

\* What was under pressure for long enough has been so since a sample that is read: of the
\* samples early enough, the last is followed by one that is not, soon after.
LEMMA PressureIsRecent ==
  ASSUME HistoryKept, NEW r, NEW last \in Kept, \A t \in Kept : t.received <= last.received,
         time - last.received <= Stale,
         NEW s \in Kept, PressedSince(s, r), last.received - s.received >= Hold
  PROVE  \E u \in Kept : /\ u.received >= time - Window /\ u.received >= s.received
                           /\ last.received - u.received >= Hold
<1>0. /\ time \in Nat /\ \A t \in Kept : t.received \in Nat
      /\ Hold \in Nat \ {0} /\ GapLimit \in Nat /\ Stale \in Nat /\ Window \in Nat
      /\ Hold + GapLimit + Stale <= Window
  BY TelemetryAssumption DEF HistoryKept
<1> DEFINE late == last.received - Hold
           early == {i \in 0..late : i >= s.received /\ \E t \in Kept : t.received = i}
<1>1. late \in Nat /\ early \in SUBSET (0..late) /\ s.received \in early
  BY <1>0
<1>2. PICK e \in early : \A i \in early : i <= e
  BY <1>1, GreatestNatural
<1>3. PICK u \in Kept : u.received = e /\ e \in 0..late /\ e >= s.received
  BY <1>2
<1> DEFINE later == {i \in Nat : i > e /\ \E t \in Kept : t.received = i}
<1>4. later \in SUBSET Nat /\ last.received \in later
  BY <1>0, <1>3
<1>5. PICK n \in later : \A i \in later : n <= i
  BY <1>4, LeastNatural
<1>6. PICK t \in Kept : t.received = n /\ n \in Nat /\ n > e
  BY <1>5
<1>7. PICK w \in Kept : w.received >= s.received /\ w.received < n /\ n - w.received <= GapLimit
  <2>1. t.received >= s.received /\ t # s
    BY <1>0, <1>3, <1>6
  <2> QED  BY <1>6, <2>1 DEF PressedSince
<1>8. w.received <= e
  <2>1. w.received \in Nat /\ w.received \notin later
    BY <1>0, <1>5, <1>6, <1>7
  <2> QED  BY <1>3, <2>1
<1>9. n > late
  <2>1. n \notin early
    BY <1>2, <1>6, <1>3, <1>0
  <2>2. n >= s.received
    BY <1>0, <1>3, <1>6
  <2> QED  BY <1>1, <1>6, <2>1, <2>2
<1>10. e >= time - Window
  BY <1>0, <1>1, <1>3, <1>6, <1>7, <1>8, <1>9
<1> QED  BY <1>0, <1>1, <1>3, <1>10

\* What was under pressure for long enough, up to now, is an alert.
LEMMA PressureIsAlerted ==
  ASSUME HistoryKept, NEW r \in Resources, Kept # {}, Status(Last(Kept)) = "online",
         NEW s \in Kept, PressedSince(s, r), Last(Kept).received - s.received >= Hold
  PROVE  r \in Alerts
<1> DEFINE L == Last(Kept)
<1>0. /\ time \in Nat /\ \A t \in Kept : t.received \in Nat
      /\ Hold \in Nat \ {0} /\ GapLimit \in Nat /\ Stale \in Nat /\ Window \in Nat
      /\ Stale <= Window
  BY TelemetryAssumption DEF HistoryKept
<1>1. L \in Kept /\ \A t \in Kept : t.received <= L.received
  BY LastIsThere
<1>2. time - L.received <= Stale
  BY <1>0, <1>1 DEF Status
<1>3. Recent = {t \in Kept : t.received >= time - Window}
  BY DEF HistoryKept
<1>4. L \in Recent /\ Last(Recent) = L
  BY <1>0, <1>1, <1>2, LastIsRecent
<1> HIDE DEF L
<1>5. L.received - s.received >= Hold /\ Status(L) = "online"
  BY DEF L
<1>6. PICK u \in Kept : u.received >= time - Window /\ u.received >= s.received /\ L.received - u.received >= Hold
  BY <1>1, <1>2, <1>5, PressureIsRecent
<1>7. u \in Recent /\ u # L
  BY <1>0, <1>1, <1>3, <1>6
<1>8. r \in L.pressed
  BY <1>0, <1>1, <1>5 DEF PressedSince
<1>9. Cardinality(Recent) >= 2 /\ Cardinality(Recent) \in Nat
  <2>1. IsFiniteSet(Recent)
    BY <1>3, FS_Subset DEF HistoryKept
  <2> DEFINE one == {u}
  <2>2. IsFiniteSet(one) /\ Cardinality(one) = 1 /\ L \notin one /\ one \subseteq Recent
    BY <1>7, FS_Singleton
  <2> HIDE DEF one
  <2>3. Cardinality(one \cup {L}) = Cardinality(one) + 1
    BY <2>2, FS_AddElement
  <2>4. one \cup {L} \subseteq Recent
    BY <1>4, <2>2
  <2>5. Cardinality(one \cup {L}) <= Cardinality(Recent)
    BY <2>1, <2>4, FS_Subset
  <2> QED  BY <2>1, <2>2, <2>3, <2>5, FS_CardinalityType
<1>10. PICK f : Walk(Recent, r, L.received, 0, f) /\ PressureStart(Recent, r) = f[0]
  BY <1>0, <1>1, <1>4, PressureStartIs
<1>11. WalkedBack(Recent, r, L.received, f)
  <2>1. Recent \subseteq TelemetryRows /\ \A x, t \in Recent : x.received = t.received => x = t
    BY <1>3 DEF HistoryKept
  <2>2. \A x \in Recent : x.received \in 0..L.received
    BY <1>0, <1>1, <1>3
  <2> QED  BY <1>0, <1>1, <1>4, <1>8, <1>10, <2>1, <2>2 DEF WalkedBack
<1>12. \A t \in Recent : t.received >= u.received => r \in t.pressed
  BY <1>0, <1>3, <1>6 DEF PressedSince
<1>13. ASSUME NEW t \in Recent, t.received > u.received
       PROVE  \E x \in Recent : x.received < t.received /\ t.received - x.received <= GapLimit
  <2>1. t \in Kept /\ t.received >= s.received /\ t # s
    BY <1>0, <1>3, <1>6, <1>13
  <2>2. PICK x \in Kept : x.received < t.received /\ t.received - x.received <= GapLimit
    BY <2>1 DEF PressedSince
  <2>3. CASE x.received >= u.received
    BY <1>0, <1>3, <1>6, <2>2, <2>3
  <2>4. CASE ~(x.received >= u.received)
    <3>1. t.received - u.received <= GapLimit
      BY <1>0, <2>1, <2>2, <2>4
    <3> QED  BY <1>7, <1>13, <3>1
  <2> QED  BY <2>3, <2>4
<1>14. f[0] \in 0..L.received /\ f[0] <= u.received
  BY <1>0, <1>7, <1>11, <1>12, <1>13, WalkReaches
<1>15. L.received - PressureStart(Recent, r) >= Hold
  BY <1>0, <1>1, <1>6, <1>10, <1>14
<1> QED  BY <1>4, <1>5, <1>8, <1>9, <1>15 DEF Alerts

\* Neither the window nor retention hides an alert or makes one up.
LEMMA HistorySound == HistoryInv => AlertsComplete
<1> SUFFICES ASSUME HistoryInv PROVE AlertsComplete
  OBVIOUS
<1>0. HistoryKept
  BY KeptHistory
<1>1. ASSUME NEW r \in Alerts
      PROVE  /\ r \in Resources /\ Kept # {} /\ Status(Last(Kept)) = "online"
             /\ \E s \in Kept : PressedSince(s, r) /\ Last(Kept).received - s.received >= Hold
  BY <1>0, AlertIsTrue
<1>2. ASSUME NEW r \in Resources, Kept # {}, Status(Last(Kept)) = "online",
             \E s \in Kept : PressedSince(s, r) /\ Last(Kept).received - s.received >= Hold
      PROVE  r \in Alerts
  BY <1>0, <1>2, PressureIsAlerted
<1> QED  BY <1>1, <1>2 DEF AlertsComplete

-----------------------------------------------------------------------------
(***************************************************************************)
(* The gate in front of the model: every place that is taken is a call's   *)
(* that will give it back, and a probe is alone.                           *)
(***************************************************************************)
\* The gate and its calls, with numbers that no bound is needed for.
GateRows == [active : Nat, limit : 1..MaximumLimit, failures : 0..FailuresToOpen,
             successes : Int, cooling : BOOLEAN, fatal : BOOLEAN, halfOpen : BOOLEAN]

GateTypes == gate \in GateRows /\ call \in [Calls -> CallStates]

\* A call is counted from its admission until it is done.
CallsCounted ==
    /\ IsFiniteSet(InFlight) /\ gate.active = Cardinality(InFlight) /\ gate.active <= MaximumLimit

\* While a probe is under way the circuit is half-open, so nobody else is admitted.
ProbeHoldsGate == \A c \in InFlight : call[c].probe => gate.halfOpen /\ InFlight = {c}

\* What the provider took and answered at each stage of a call.
StageTold(x) ==
    /\ x.at = "connecting" => ~x.handled
    /\ x.at \in {"connecting", "sent"} => x.status = "none"
    /\ x.at \in {"streaming", "body"} => x.handled /\ x.status = "200"

\* What a call reports of it.
OutcomeTold(x) ==
    /\ x.kind = "retryable" => x.status = "busy" \/ (x.status = "none" /\ ~x.handled)
    /\ x.kind = "ok" => x.status = "200" /\ x.handled /\ x.finish = "stop"

StagesTold == \A c \in Calls : StageTold(call[c])

GateInv ==
    /\ GateTypes /\ CallsCounted /\ ProbeHoldsGate /\ StagesTold /\ OutcomesTold
    /\ gate.failures >= FailuresToOpen => gate.halfOpen

LEMMA GateInitInv == GateInit => GateInv
<1> SUFFICES ASSUME GateInit PROVE GateInv
  OBVIOUS
<1>1. GateTypes
  BY GateAssumption DEF GateInit, GateTypes, GateRows, IdleCall, CallStates
<1>2. InFlight = {}
  BY DEF GateInit, InFlight, IdleCall
<1>3. CallsCounted
  BY <1>2, FS_EmptySet, GateAssumption DEF GateInit, CallsCounted
<1>4. ProbeHoldsGate /\ StagesTold /\ OutcomesTold /\ (gate.failures >= FailuresToOpen => gate.halfOpen)
  BY <1>2, GateAssumption DEF GateInit, ProbeHoldsGate, StagesTold, StageTold, OutcomesTold, IdleCall
<1> QED  BY <1>1, <1>3, <1>4 DEF GateInv

\* A call moves on: it stays in flight, keeps how it was admitted and leaves the gate alone.
LEMMA CallMoves ==
  ASSUME GateInv, NEW c \in Calls, call[c].at # "idle", NEW x \in CallStates,
         x.at # "idle", x.probe = call[c].probe,
         StageTold(x), x.at = "returned" => OutcomeTold(x),
         Becomes(c, x)
  PROVE  GateInv'
<1>1. call' = [call EXCEPT ![c] = x] /\ UNCHANGED gate
  BY DEF Becomes
<1>2. GateTypes'
  BY <1>1 DEF GateInv, GateTypes
<1>3. call'[c] = x /\ \A d \in Calls : d # c => call'[d] = call[d]
  BY <1>1 DEF GateInv, GateTypes
<1>4. InFlight' = InFlight
  BY <1>3 DEF InFlight
<1>5. CallsCounted' /\ ProbeHoldsGate'
  BY <1>1, <1>3, <1>4 DEF GateInv, CallsCounted, ProbeHoldsGate, InFlight
<1>6. StagesTold' /\ OutcomesTold'
  BY <1>3 DEF GateInv, StagesTold, OutcomesTold, OutcomeTold
<1> QED  BY <1>1, <1>2, <1>5, <1>6 DEF GateInv

\* The steps of a call between its admission and its end.
CallProceeds(c) ==
    \/ CannotBeSent(c) \/ ConnectFails(c) \/ Connected(c) \/ ProviderHandles(c) \/ CallInterrupted(c)
    \/ Declined(c) \/ Accepted(c) \/ StreamFails(c) \/ StreamFinish(c) \/ StreamEnds(c) \/ BodyEnds(c)

LEMMA CallProceedsPreserves ==
  ASSUME GateInv, NEW c \in Calls, CallProceeds(c)
  PROVE  GateInv'
<1>1. call[c] \in CallStates
  BY DEF GateInv, GateTypes
<1>2. StageTold(call[c])
  BY DEF GateInv, StagesTold
<1>3. ASSUME NEW kind \in {"failed", "retryable", "unknown", "fatal"}, NEW wait \in BOOLEAN,
             kind = "retryable" => call[c].at = "connecting", call[c].at # "idle", Returned(c, kind, wait)
      PROVE  GateInv'
  <2> DEFINE x == [call[c] EXCEPT !.at = "returned", !.kind = kind, !.wait = wait]
  <2>1. x \in CallStates /\ x.at = "returned" /\ x.kind = kind /\ x.probe = call[c].probe
        /\ x.handled = call[c].handled /\ x.status = call[c].status
    BY <1>1 DEF CallStates
  <2>2. Becomes(c, x)
    BY <1>3 DEF Returned
  <2> HIDE DEF x
  <2>3. StageTold(x) /\ OutcomeTold(x)
    BY <1>2, <1>3, <2>1 DEF StageTold, OutcomeTold
  <2> QED  BY <1>3, <2>1, <2>2, <2>3, CallMoves
<1>4. CASE CannotBeSent(c) \/ ConnectFails(c)
  BY <1>3, <1>4 DEF CannotBeSent, ConnectFails
<1>5. CASE CallInterrupted(c)
  BY <1>3, <1>5 DEF CallInterrupted, Interrupted
<1>6. CASE Declined(c)
  <2>1. PICK status \in {"busy", "other"}, wait \in BOOLEAN :
            Becomes(c, [call[c] EXCEPT !.at = "returned", !.status = status, !.wait = wait,
                                       !.kind = IF status = "busy" THEN "retryable" ELSE "fatal"])
    BY <1>6 DEF Declined
  <2>5. PICK kind \in {"retryable", "fatal"} : kind = IF status = "busy" THEN "retryable" ELSE "fatal"
    OBVIOUS
  <2>6. kind # "ok" /\ (kind = "retryable" => status = "busy")
    BY <2>5
  <2> DEFINE x == [call[c] EXCEPT !.at = "returned", !.status = status, !.wait = wait, !.kind = kind]
  <2>2. x \in CallStates /\ x.at = "returned" /\ x.probe = call[c].probe /\ x.status = status /\ x.kind = kind
    BY <1>1 DEF CallStates
  <2>3. Becomes(c, x) /\ call[c].at # "idle"
    BY <1>6, <2>1, <2>5 DEF Declined
  <2> HIDE DEF x
  <2>4. StageTold(x) /\ OutcomeTold(x)
    <3>1. x.at = "returned" /\ x.kind # "ok" /\ (x.kind = "retryable" => x.status = "busy")
      BY <2>2, <2>6
    <3> QED  BY ONLY <3>1 DEF StageTold, OutcomeTold
  <2> QED  BY <2>2, <2>3, <2>4, CallMoves
<1>7. CASE StreamFails(c)
  BY <1>3, <1>7 DEF StreamFails
<1>8. CASE Connected(c)
  <2> DEFINE x == [call[c] EXCEPT !.at = "sent"]
  <2>1. x \in CallStates /\ x.at = "sent" /\ x.probe = call[c].probe /\ x.status = call[c].status
    BY <1>1 DEF CallStates
  <2>2. Becomes(c, x) /\ call[c].at = "connecting"
    BY <1>8 DEF Connected
  <2> HIDE DEF x
  <2>3. StageTold(x)
    BY <1>2, <2>1, <2>2 DEF StageTold
  <2> QED  BY <2>1, <2>2, <2>3, CallMoves
<1>9. CASE ProviderHandles(c)
  <2> DEFINE x == [call[c] EXCEPT !.handled = TRUE]
  <2>1. x \in CallStates /\ x.at = "sent" /\ x.probe = call[c].probe /\ x.status = call[c].status
    BY <1>1, <1>9 DEF CallStates, ProviderHandles
  <2>2. Becomes(c, x) /\ call[c].at = "sent"
    BY <1>9 DEF ProviderHandles
  <2> HIDE DEF x
  <2>3. StageTold(x)
    BY <1>2, <2>1, <2>2 DEF StageTold
  <2> QED  BY <2>1, <2>2, <2>3, CallMoves
<1>10. CASE Accepted(c)
  <2>1. PICK at \in {"streaming", "body"} : Becomes(c, [call[c] EXCEPT !.at = at, !.status = "200"])
    BY <1>10 DEF Accepted
  <2> DEFINE x == [call[c] EXCEPT !.at = at, !.status = "200"]
  <2>2. x \in CallStates /\ x.at = at /\ x.probe = call[c].probe /\ x.handled /\ x.status = "200"
    BY <1>1, <1>10 DEF CallStates, Accepted
  <2>3. Becomes(c, x) /\ call[c].at # "idle"
    BY <1>10, <2>1 DEF Accepted
  <2> HIDE DEF x
  <2>4. StageTold(x)
    BY <2>2 DEF StageTold
  <2> QED  BY <2>2, <2>3, <2>4, CallMoves
<1>11. CASE StreamFinish(c)
  <2>1. PICK reason \in {"stop", "other"} : Becomes(c, [call[c] EXCEPT !.finish = reason])
    BY <1>11 DEF StreamFinish
  <2> DEFINE x == [call[c] EXCEPT !.finish = reason]
  <2>2. x \in CallStates /\ x.at = "streaming" /\ x.probe = call[c].probe
        /\ x.handled = call[c].handled /\ x.status = call[c].status
    BY <1>1, <1>11 DEF CallStates, StreamFinish
  <2>3. Becomes(c, x) /\ call[c].at = "streaming"
    BY <1>11, <2>1 DEF StreamFinish
  <2> HIDE DEF x
  <2>4. StageTold(x)
    BY <1>2, <2>2, <2>3 DEF StageTold
  <2> QED  BY <2>2, <2>3, <2>4, CallMoves
<1>12. CASE StreamEnds(c)
  <2> DEFINE x == [call[c] EXCEPT !.at = "returned", !.kind = ReportedAs(c), !.wait = FALSE]
  <2>0. ReportedAs(c) \in {"ok", "failed"} /\ (ReportedAs(c) = "ok" => call[c].finish = "stop")
    BY DEF ReportedAs
  <2>1. x \in CallStates /\ x.at = "returned" /\ x.kind = ReportedAs(c) /\ x.probe = call[c].probe
        /\ x.handled = call[c].handled /\ x.status = call[c].status /\ x.finish = call[c].finish
    BY <1>1, <1>12, <2>0 DEF CallStates, StreamEnds
  <2>2. Becomes(c, x) /\ call[c].at = "streaming"
    BY <1>12 DEF StreamEnds, Returned
  <2> HIDE DEF x
  <2>3. StageTold(x) /\ OutcomeTold(x)
    BY <1>2, <2>0, <2>1, <2>2 DEF StageTold, OutcomeTold
  <2> QED  BY <2>1, <2>2, <2>3, CallMoves
<1>13. CASE BodyEnds(c)
  <2>1. PICK reason \in {"stop", "other"} :
            Becomes(c, [call[c] EXCEPT !.at = "returned", !.finish = reason,
                                       !.kind = IF reason = "stop" THEN "ok" ELSE "failed"])
    BY <1>13 DEF BodyEnds
  <2> DEFINE x == [call[c] EXCEPT !.at = "returned", !.finish = reason,
                                  !.kind = IF reason = "stop" THEN "ok" ELSE "failed"]
  <2>2. x \in CallStates /\ x.at = "returned" /\ x.probe = call[c].probe /\ x.finish = reason
        /\ x.handled = call[c].handled /\ x.status = call[c].status
        /\ x.kind = IF reason = "stop" THEN "ok" ELSE "failed"
    BY <1>1, <1>13 DEF CallStates, BodyEnds
  <2>3. Becomes(c, x) /\ call[c].at = "body"
    BY <1>13, <2>1 DEF BodyEnds
  <2> HIDE DEF x
  <2>4. StageTold(x) /\ OutcomeTold(x)
    BY <1>2, <2>2, <2>3 DEF StageTold, OutcomeTold
  <2> QED  BY <2>2, <2>3, <2>4, CallMoves
<1> QED  BY <1>4, <1>5, <1>6, <1>7, <1>8, <1>9, <1>10, <1>11, <1>12, <1>13 DEF CallProceeds

\* An admitted call takes a place that was free.
LEMMA AdmitPreserves ==
  ASSUME GateInv, NEW c \in Calls, Admit(c)
  PROVE  GateInv'
<1> DEFINE x == [IdleCall EXCEPT !.at = "connecting", !.probe = gate.halfOpen]
<1>1. /\ gate \in GateRows /\ call \in [Calls -> CallStates] /\ gate.active < gate.limit
      /\ gate.halfOpen => gate.active = 0
      /\ gate' = [gate EXCEPT !.active = @ + 1] /\ call' = [call EXCEPT ![c] = x] /\ call[c].at = "idle"
  BY DEF GateInv, GateTypes, Admit, Admissible
<1>2. x \in CallStates /\ x.at = "connecting" /\ x.probe = gate.halfOpen /\ ~x.handled /\ x.status = "none"
  BY <1>1 DEF CallStates, IdleCall, GateRows
<1> HIDE DEF x
<1>3. gate' \in GateRows /\ gate'.active = gate.active + 1 /\ gate'.halfOpen = gate.halfOpen
      /\ gate'.failures = gate.failures /\ gate'.limit = gate.limit
  BY <1>1 DEF GateRows
<1>4. call' \in [Calls -> CallStates] /\ call'[c] = x /\ \A d \in Calls : d # c => call'[d] = call[d]
  BY <1>1, <1>2
<1>5. InFlight' = InFlight \cup {c} /\ c \notin InFlight
  BY <1>1, <1>2, <1>4 DEF InFlight
<1>6. IsFiniteSet(InFlight) /\ gate.active = Cardinality(InFlight)
  BY DEF GateInv, CallsCounted
<1>7. CallsCounted'
  <2>1. IsFiniteSet(InFlight') /\ Cardinality(InFlight') = Cardinality(InFlight) + 1
    BY <1>5, <1>6, FS_AddElement
  <2>2. gate'.active <= MaximumLimit
    BY <1>1, <1>3, GateAssumption DEF GateRows
  <2> QED  BY <1>3, <1>6, <2>1, <2>2 DEF CallsCounted
<1>8. ProbeHoldsGate'
  <2> SUFFICES ASSUME NEW d \in InFlight', call'[d].probe PROVE gate'.halfOpen /\ InFlight' = {d}
    BY DEF ProbeHoldsGate
  <2>1. gate.halfOpen
    <3>1. CASE d = c
      BY <1>2, <1>4, <3>1
    <3>2. CASE d # c
      <4>1. d \in InFlight /\ call[d].probe
        BY <1>4, <1>5, <3>2 DEF InFlight
      <4> QED  BY <4>1 DEF GateInv, ProbeHoldsGate
    <3> QED  BY <3>1, <3>2
  <2>2. InFlight = {}
    BY <1>1, <1>6, <2>1, FS_EmptySet
  <2> QED  BY <1>3, <1>5, <2>1, <2>2
<1>9. StagesTold' /\ OutcomesTold'
  BY <1>2, <1>4 DEF GateInv, StagesTold, StageTold, OutcomesTold
<1> QED  BY <1>3, <1>4, <1>7, <1>8, <1>9 DEF GateInv, GateTypes

\* A row of the gate in which something is new.
LEMMA GateRow ==
  ASSUME NEW g \in GateRows, NEW limit \in 1..MaximumLimit, NEW failures \in 0..FailuresToOpen,
         NEW successes \in Int, NEW cooling \in BOOLEAN, NEW halfOpen \in BOOLEAN
  PROVE  [g EXCEPT !.limit = limit, !.failures = failures, !.successes = successes,
                   !.cooling = cooling, !.halfOpen = halfOpen] \in GateRows
  BY DEF GateRows

\* What is learnt from a call that is done.
LEMMA DoneGate ==
  ASSUME GateInv, NEW c \in Calls, Done(c), gate.active > 0
  PROVE  /\ gate' \in GateRows /\ gate'.active = gate.active - 1
         /\ gate'.failures >= FailuresToOpen => gate'.halfOpen
<1> DEFINE g == [gate EXCEPT !.active = @ - 1]
<1>1. gate \in GateRows /\ (gate.failures >= FailuresToOpen => gate.halfOpen)
  BY DEF GateInv, GateTypes
<1>2. g \in GateRows /\ g.active = gate.active - 1 /\ (g.failures >= FailuresToOpen => g.halfOpen)
  BY <1>1 DEF GateRows
<1>3. gate' \in {[g EXCEPT !.fatal = TRUE], AfterFailure(g, call[c].wait), AfterSuccess(g), g}
  BY DEF Done
<1> HIDE DEF g
<1>4. CASE gate' = [g EXCEPT !.fatal = TRUE]
  BY <1>2, <1>4 DEF GateRows
<1>5. CASE gate' = AfterFailure(g, call[c].wait)
  <2> DEFINE failures == LesserOf(g.failures + 1, FailuresToOpen)
             opens == failures = FailuresToOpen \/ g.halfOpen \/ call[c].wait
             limit == GreaterOf(1, g.limit \div 2)
             cooling == g.cooling \/ opens
             halfOpen == g.halfOpen \/ opens
  <2>1. failures \in 0..FailuresToOpen /\ limit \in 1..MaximumLimit
    BY <1>2, GateAssumption DEF GateRows, LesserOf, GreaterOf
  <2>2. cooling \in BOOLEAN /\ halfOpen \in BOOLEAN /\ (failures >= FailuresToOpen => halfOpen)
    <3>1. failures >= FailuresToOpen => opens
      BY <2>1, GateAssumption
    <3> HIDE DEF opens
    <3>2. g.cooling \in BOOLEAN /\ g.halfOpen \in BOOLEAN
      BY <1>2 DEF GateRows
    <3> QED  BY <3>1, <3>2
  <2>3. gate' = [g EXCEPT !.limit = limit, !.failures = failures, !.successes = 0,
                          !.cooling = cooling, !.halfOpen = halfOpen]
    BY <1>5 DEF AfterFailure
  <2> HIDE DEF failures, opens, limit, cooling, halfOpen
  <2>4. gate'.failures = failures /\ gate'.halfOpen = halfOpen /\ gate'.active = g.active
    BY <1>2, <2>3 DEF GateRows
  <2>5. gate' \in GateRows
    <3> DEFINE none == 0
    <3>1. none \in Int
      OBVIOUS
    <3>2. gate' = [g EXCEPT !.limit = limit, !.failures = failures, !.successes = none,
                            !.cooling = cooling, !.halfOpen = halfOpen]
      BY <2>3
    <3> HIDE DEF none
    <3> QED  BY <1>2, <2>1, <2>2, <3>1, <3>2, GateRow
  <2> QED  BY <1>2, <2>2, <2>4, <2>5
<1>6. CASE gate' = AfterSuccess(g)
  <2>1. CASE g.cooling
    BY <1>2, <1>6, <2>1 DEF AfterSuccess
  <2>2. CASE ~g.cooling
    <3> DEFINE successes == (g.successes + 1) % SuccessesToGrow
               limit == IF g.successes + 1 >= SuccessesToGrow THEN LesserOf(MaximumLimit, g.limit + 1) ELSE g.limit
    <3>1. limit \in 1..MaximumLimit
      BY <1>2, GateAssumption DEF GateRows, LesserOf
    <3>2. successes \in Int
      BY <1>2, GateAssumption DEF GateRows
    <3>3. gate' = [g EXCEPT !.failures = 0, !.halfOpen = FALSE, !.successes = successes, !.limit = limit]
      BY <1>6, <2>2 DEF AfterSuccess
    <3> HIDE DEF successes, limit
    <3>4. gate' \in GateRows
      <4> DEFINE none == 0
                 open == FALSE
      <4>1. none \in 0..FailuresToOpen /\ open \in BOOLEAN
        BY GateAssumption
      <4>2. gate' = [g EXCEPT !.failures = none, !.halfOpen = open, !.successes = successes, !.limit = limit]
        BY <3>3
      <4> HIDE DEF none, open
      <4> QED  BY <1>2, <3>1, <3>2, <4>1, <4>2 DEF GateRows
    <3>5. gate'.failures = 0 /\ gate'.active = g.active
      BY <1>2, <3>3 DEF GateRows
    <3> QED  BY <1>2, <3>4, <3>5, GateAssumption
  <2> QED  BY <2>1, <2>2
<1> QED  BY <1>2, <1>3, <1>4, <1>5, <1>6

LEMMA DonePreserves ==
  ASSUME GateInv, NEW c \in Calls, Done(c)
  PROVE  GateInv'
<1>1. call \in [Calls -> CallStates] /\ call' = [call EXCEPT ![c] = IdleCall] /\ call[c].at = "returned"
  BY DEF GateInv, GateTypes, Done
<1>2. IdleCall \in CallStates /\ IdleCall.at = "idle"
  BY DEF IdleCall, CallStates
<1>3. call' \in [Calls -> CallStates] /\ call'[c] = IdleCall /\ \A d \in Calls : d # c => call'[d] = call[d]
  BY <1>1, <1>2
<1>4. InFlight' = InFlight \ {c} /\ c \in InFlight
  BY <1>1, <1>2, <1>3 DEF InFlight
<1>5. IsFiniteSet(InFlight) /\ gate.active = Cardinality(InFlight) /\ gate.active <= MaximumLimit
  BY DEF GateInv, CallsCounted
<1>6. IsFiniteSet(InFlight') /\ Cardinality(InFlight') = Cardinality(InFlight) - 1
  BY <1>4, <1>5, FS_RemoveElement
<1>7. Cardinality(InFlight') \in Nat /\ Cardinality(InFlight) \in Nat
  BY <1>5, <1>6, FS_CardinalityType
<1>8. /\ gate' \in GateRows /\ gate'.active = gate.active - 1
      /\ gate'.failures >= FailuresToOpen => gate'.halfOpen
  <2>1. gate.active > 0
    BY <1>5, <1>6, <1>7
  <2> QED  BY <2>1, DoneGate
<1>9. CallsCounted'
  BY <1>5, <1>6, <1>7, <1>8, GateAssumption DEF CallsCounted
<1>10. ProbeHoldsGate'
  <2> SUFFICES ASSUME NEW d \in InFlight', call'[d].probe PROVE FALSE
    BY DEF ProbeHoldsGate
  <2>1. d \in InFlight /\ d # c /\ call[d].probe
    BY <1>3, <1>4 DEF InFlight
  <2> QED  BY <1>4, <2>1 DEF GateInv, ProbeHoldsGate
<1>11. StagesTold' /\ OutcomesTold'
  BY <1>2, <1>3 DEF GateInv, StagesTold, StageTold, OutcomesTold
<1> QED  BY <1>3, <1>8, <1>9, <1>10, <1>11 DEF GateInv, GateTypes

LEMMA CooledDownPreserves == GateInv /\ CooledDown => GateInv'
<1> SUFFICES ASSUME GateInv, CooledDown PROVE GateInv'
  OBVIOUS
<1>1. gate \in GateRows /\ gate' = [gate EXCEPT !.cooling = FALSE] /\ UNCHANGED call
  BY DEF GateInv, GateTypes, CooledDown
<1>2. gate' \in GateRows /\ gate'.active = gate.active /\ gate'.failures = gate.failures /\ gate'.halfOpen = gate.halfOpen
  BY <1>1 DEF GateRows
<1>3. UNCHANGED InFlight
  BY <1>1 DEF InFlight
<1> QED  BY <1>1, <1>2, <1>3 DEF GateInv, GateTypes, CallsCounted, ProbeHoldsGate, StagesTold, OutcomesTold

LEMMA GateStepInv ==
  ASSUME GateInv, GateStep \/ UNCHANGED gateVars
  PROVE  GateInv'
<1>1. CASE UNCHANGED gateVars
  BY <1>1 DEF gateVars, GateInv, GateTypes, CallsCounted, ProbeHoldsGate, StagesTold, StageTold, OutcomesTold, InFlight
<1>2. CASE GateStep
  BY <1>2, AdmitPreserves, CallProceedsPreserves, DonePreserves, CooledDownPreserves DEF GateStep, CallProceeds
<1> QED  BY <1>1, <1>2

LEMMA GateInvSound == GateInv => PlacesCounted /\ ProbesAlone /\ OutcomesTold
  BY DEF GateInv, GateTypes, GateRows, CallsCounted, ProbeHoldsGate, PlacesCounted, ProbesAlone

\* A call that returns while a cooldown is on ends it neither by success nor by failure.
LEMMA GateStepSound ==
  ASSUME GateInv, GateStep \/ UNCHANGED gateVars, gate.cooling, gate.halfOpen, call' # call
  PROVE  gate'.cooling /\ gate'.halfOpen
<1>1. gate \in GateRows
  BY DEF GateInv, GateTypes
<1>2. ASSUME NEW c \in Calls, Done(c) PROVE gate'.cooling /\ gate'.halfOpen
  BY <1>1, <1>2 DEF GateRows, Done, AfterFailure, AfterSuccess
<1>3. ASSUME NEW c \in Calls, Admit(c) PROVE FALSE
  BY <1>3 DEF Admit, Admissible
<1>4. ASSUME NEW c \in Calls, CallProceeds(c) PROVE UNCHANGED gate
  BY <1>4 DEF CallProceeds, CannotBeSent, ConnectFails, Connected, ProviderHandles, CallInterrupted, Interrupted,
     Declined, Accepted, StreamFails, StreamFinish, StreamEnds, BodyEnds, Returned, Becomes
<1>5. ~UNCHANGED call
  OBVIOUS
<1> QED  BY <1>2, <1>3, <1>4, <1>5 DEF GateStep, CallProceeds, CooledDown, gateVars

-----------------------------------------------------------------------------
(***************************************************************************)
(* Workers: a report under way is of a session that was opened, with a     *)
(* number that its session had reached, and the registry is behind it.     *)
(***************************************************************************)
Processes == [worker : Workers, at : {"running", "closing", "ended"}, registered : BOOLEAN,
              sequence : Nat, tries : Nat, waiting : BOOLEAN]
ReportRows == [session : WorkSessions, worker : Workers, register : BOOLEAN, sequence : Nat,
               try : Nat, stopped : BOOLEAN]
Instances == [session : WorkSessions, sequence : Nat, stopped : BOOLEAN, heard : {"online", "delayed", "offline"}]

RegistryTypes ==
    /\ process \in [WorkSessions -> Processes \cup {NoProcess}]
    /\ reports \subseteq ReportRows
    /\ sessions \in [WorkSessions -> Workers \cup {NoSession}]
    /\ instance \in [Workers -> Instances \cup {NoInstance}]

\* A report is no newer than its process, and one that says good-bye is its last.
ReportsOfProcesses ==
    \A m \in reports :
        /\ process[m.session].at # "unused"
        /\ m.sequence <= process[m.session].sequence
        /\ m.stopped => process[m.session].at = "ended" /\ m.sequence = process[m.session].sequence

\* Sequences only start with a registration.
SequencesStart ==
    \A s \in WorkSessions : process[s].at # "unused" /\ ~process[s].registered => process[s].sequence = 0

\* What is known of a worker was registered, and a good-bye was its session's last report.
InstancesRegistered ==
    \A w \in Workers : instance[w] # NoInstance =>
        LET s == instance[w].session IN
        /\ sessions[s] # NoSession
        /\ process[s].at # "unused"
        /\ instance[w].stopped => process[s].at = "ended" /\ process[s].sequence = instance[w].sequence

RegistryInv == RegistryTypes /\ ReportsOfProcesses /\ SequencesStart /\ InstancesRegistered

\* A session that began goes on, and after its end nothing of it is new.
ProcessGoesOn(s) ==
    process[s].at # "unused" =>
        /\ process'[s].at # "unused"
        /\ process'[s].sequence >= process[s].sequence
        /\ process[s].at = "ended" => process'[s].at = "ended" /\ process'[s].sequence = process[s].sequence

LEMMA RegistryInitInv == RegistryInit => RegistryInv
  BY DEF RegistryInit, RegistryInv, RegistryTypes, ReportsOfProcesses, SequencesStart, InstancesRegistered, NoProcess

\* Steps of a process, which leave the tables alone.
LEMMA ProcessPreserves ==
  ASSUME RegistryInv, NEW s \in WorkSessions, NEW p \in Processes,
         process' = [process EXCEPT ![s] = p], UNCHANGED <<sessions, instance>>,
         process[s].at # "unused" => p.sequence >= process[s].sequence,
         process[s].at = "ended" => p.at = "ended" /\ p.sequence = process[s].sequence,
         ~p.registered => p.sequence = 0,
         \/ UNCHANGED reports
         \/ \E m \in ReportRows :
               /\ reports' = reports \cup {m} /\ m.session = s /\ m.sequence <= p.sequence
               /\ m.stopped => p.at = "ended" /\ m.sequence = p.sequence
  PROVE  RegistryInv'
<1>1. RegistryTypes'
  BY DEF RegistryInv, RegistryTypes
<1>2. process'[s] = p /\ \A x \in WorkSessions : x # s => process'[x] = process[x]
  BY DEF RegistryInv, RegistryTypes
<1>3. p.at # "unused" /\ p.sequence \in Nat
  BY DEF Processes
<1>4. SequencesStart'
  BY <1>2 DEF RegistryInv, SequencesStart
<1>5. ReportsOfProcesses'
  <2> SUFFICES ASSUME NEW m \in reports'
               PROVE  /\ process'[m.session].at # "unused"
                      /\ m.sequence <= process'[m.session].sequence
                      /\ m.stopped => process'[m.session].at = "ended" /\ m.sequence = process'[m.session].sequence
    BY DEF ReportsOfProcesses
  <2>1. CASE m \in reports
    <3>1. m \in ReportRows
      BY <2>1 DEF RegistryInv, RegistryTypes
    <3>2. CASE m.session # s
      BY <1>2, <2>1, <3>1, <3>2 DEF RegistryInv, ReportsOfProcesses, ReportRows
    <3>3. CASE m.session = s
      <4>1. process[s].at # "unused" /\ m.sequence <= process[s].sequence /\ process[s] \in Processes
            /\ (m.stopped => process[s].at = "ended" /\ m.sequence = process[s].sequence)
        BY <2>1, <3>3 DEF RegistryInv, ReportsOfProcesses, RegistryTypes, NoProcess
      <4>2. process[s].sequence \in Nat /\ m.sequence \in Nat
        BY <4>1, <3>1 DEF Processes, ReportRows
      <4> QED  BY <1>2, <1>3, <3>3, <4>1, <4>2
    <3> QED  BY <3>2, <3>3
  <2>2. CASE m \notin reports
    BY <1>2, <1>3, <2>2
  <2> QED  BY <2>1, <2>2
<1>6. InstancesRegistered'
  <2> SUFFICES ASSUME NEW w \in Workers, instance[w] # NoInstance
               PROVE  LET x == instance[w].session IN
                      /\ sessions[x] # NoSession
                      /\ process'[x].at # "unused"
                      /\ instance[w].stopped => process'[x].at = "ended" /\ process'[x].sequence = instance[w].sequence
    BY DEF InstancesRegistered
  <2>1. instance[w].session \in WorkSessions
    BY DEF RegistryInv, RegistryTypes, Instances
  <2> QED  BY <1>2, <1>3, <2>1 DEF RegistryInv, InstancesRegistered
<1> QED  BY <1>1, <1>4, <1>5, <1>6 DEF RegistryInv

LEMMA SendOncePreserves ==
  ASSUME RegistryInv, NEW s \in WorkSessions, SendOnce(s)
  PROVE  RegistryInv'
<1> DEFINE p == process[s]
           sequence == IF p.registered THEN p.sequence + 1 ELSE 0
           tries == IF p.registered THEN p.tries ELSE p.tries + 1
           at == IF p.at = "closing" THEN "ended" ELSE p.at
           q == [p EXCEPT !.sequence = sequence, !.tries = tries, !.waiting = TRUE, !.at = at]
           m == [session |-> s, worker |-> p.worker, register |-> ~p.registered,
                 sequence |-> sequence, try |-> tries, stopped |-> p.at = "closing"]
<1>1. p \in Processes /\ p.at \in {"running", "closing"}
  BY DEF SendOnce, RegistryInv, RegistryTypes, NoProcess
<1>2. ~p.registered => p.sequence = 0
  BY <1>1 DEF RegistryInv, SequencesStart
<1>3. sequence \in Nat /\ tries \in Nat /\ at \in {"running", "closing", "ended"} /\ sequence >= p.sequence
  BY <1>1, <1>2 DEF Processes
<1>4. process' = [process EXCEPT ![s] = q] /\ reports' = reports \cup {m} /\ UNCHANGED <<sessions, instance>>
  BY <1>1 DEF SendOnce, RegistryInv, RegistryTypes
<1>5. q \in Processes /\ q.sequence = sequence /\ q.registered = p.registered /\ q.at = at
  <2> HIDE DEF sequence, tries, at, p
  <2> QED  BY <1>1, <1>3 DEF Processes
<1>6. m \in ReportRows /\ m.session = s /\ m.sequence = sequence /\ m.stopped = (p.at = "closing")
  <2>1. p.worker \in Workers
    BY <1>1 DEF Processes
  <2> HIDE DEF sequence, tries, at, p
  <2> QED  BY <1>3, <2>1 DEF ReportRows
<1>7. ~q.registered => q.sequence = 0
  BY <1>5
<1>8. m.stopped => q.at = "ended"
  BY <1>5, <1>6
<1> HIDE DEF q, m
<1>9. (process[s].at # "unused" => q.sequence >= process[s].sequence)
      /\ (process[s].at = "ended" => q.at = "ended" /\ q.sequence = process[s].sequence)
  BY <1>1, <1>3, <1>5
<1>10. m.sequence <= q.sequence /\ m.sequence = q.sequence
  BY <1>3, <1>5, <1>6
<1> HIDE DEF sequence, tries, at, p
<1>11. /\ reports' = reports \cup {m} /\ m.session = s /\ m.sequence <= q.sequence
       /\ m.stopped => q.at = "ended" /\ m.sequence = q.sequence
  BY <1>4, <1>6, <1>8, <1>10
<1>12. \E x \in ReportRows :
               /\ reports' = reports \cup {x} /\ x.session = s /\ x.sequence <= q.sequence
               /\ x.stopped => q.at = "ended" /\ x.sequence = q.sequence
  BY <1>6, <1>11
<1> QED  BY <1>4, <1>5, <1>7, <1>9, <1>12, ProcessPreserves

LEMMA LifePreserves ==
  ASSUME RegistryInv, NEW s \in WorkSessions, Closes(s) \/ GivesUp(s) \/ \E w \in Workers : Starts(s, w)
  PROVE  RegistryInv'
<1>1. CASE \E w \in Workers : Starts(s, w)
  <2>1. PICK w \in Workers : Starts(s, w)
    BY <1>1
  <2> DEFINE p == [worker |-> w, at |-> "running", registered |-> FALSE, sequence |-> 0, tries |-> 0, waiting |-> FALSE]
  <2>2. p \in Processes /\ p.sequence = 0
    BY DEF Processes
  <2>3. process[s].at = "unused" /\ process' = [process EXCEPT ![s] = p] /\ UNCHANGED <<reports, sessions, instance>>
    BY <2>1 DEF Starts, NoProcess
  <2> HIDE DEF p
  <2> QED  BY <2>2, <2>3, ProcessPreserves
<1>2. CASE Closes(s) \/ GivesUp(s)
  <2>1. process[s] \in Processes /\ process[s].at # "unused"
    BY <1>2 DEF Closes, GivesUp, RegistryInv, RegistryTypes, NoProcess
  <2>2. PICK at \in {"running", "closing", "ended"}, waiting \in BOOLEAN :
            /\ process' = [process EXCEPT ![s] = [process[s] EXCEPT !.at = at, !.waiting = waiting]]
            /\ process[s].at = "ended" => at = "ended"
    <3>1. CASE Closes(s)
      <4> DEFINE at == IF process[s].registered THEN "closing" ELSE "ended"
      <4>1. process' = [process EXCEPT ![s] = [process[s] EXCEPT !.at = at, !.waiting = process[s].waiting]]
            /\ process[s].at = "running" /\ process[s].waiting \in BOOLEAN
        BY <2>1, <3>1 DEF Closes, Processes
      <4> QED  BY <4>1
    <3>2. CASE GivesUp(s)
      <4>1. PICK at \in {process[s].at, "ended"} : process' = [process EXCEPT ![s].waiting = FALSE, ![s].at = at]
        BY <3>2 DEF GivesUp
      <4>2. process' = [process EXCEPT ![s] = [process[s] EXCEPT !.at = at, !.waiting = FALSE]]
        BY <2>1, <4>1 DEF Processes, RegistryInv, RegistryTypes
      <4> QED  BY <2>1, <4>1, <4>2 DEF Processes
    <3> QED  BY <1>2, <3>1, <3>2
  <2> DEFINE p == [process[s] EXCEPT !.at = at, !.waiting = waiting]
  <2>3. p \in Processes /\ p.sequence = process[s].sequence /\ p.at = at /\ p.registered = process[s].registered
    BY <2>1, <2>2 DEF Processes
  <2>4. ~process[s].registered => process[s].sequence = 0
    BY <2>1 DEF RegistryInv, SequencesStart
  <2>5. process[s].sequence \in Nat
    BY <2>1 DEF Processes
  <2>6. process' = [process EXCEPT ![s] = p] /\ UNCHANGED <<reports, sessions, instance>>
    BY <1>2, <2>2 DEF Closes, GivesUp
  <2> HIDE DEF p
  <2>7. /\ process[s].at # "unused" => p.sequence >= process[s].sequence
        /\ process[s].at = "ended" => p.at = "ended" /\ p.sequence = process[s].sequence
        /\ ~p.registered => p.sequence = 0
    BY <2>2, <2>3, <2>4, <2>5
  <2> QED  BY <2>3, <2>6, <2>7, ProcessPreserves
<1> QED  BY <1>1, <1>2

\* A report that changes a table is a new registration, or news of the session that is known.
LEMMA ReceiveTables ==
  ASSUME RegistryInv, NEW m \in reports, Receive(m)
  PROVE  /\ \/ UNCHANGED <<instance, sessions>>
            \/ /\ instance' = [instance EXCEPT ![m.worker] = Heard(m)]
               /\ \/ sessions[m.session] = NoSession /\ sessions' = [sessions EXCEPT ![m.session] = m.worker]
                  \/ Newer(m) /\ UNCHANGED sessions
         /\ reports' = reports \ {m}
         /\ \/ UNCHANGED process
            \/ \E p \in Processes :
                  /\ process' = [process EXCEPT ![m.session] = p]
                  /\ p.sequence = process[m.session].sequence /\ p.at \in {process[m.session].at, "ended"}
                  /\ process[m.session].registered => p.registered
<1>1. \/ UNCHANGED <<instance, sessions>>
      \/ /\ instance' = [instance EXCEPT ![m.worker] = Heard(m)]
         /\ \/ sessions[m.session] = NoSession /\ sessions' = [sessions EXCEPT ![m.session] = m.worker]
            \/ Newer(m) /\ UNCHANGED sessions
  BY DEF Receive, Acceptable, KnownSession
<1>2. ASSUME ~UNCHANGED process
      PROVE  \E p \in Processes :
                 /\ process' = [process EXCEPT ![m.session] = p]
                 /\ p.sequence = process[m.session].sequence /\ p.at \in {process[m.session].at, "ended"}
                 /\ process[m.session].registered => p.registered
  <2>1. process' = [process EXCEPT ![m.session] =
            [process[m.session] EXCEPT !.waiting = FALSE, !.registered = process[m.session].registered \/ Acceptable(m),
                      !.at = IF Acceptable(m) THEN process[m.session].at ELSE "ended"]]
    BY <1>2 DEF Receive
  <2> DEFINE q == process[m.session]
             registered == q.registered \/ Acceptable(m)
             at == IF Acceptable(m) THEN q.at ELSE "ended"
             p == [q EXCEPT !.waiting = FALSE, !.registered = registered, !.at = at]
  <2>2. m.session \in WorkSessions /\ q \in Processes
    BY DEF RegistryInv, RegistryTypes, ReportsOfProcesses, ReportRows, NoProcess
  <2>3. registered \in BOOLEAN /\ at \in {q.at, "ended"} /\ (q.registered => registered)
    OBVIOUS
  <2>4. process' = [process EXCEPT ![m.session] = p]
    BY <2>1
  <2> HIDE DEF registered, at, q
  <2>5. p \in Processes /\ p.sequence = q.sequence /\ p.at = at /\ p.registered = registered
    BY <2>2, <2>3 DEF Processes
  <2> HIDE DEF p
  <2>6. \E x \in Processes :
            /\ process' = [process EXCEPT ![m.session] = x]
            /\ x.sequence = q.sequence /\ x.at \in {q.at, "ended"}
            /\ q.registered => x.registered
    BY <2>3, <2>4, <2>5
  <2> QED  BY <2>6 DEF q
<1> QED  BY <1>1, <1>2 DEF Receive

\* No two names for one session: a session is a worker's, and a name is not one of the sessions.
LEMMA HeardRow ==
  ASSUME RegistryInv, NEW m \in reports
  PROVE  /\ m \in ReportRows /\ m.worker \in Workers /\ m.session \in WorkSessions /\ m.sequence \in Nat
         /\ Heard(m) \in Instances /\ Heard(m).session = m.session /\ Heard(m).sequence = m.sequence
         /\ Heard(m).stopped = m.stopped /\ Heard(m).heard = "online"
  BY DEF RegistryInv, RegistryTypes, ReportRows, Heard, Instances

LEMMA ReceivePreserves ==
  ASSUME RegistryInv, NEW m \in reports, Receive(m)
  PROVE  RegistryInv'
<1>0. /\ m \in ReportRows /\ m.worker \in Workers /\ m.session \in WorkSessions /\ m.sequence \in Nat
      /\ Heard(m) \in Instances /\ Heard(m).session = m.session /\ Heard(m).sequence = m.sequence
      /\ Heard(m).stopped = m.stopped
  BY HeardRow
<1>1. process[m.session].at # "unused" /\ process[m.session] \in Processes /\ process[m.session].sequence \in Nat
      /\ m.sequence <= process[m.session].sequence
      /\ (m.stopped => process[m.session].at = "ended" /\ m.sequence = process[m.session].sequence)
  BY <1>0 DEF RegistryInv, RegistryTypes, ReportsOfProcesses, Processes, NoProcess
<1>2. /\ process' \in [WorkSessions -> Processes \cup {NoProcess}]
      /\ SequencesStart'
      /\ \A s \in WorkSessions :
            /\ process'[s].sequence = process[s].sequence \/ process[s].at = "unused"
            /\ process[s].at # "unused" => process'[s].at # "unused"
            /\ process[s].at = "ended" => process'[s].at = "ended"
            /\ process[s].at = "unused" => process'[s] = process[s]
  <2>1. CASE UNCHANGED process
    BY <2>1 DEF RegistryInv, RegistryTypes, SequencesStart
  <2>2. CASE \E p \in Processes :
                 /\ process' = [process EXCEPT ![m.session] = p]
                 /\ p.sequence = process[m.session].sequence /\ p.at \in {process[m.session].at, "ended"}
                 /\ process[m.session].registered => p.registered
    <3>1. PICK p \in Processes :
                 /\ process' = [process EXCEPT ![m.session] = p]
                 /\ p.sequence = process[m.session].sequence /\ p.at \in {process[m.session].at, "ended"}
                 /\ process[m.session].registered => p.registered
      BY <2>2
    <3>2. process'[m.session] = p /\ \A s \in WorkSessions : s # m.session => process'[s] = process[s]
      BY <1>0, <3>1 DEF RegistryInv, RegistryTypes
    <3>3. process' \in [WorkSessions -> Processes \cup {NoProcess}]
      BY <1>0, <3>1 DEF RegistryInv, RegistryTypes
    <3>4. SequencesStart'
      BY <1>1, <3>1, <3>2 DEF RegistryInv, SequencesStart
    <3> QED  BY <1>1, <3>1, <3>2, <3>3, <3>4
  <2> QED  BY <2>1, <2>2, ReceiveTables
<1>3. ReportsOfProcesses'
  <2> SUFFICES ASSUME NEW x \in reports'
               PROVE  /\ process'[x.session].at # "unused"
                      /\ x.sequence <= process'[x.session].sequence
                      /\ x.stopped => process'[x.session].at = "ended" /\ x.sequence = process'[x.session].sequence
    BY DEF ReportsOfProcesses
  <2>1. x \in reports /\ x.session \in WorkSessions
    BY ReceiveTables DEF RegistryInv, RegistryTypes, ReportRows
  <2> QED  BY <1>2, <2>1 DEF RegistryInv, ReportsOfProcesses
<1>4. RegistryTypes' /\ InstancesRegistered'
  <2>1. CASE UNCHANGED <<instance, sessions>>
    <3>1. \A w \in Workers : instance[w] # NoInstance => instance[w].session \in WorkSessions
      BY DEF RegistryInv, RegistryTypes, Instances
    <3>2. RegistryTypes'
      BY <1>2, <2>1, ReceiveTables DEF RegistryInv, RegistryTypes
    <3>3. InstancesRegistered'
      BY <1>2, <2>1, <3>1 DEF RegistryInv, InstancesRegistered
    <3> QED  BY <3>2, <3>3
  <2>2. CASE /\ instance' = [instance EXCEPT ![m.worker] = Heard(m)]
             /\ \/ sessions[m.session] = NoSession /\ sessions' = [sessions EXCEPT ![m.session] = m.worker]
                \/ Newer(m) /\ UNCHANGED sessions
    <3>1. /\ instance' \in [Workers -> Instances \cup {NoInstance}] /\ instance'[m.worker] = Heard(m)
          /\ \A w \in Workers : w # m.worker => instance'[w] = instance[w]
      BY <1>0, <2>2 DEF RegistryInv, RegistryTypes
    <3>2. /\ sessions' \in [WorkSessions -> Workers \cup {NoSession}] /\ sessions'[m.session] # NoSession
          /\ \A s \in WorkSessions : sessions[s] # NoSession => sessions'[s] # NoSession
      <4>1. CASE sessions' = [sessions EXCEPT ![m.session] = m.worker]
        BY <1>0, <4>1, RegistryAssumption DEF RegistryInv, RegistryTypes
      <4>2. CASE Newer(m) /\ UNCHANGED sessions
        <5>1. instance[m.worker].session = m.session /\ instance[m.worker] # NoInstance
          BY <1>0, <4>2, RegistryAssumption DEF Newer, NoInstance
        <5> QED  BY <1>0, <4>2, <5>1 DEF RegistryInv, RegistryTypes, InstancesRegistered
      <4> QED  BY <2>2, <4>1, <4>2
    <3>3. RegistryTypes'
      BY <1>2, <3>1, <3>2, ReceiveTables DEF RegistryInv, RegistryTypes
    <3>4. InstancesRegistered'
      <4> SUFFICES ASSUME NEW w \in Workers, instance'[w] # NoInstance
                   PROVE  LET s == instance'[w].session IN
                          /\ sessions'[s] # NoSession
                          /\ process'[s].at # "unused"
                          /\ instance'[w].stopped => process'[s].at = "ended" /\ process'[s].sequence = instance'[w].sequence
        BY DEF InstancesRegistered
      <4>1. CASE w = m.worker
        BY <1>0, <1>1, <1>2, <3>1, <3>2, <4>1
      <4>2. CASE w # m.worker
        <5>1. instance'[w] = instance[w] /\ instance[w].session \in WorkSessions
          BY <3>1, <4>2 DEF RegistryInv, RegistryTypes, Instances
        <5> QED  BY <1>2, <3>2, <5>1 DEF RegistryInv, InstancesRegistered
      <4> QED  BY <4>1, <4>2
    <3> QED  BY <3>3, <3>4
  <2> QED  BY <2>1, <2>2, ReceiveTables
<1> QED  BY <1>2, <1>3, <1>4 DEF RegistryInv

LEMMA SilencePreserves ==
  ASSUME RegistryInv, NEW w \in Workers, Silence(w)
  PROVE  RegistryInv'
<1>1. PICK heard \in {"delayed", "offline"} : instance' = [instance EXCEPT ![w] = [instance[w] EXCEPT !.heard = heard]]
  BY DEF Silence, RegistryInv, RegistryTypes
<1>2. instance[w] \in Instances /\ UNCHANGED <<process, reports, sessions>>
  BY DEF Silence, RegistryInv, RegistryTypes, NoInstance
<1> DEFINE x == [instance[w] EXCEPT !.heard = heard]
<1>3. x \in Instances /\ x.session = instance[w].session /\ x.sequence = instance[w].sequence
      /\ x.stopped = instance[w].stopped
  BY <1>2 DEF Instances
<1>4. instance' = [instance EXCEPT ![w] = x]
  BY <1>1
<1> HIDE DEF x
<1>5. /\ instance' \in [Workers -> Instances \cup {NoInstance}] /\ instance'[w] = x
      /\ \A y \in Workers : y # w => instance'[y] = instance[y]
  BY <1>3, <1>4 DEF RegistryInv, RegistryTypes
<1>6. instance[w] # NoInstance
  BY DEF Silence, NoInstance
<1>7. InstancesRegistered'
  BY <1>2, <1>3, <1>5, <1>6 DEF RegistryInv, InstancesRegistered
<1> QED  BY <1>2, <1>5, <1>7 DEF RegistryInv, RegistryTypes, ReportsOfProcesses, SequencesStart

LEMMA RegistryStepInv ==
  ASSUME RegistryInv, RegistryStep \/ UNCHANGED registryVars
  PROVE  RegistryInv'
<1>1. CASE UNCHANGED registryVars
  BY <1>1 DEF registryVars, RegistryInv, RegistryTypes, ReportsOfProcesses, SequencesStart, InstancesRegistered
<1>2. ASSUME NEW m \in reports, ReportLost(m) PROVE RegistryInv'
  BY <1>2 DEF ReportLost, RegistryInv, RegistryTypes, ReportsOfProcesses, SequencesStart, InstancesRegistered
<1>3. CASE RegistryStep
  BY <1>2, <1>3, SendOncePreserves, LifePreserves, ReceivePreserves, SilencePreserves DEF RegistryStep
<1> QED  BY <1>1, <1>3

\* What a step does to what is known of a worker.
LEMMA RegistryStepSound ==
  ASSUME RegistryInv, RegistryStep \/ UNCHANGED registryVars, NEW w \in Workers
  PROVE  ReportHonest(instance[w], instance'[w])
<1>0. instance[w] \in Instances \cup {NoInstance} /\ instance[w].sequence \in Nat
  BY DEF RegistryInv, RegistryTypes, Instances, NoInstance
<1>1. ASSUME UNCHANGED instance PROVE ReportHonest(instance[w], instance'[w])
  BY <1>0, <1>1 DEF ReportHonest
<1>2. ASSUME NEW m \in reports, Receive(m) PROVE ReportHonest(instance[w], instance'[w])
  <2>1. CASE m.worker # w \/ UNCHANGED instance
    <3>1. instance'[w] = instance[w]
      BY <1>2, <2>1, ReceiveTables DEF RegistryInv, RegistryTypes
    <3> QED  BY <1>0, <3>1 DEF ReportHonest
  <2>2. CASE m.worker = w /\ ~UNCHANGED instance
    <3>1. /\ instance'[w] = Heard(m)
          /\ sessions[m.session] = NoSession \/ Newer(m)
      BY <1>2, <2>2, ReceiveTables DEF RegistryInv, RegistryTypes
    <3>2. /\ m.session \in WorkSessions /\ m.sequence \in Nat /\ Heard(m).session = m.session
          /\ Heard(m).sequence = m.sequence /\ Heard(m).stopped = m.stopped
      BY HeardRow
    <3>3. CASE Newer(m)
      <4>1. instance[w].session = m.session /\ instance[w].sequence < m.sequence
        BY <2>2, <3>3 DEF Newer
      <4>2. instance[w].stopped => FALSE
        <5>1. instance[w] # NoInstance
          BY <3>2, <4>1, RegistryAssumption DEF NoInstance
        <5>2. instance[w].stopped => process[m.session].sequence = instance[w].sequence
          BY <4>1, <5>1 DEF RegistryInv, InstancesRegistered
        <5>3. m.sequence <= process[m.session].sequence
          BY DEF RegistryInv, ReportsOfProcesses
        <5> QED  BY <1>0, <3>2, <4>1, <5>2, <5>3
      <4> QED  BY <1>0, <3>1, <3>2, <4>1, <4>2 DEF ReportHonest
    <3>4. CASE sessions[m.session] = NoSession
      <4>1. instance[w].session # m.session
        <5>1. CASE instance[w] = NoInstance
          BY <3>2, <5>1, RegistryAssumption DEF NoInstance
        <5>2. CASE instance[w] # NoInstance
          BY <3>4, <5>2 DEF RegistryInv, InstancesRegistered
        <5> QED  BY <5>1, <5>2
      <4> QED  BY <3>1, <3>2, <3>4, <4>1 DEF ReportHonest
    <3> QED  BY <3>1, <3>3, <3>4
  <2> QED  BY <2>1, <2>2
<1>3. ASSUME NEW x \in Workers, Silence(x) PROVE ReportHonest(instance[w], instance'[w])
  <2>1. CASE x = w
    <3>1. instance[w] \in Instances
      BY <1>3, <2>1 DEF Silence, RegistryInv, RegistryTypes, NoInstance
    <3>2. /\ instance'[w].session = instance[w].session /\ instance'[w].sequence = instance[w].sequence
          /\ instance'[w].stopped = instance[w].stopped /\ instance'[w].heard # "online"
      BY <1>3, <2>1, <3>1 DEF Silence, RegistryInv, RegistryTypes, Instances
    <3> QED  BY <1>0, <3>2 DEF ReportHonest
  <2>2. CASE x # w
    <3>1. instance'[w] = instance[w]
      BY <1>3, <2>2 DEF Silence, RegistryInv, RegistryTypes
    <3> QED  BY <1>0, <3>1 DEF ReportHonest
  <2> QED  BY <2>1, <2>2
<1>4. CASE UNCHANGED registryVars
  BY <1>1, <1>4 DEF registryVars
<1>5. CASE RegistryStep
  BY <1>1, <1>2, <1>3, <1>5 DEF RegistryStep, SendOnce, Closes, GivesUp, Starts, ReportLost
<1> QED  BY <1>4, <1>5

-----------------------------------------------------------------------------
(***************************************************************************)
(* Watches: while the epoch stands a poll holds the grant of its watch, and *)
(* what it is about to save stays true.                                    *)
(***************************************************************************)
\* A watch, with numbers that no bound is needed for.
WatchRows ==
    [run : Trainings \cup {NoTraining}, status : {"none"} \cup Unfinished \cup WatchEnded,
     seen : {"nothing", "running", "ended"}, grant : Int, epoch : Nat, rest : {"due", "leased", "paused"}, over : BOOLEAN]

WatchTypes ==
    /\ watch \in [Watches -> WatchRows]
    /\ training \in [Trainings -> {"running", "ended", "deleted"}]

\* A watch that was created has a run, and no newer grant than its epoch.
WatchRowsSound ==
    \A w \in Watches :
        /\ watch[w].status # "none" => watch[w].run \in Trainings
        /\ watch[w].grant <= watch[w].epoch

\* A poll is of a watch that exists; while the epoch stands, it holds the watch's grant.
PollOf(w, p) ==
    /\ w \in Watches /\ watch[w].status # "none"
    /\ p.epoch \in Nat /\ p.epoch <= watch[w].epoch
    /\ p.grant \in Int /\ p.grant <= watch[w].epoch
    /\ p.epoch = watch[w].epoch /\ watch[w].status = "active" => p.grant = watch[w].grant

\* What a poll is about to save is true, and stays true.
OutcomeTrue(w, p) ==
    /\ p.outcome \in PollOutcomes
    /\ p.outcome.status = "completed" => training[watch[w].run] # "running"
    /\ p.outcome.status = "waiting_auth" => <<w, p.grant>> \notin grants

PollSound(q) ==
    /\ poller[q].at \in {"asking", "saving"} => PollOf(poller[q].watch, poller[q])
    /\ poller[q].at = "saving" => OutcomeTrue(poller[q].watch, poller[q])

PollsSound == \A q \in Pollers : PollSound(q)

\* Of the watches that are not over there are few, of different runs.
OpenFew ==
    /\ IsFiniteSet(Open(Unfinished)) /\ Cardinality(Open(Unfinished)) <= WatchLimit
    /\ \A v, w \in Open(Unfinished) : watch[v].run = watch[w].run => v = w

CompletedTrue == \A w \in Open({"completed"}) : training[watch[w].run] # "running"

WatchInv ==
    /\ WatchTypes /\ poller = [q \in Pollers |-> poller[q]]
    /\ WatchRowsSound /\ PollsSound /\ OpenFew /\ CompletedTrue

-----------------------------------------------------------------------------
\* What every step keeps of a watch: its run, and its grant while neither epoch nor status moves.
WatchGoesOn(w) ==
    watch[w].status # "none" =>
        /\ watch'[w].status # "none" /\ watch'[w].run = watch[w].run
        /\ watch'[w].epoch >= watch[w].epoch
        /\ watch'[w].epoch = watch[w].epoch /\ watch'[w].status = "active" =>
             watch[w].status = "active" /\ watch'[w].grant = watch[w].grant

\* Grants are only added for a watch that is new, or with an epoch that is.
GrantsNew ==
    \A v \in Watches : \A g \in Int : <<v, g>> \in grants' =>
        <<v, g>> \in grants \/ watch[v].status = "none" \/ g > watch[v].epoch

TrainingsGoOn == \A t \in Trainings : training[t] # "running" => training'[t] # "running"

LEMMA WatchInitInv == WatchesInit => WatchInv
<1> SUFFICES ASSUME WatchesInit PROVE WatchInv
  OBVIOUS
<1>1. WatchTypes /\ WatchRowsSound
  BY DEF WatchesInit, WatchTypes, WatchRowsSound, WatchRows, NoWatch, Unfinished, WatchEnded, NoGrant
<1>2. Open(Unfinished) = {} /\ Open({"completed"}) = {}
  BY DEF WatchesInit, Open, NoWatch, Unfinished
<1>3. OpenFew /\ CompletedTrue
  BY <1>2, FS_EmptySet, WatchesAssumption DEF OpenFew, CompletedTrue
<1>4. poller = [q \in Pollers |-> poller[q]] /\ PollsSound
  <2>1. poller = [q \in Pollers |-> poller[q]]
    BY DEF WatchesInit
  <2>2. \A q \in Pollers : poller[q].at = "idle"
    BY DEF WatchesInit, IdlePoller
  <2>3. PollsSound
    BY <2>2 DEF PollsSound, PollSound
  <2> QED  BY <2>1, <2>3
<1> QED  BY <1>1, <1>3, <1>4 DEF WatchInv

LEMMA PollKept ==
  ASSUME WatchInv, WatchTypes', \A w \in Watches : WatchGoesOn(w), GrantsNew, TrainingsGoOn,
         NEW q \in Pollers, poller'[q] = poller[q]
  PROVE  PollSound(q)'
<1> DEFINE p == poller[q]
           w == p.watch
<1>1. ASSUME p.at \in {"asking", "saving"} PROVE PollOf(poller[q].watch, poller[q])'
  <2>1. PollOf(w, p)
    BY <1>1 DEF WatchInv, PollsSound, PollSound
  <2>2. watch[w].epoch \in Nat /\ watch'[w].epoch \in Nat
    BY <2>1 DEF WatchInv, WatchTypes, WatchRows, PollOf
  <2>3. WatchGoesOn(w)
    BY <2>1 DEF PollOf
  <2> QED  BY <2>1, <2>2, <2>3 DEF PollOf, WatchGoesOn
<1>2. ASSUME p.at = "saving" PROVE OutcomeTrue(poller[q].watch, poller[q])'
  <2>1. PollOf(w, p) /\ OutcomeTrue(w, p)
    BY <1>2 DEF WatchInv, PollsSound, PollSound
  <2>2. watch[w].run \in Trainings /\ watch'[w].run = watch[w].run
    BY <2>1 DEF PollOf, WatchInv, WatchRowsSound, WatchGoesOn
  <2>3. p.grant <= watch[w].epoch /\ watch[w].status # "none" /\ w \in Watches
        /\ watch[w].epoch \in Nat /\ p.grant \in Int
    BY <2>1 DEF PollOf, WatchInv, WatchTypes, WatchRows
  <2>4. <<w, p.grant>> \in grants' => <<w, p.grant>> \in grants
    BY <2>3 DEF GrantsNew
  <2> QED  BY <2>1, <2>2, <2>4 DEF OutcomeTrue, TrainingsGoOn
<1> QED  BY <1>1, <1>2 DEF PollSound

\* Watches that only leave the unfinished ones stay few.
LEMMA OpenKept ==
  ASSUME WatchInv, \A w \in Watches : WatchGoesOn(w),
         \A w \in Watches : watch'[w].status \in Unfinished => watch[w].status \in Unfinished
  PROVE  OpenFew'
<1>1. Open(Unfinished)' \subseteq Open(Unfinished)
  BY DEF Open
<1>2. IsFiniteSet(Open(Unfinished)) /\ Cardinality(Open(Unfinished)) <= WatchLimit
  BY DEF WatchInv, OpenFew
<1>3. IsFiniteSet(Open(Unfinished)') /\ Cardinality(Open(Unfinished)') <= Cardinality(Open(Unfinished))
  BY <1>1, <1>2, FS_Subset
<1>4. Cardinality(Open(Unfinished)') \in Nat /\ Cardinality(Open(Unfinished)) \in Nat
  BY <1>2, <1>3, FS_CardinalityType
<1>5. Cardinality(Open(Unfinished)') <= WatchLimit
  BY <1>2, <1>3, <1>4, WatchesAssumption
<1>6. \A w \in Open(Unfinished)' : w \in Open(Unfinished) /\ watch'[w].run = watch[w].run
  BY <1>1 DEF Open, WatchGoesOn, Unfinished
<1>7. \A v, w \in Open(Unfinished)' : watch'[v].run = watch'[w].run => v = w
  BY <1>6 DEF WatchInv, OpenFew
<1> QED  BY <1>3, <1>5, <1>7 DEF OpenFew

\* Watches that were completed stay so, and their training does not run again.
LEMMA CompletedKept ==
  ASSUME WatchInv, \A w \in Watches : WatchGoesOn(w), TrainingsGoOn,
         \A w \in Watches : watch'[w].status = "completed" =>
             watch[w].status = "completed" \/ (watch[w].status # "none" /\ training[watch[w].run] # "running")
  PROVE  CompletedTrue'
<1> SUFFICES ASSUME NEW w \in Watches, watch'[w].status = "completed"
             PROVE  training'[watch'[w].run] # "running"
  BY DEF CompletedTrue, Open
<1>1. watch[w].status # "none" /\ training[watch[w].run] # "running"
  BY DEF WatchInv, CompletedTrue, Open
<1>2. watch'[w].run = watch[w].run /\ watch[w].run \in Trainings
  BY <1>1 DEF WatchGoesOn, WatchInv, WatchRowsSound
<1> QED  BY <1>1, <1>2 DEF TrainingsGoOn

\* A step that changes one watch, by its user or by time, and no poller.
LEMMA RowPreserves ==
  ASSUME WatchInv, NEW w \in Watches, NEW x \in WatchRows, watch' = [watch EXCEPT ![w] = x],
         UNCHANGED <<poller, training>>, watch[w].status \in Unfinished,
         x.status \in Unfinished \cup {"cancelled"}, x.run = watch[w].run, x.grant <= x.epoch,
         x.epoch >= watch[w].epoch,
         x.epoch = watch[w].epoch /\ x.status = "active" => watch[w].status = "active" /\ x.grant = watch[w].grant,
         grants' \subseteq grants \cup {<<w, watch[w].epoch + 1>>}
  PROVE  WatchInv'
<1>1. watch \in [Watches -> WatchRows] /\ watch[w].epoch \in Nat /\ watch[w].status # "none"
  BY DEF WatchInv, WatchTypes, WatchRows, Unfinished
<1>2. WatchTypes' /\ watch'[w] = x /\ \A v \in Watches : v # w => watch'[v] = watch[v]
  BY <1>1 DEF WatchInv, WatchTypes
<1>3. \A v \in Watches : WatchGoesOn(v)
  <2> SUFFICES ASSUME NEW v \in Watches PROVE WatchGoesOn(v)
    OBVIOUS
  <2>1. CASE v = w
    BY <1>2, <2>1 DEF WatchGoesOn, Unfinished
  <2>2. CASE v # w
    <3>1. watch[v].epoch \in Nat
      BY <1>1 DEF WatchRows
    <3> QED  BY <1>2, <2>2, <3>1 DEF WatchGoesOn
  <2> QED  BY <2>1, <2>2
<1>4. GrantsNew
  <2> SUFFICES ASSUME NEW v \in Watches, NEW g \in Int, <<v, g>> \in grants', <<v, g>> \notin grants
               PROVE  g > watch[v].epoch
    BY DEF GrantsNew
  <2>1. v = w /\ g = watch[w].epoch + 1
    OBVIOUS
  <2> QED  BY <1>1, <2>1
<1>5. TrainingsGoOn
  BY DEF TrainingsGoOn
<1>6. WatchRowsSound'
  BY <1>1, <1>2 DEF WatchInv, WatchRowsSound
<1>7. PollsSound'
  BY <1>2, <1>3, <1>4, <1>5, PollKept DEF PollsSound
<1>8. OpenFew'
  BY <1>2, <1>3, OpenKept
<1>9. CompletedTrue'
  BY <1>2, <1>3, <1>5, CompletedKept DEF Unfinished
<1> QED  BY <1>2, <1>6, <1>7, <1>8, <1>9 DEF WatchInv

LEMMA RevokedRow ==
  ASSUME NEW r \in WatchRows
  PROVE  /\ Revoked(r) \in WatchRows /\ Revoked(r).status = r.status /\ Revoked(r).run = r.run
         /\ Revoked(r).epoch = r.epoch + 1 /\ Revoked(r).seen = r.seen
<1> DEFINE epoch == r.epoch + 1
           rest == "due"
<1>1. epoch \in Nat /\ rest \in {"due", "leased", "paused"}
  BY DEF WatchRows
<1>2. Revoked(r) = [r EXCEPT !.epoch = epoch, !.rest = rest]
  BY DEF Revoked, WatchRows
<1> HIDE DEF epoch, rest
<1>3. /\ Revoked(r) \in WatchRows /\ Revoked(r).status = r.status /\ Revoked(r).run = r.run
      /\ Revoked(r).epoch = epoch /\ Revoked(r).seen = r.seen
  BY <1>1, <1>2 DEF WatchRows
<1> QED  BY <1>3 DEF epoch

\* A row with another status and grant.
Decided(r, status, newGrant) == [r EXCEPT !.status = status, !.grant = newGrant]

LEMMA DecidedRow ==
  ASSUME NEW r \in WatchRows, NEW status \in Unfinished \cup WatchEnded, NEW newGrant \in Int
  PROVE  /\ Decided(r, status, newGrant) \in WatchRows
         /\ Decided(r, status, newGrant).status = status /\ Decided(r, status, newGrant).grant = newGrant
         /\ Decided(r, status, newGrant).run = r.run /\ Decided(r, status, newGrant).epoch = r.epoch
         /\ Decided(r, status, newGrant).seen = r.seen
  BY DEF Decided, WatchRows

LEMMA UserStepsPreserve ==
  ASSUME WatchInv, NEW w \in Watches, CancelWatch(w) \/ ResumeWatch(w) \/ TimePasses(w)
  PROVE  WatchInv'
<1>1. watch[w] \in WatchRows /\ watch \in [Watches -> WatchRows] /\ watch[w].grant <= watch[w].epoch
  BY DEF WatchInv, WatchTypes, WatchRowsSound
<1>2. CASE CancelWatch(w)
  <2> DEFINE x == [Revoked(watch[w]) EXCEPT !.status = "cancelled", !.grant = NoGrant]
  <2>1. x \in WatchRows /\ x.status = "cancelled" /\ x.run = watch[w].run /\ x.epoch = watch[w].epoch + 1 /\ x.grant = -1
    <3> DEFINE r == Revoked(watch[w])
    <3>1. r \in WatchRows /\ r.run = watch[w].run /\ r.epoch = watch[w].epoch + 1
          /\ "cancelled" \in Unfinished \cup WatchEnded /\ NoGrant = -1
      BY <1>1, RevokedRow DEF WatchEnded, NoGrant
    <3>3. x = Decided(r, "cancelled", NoGrant)
      BY DEF Decided
    <3> HIDE DEF x, r
    <3>2. x \in WatchRows /\ x.status = "cancelled" /\ x.run = r.run /\ x.epoch = r.epoch /\ x.grant = -1
      BY <3>1, <3>3, DecidedRow
    <3> QED  BY <3>1, <3>2
  <2>2. /\ watch' = [watch EXCEPT ![w] = x] /\ UNCHANGED <<poller, training, grants>> /\ watch[w].status \in Unfinished
    BY <1>2 DEF CancelWatch
  <2>3. watch[w].epoch \in Nat
    BY <1>1 DEF WatchRows
  <2> HIDE DEF x
  <2>4. /\ x.status \in Unfinished \cup {"cancelled"} /\ x.grant <= x.epoch /\ x.epoch >= watch[w].epoch
        /\ ~(x.epoch = watch[w].epoch /\ x.status = "active")
    BY <2>1, <2>3
  <2>5. grants' \subseteq grants \cup {<<w, watch[w].epoch + 1>>}
    BY <2>2
  <2> QED  BY <2>1, <2>2, <2>4, <2>5, RowPreserves
<1>3. CASE ResumeWatch(w)
  <2> DEFINE newGrant == watch[w].epoch + 1
             x == [Revoked(watch[w]) EXCEPT !.status = "active", !.grant = newGrant]
  <2>0. newGrant \in Nat
    BY <1>1 DEF WatchRows
  <2>1. x \in WatchRows /\ x.status = "active" /\ x.run = watch[w].run /\ x.epoch = watch[w].epoch + 1
        /\ x.grant = watch[w].epoch + 1
    <3> HIDE DEF newGrant
    <3>1. x \in WatchRows /\ x.status = "active" /\ x.run = watch[w].run /\ x.epoch = watch[w].epoch + 1
          /\ x.grant = newGrant
      <4> DEFINE r == Revoked(watch[w])
      <4>1. r \in WatchRows /\ r.run = watch[w].run /\ r.epoch = watch[w].epoch + 1
            /\ "active" \in Unfinished \cup WatchEnded
        BY <1>1, RevokedRow DEF Unfinished
      <4>2. x = Decided(r, "active", newGrant)
        BY DEF Decided
      <4> HIDE DEF r, x
      <4>3. x \in WatchRows /\ x.status = "active" /\ x.run = r.run /\ x.epoch = r.epoch /\ x.grant = newGrant
        BY <2>0, <4>1, <4>2, DecidedRow
      <4> QED  BY <4>1, <4>3
    <3> QED  BY <3>1 DEF newGrant
  <2>2. /\ watch' = [watch EXCEPT ![w] = x] /\ UNCHANGED <<poller, training>> /\ watch[w].status \in Unfinished
        /\ grants' = grants \cup {<<w, watch[w].epoch + 1>>}
    BY <1>3 DEF ResumeWatch
  <2>3. watch[w].epoch \in Nat
    BY <1>1 DEF WatchRows
  <2>4. x.status \in Unfinished
    BY <2>1 DEF Unfinished
  <2> HIDE DEF x, newGrant
  <2>5. x.grant <= x.epoch /\ x.epoch >= watch[w].epoch /\ x.epoch # watch[w].epoch
    BY <2>1, <2>3
  <2>6. grants' \subseteq grants \cup {<<w, watch[w].epoch + 1>>}
    BY <2>2
  <2> QED  BY <2>1, <2>2, <2>4, <2>5, <2>6, RowPreserves
<1>4. CASE TimePasses(w)
  <2>1. PICK rest \in {"due", "leased", "paused"}, over \in BOOLEAN :
             watch' = [watch EXCEPT ![w] = [watch[w] EXCEPT !.rest = rest, !.over = over]]
    <3>1. CASE watch' = [watch EXCEPT ![w].rest = "due"]
      <4>1. watch' = [watch EXCEPT ![w] = [watch[w] EXCEPT !.rest = "due", !.over = watch[w].over]]
            /\ watch[w].over \in BOOLEAN
        BY <1>1, <3>1 DEF WatchRows
      <4> QED  BY <4>1
    <3>2. CASE watch' = [watch EXCEPT ![w].over = TRUE]
      <4>1. watch' = [watch EXCEPT ![w] = [watch[w] EXCEPT !.rest = watch[w].rest, !.over = TRUE]]
            /\ watch[w].rest \in {"due", "leased", "paused"}
        BY <1>1, <3>2 DEF WatchRows
      <4> QED  BY <4>1
    <3> QED  BY <1>4, <3>1, <3>2 DEF TimePasses
  <2> DEFINE x == [watch[w] EXCEPT !.rest = rest, !.over = over]
  <2>2. x \in WatchRows /\ x.status = watch[w].status /\ x.run = watch[w].run /\ x.epoch = watch[w].epoch
        /\ x.grant = watch[w].grant
    BY <1>1, <2>1 DEF WatchRows
  <2>3. /\ watch' = [watch EXCEPT ![w] = x] /\ UNCHANGED <<poller, training, grants>> /\ watch[w].status \in Unfinished
    BY <1>4, <2>1 DEF TimePasses
  <2>4. watch[w].epoch \in Nat
    BY <1>1 DEF WatchRows
  <2> HIDE DEF x
  <2>5. x.grant <= x.epoch /\ x.epoch >= watch[w].epoch /\ x.status \in Unfinished
    BY <1>1, <2>2, <2>3, <2>4
  <2>6. grants' \subseteq grants \cup {<<w, watch[w].epoch + 1>>}
    BY <2>3
  <2> QED  BY <2>2, <2>3, <2>5, <2>6, RowPreserves
<1> QED  BY <1>2, <1>3, <1>4

LEMMA CreatePreserves ==
  ASSUME WatchInv, NEW w \in Watches, NEW t \in Trainings, CreateWatch(w, t)
  PROVE  WatchInv'
<1> DEFINE x == [NoWatch EXCEPT !.run = t, !.status = "active", !.grant = 0]
<1>1. watch \in [Watches -> WatchRows] /\ watch[w].status = "none"
  BY DEF WatchInv, WatchTypes, CreateWatch, NoWatch
<1>2. x \in WatchRows /\ x.status = "active" /\ x.run = t /\ x.epoch = 0 /\ x.grant = 0
  <2> DEFINE zero == 0
             status == "active"
  <2>1. zero \in Nat /\ zero \in Int /\ status \in {"none"} \cup Unfinished \cup WatchEnded
    BY DEF Unfinished
  <2>2. NoWatch \in WatchRows /\ NoWatch.epoch = 0
    BY DEF NoWatch, WatchRows, NoGrant
  <2>3. x = [NoWatch EXCEPT !.run = t, !.status = status, !.grant = zero]
    OBVIOUS
  <2> HIDE DEF x, zero, status
  <2>4. x \in WatchRows /\ x.status = status /\ x.run = t /\ x.epoch = NoWatch.epoch /\ x.grant = zero
    BY <2>1, <2>2, <2>3 DEF WatchRows
  <2> QED  BY <2>2, <2>4 DEF zero, status
<1>3. /\ watch' = [watch EXCEPT ![w] = x] /\ grants' = grants \cup {<<w, 0>>} /\ UNCHANGED <<poller, training>>
      /\ Creatable(t)
  BY DEF CreateWatch
<1> HIDE DEF x
<1>4. WatchTypes' /\ watch'[w] = x /\ \A v \in Watches : v # w => watch'[v] = watch[v]
  BY <1>1, <1>2, <1>3 DEF WatchInv, WatchTypes
<1>5. \A v \in Watches : WatchGoesOn(v)
  <2> SUFFICES ASSUME NEW v \in Watches, v # w PROVE WatchGoesOn(v)
    BY <1>1 DEF WatchGoesOn
  <2>1. watch[v].epoch \in Nat
    BY <1>1 DEF WatchRows
  <2> QED  BY <1>4, <2>1 DEF WatchGoesOn
<1>6. GrantsNew /\ TrainingsGoOn
  BY <1>1, <1>3 DEF GrantsNew, TrainingsGoOn
<1>7. WatchRowsSound'
  BY <1>2, <1>4 DEF WatchInv, WatchRowsSound
<1>8. PollsSound'
  BY <1>3, <1>4, <1>5, <1>6, PollKept DEF PollsSound
<1>9. CompletedTrue'
  BY <1>2, <1>4, <1>5, <1>6, CompletedKept
<1>10. OpenFew'
  <2>1. w \notin Open(Unfinished) /\ Open(Unfinished)' = Open(Unfinished) \cup {w}
    BY <1>1, <1>2, <1>4 DEF Open, Unfinished
  <2>2. IsFiniteSet(Open(Unfinished)) /\ Cardinality(Open(Unfinished)) < WatchLimit
    BY <1>3 DEF WatchInv, OpenFew, Creatable
  <2>3. IsFiniteSet(Open(Unfinished)') /\ Cardinality(Open(Unfinished)') = Cardinality(Open(Unfinished)) + 1
    BY <2>1, <2>2, FS_AddElement
  <2>4. Cardinality(Open(Unfinished)) \in Nat
    BY <2>2, FS_CardinalityType
  <2>5. Cardinality(Open(Unfinished)') <= WatchLimit
    BY <2>2, <2>3, <2>4, WatchesAssumption
  <2>6. \A v, u \in Open(Unfinished)' : watch'[v].run = watch'[u].run => v = u
    <3>1. \A v \in Open(Unfinished) : v \in Watches /\ watch[v].run # t /\ v # w
      BY <1>3, <2>1 DEF Creatable, Open
    <3> QED  BY <1>2, <1>4, <2>1, <3>1 DEF WatchInv, OpenFew
  <2> QED  BY <2>3, <2>5, <2>6 DEF OpenFew
<1> QED  BY <1>3, <1>4, <1>7, <1>8, <1>9, <1>10 DEF WatchInv

\* A row whose life is over.
Expired(r) == [r EXCEPT !.status = "expired", !.grant = NoGrant, !.epoch = @ + 1]

LEMMA ExpiredRow ==
  ASSUME NEW r \in WatchRows
  PROVE  /\ Expired(r) \in WatchRows /\ Expired(r).status = "expired" /\ Expired(r).run = r.run
         /\ Expired(r).epoch = r.epoch + 1 /\ Expired(r).grant = -1 /\ Expired(r).seen = r.seen
<1> DEFINE epoch == r.epoch + 1
           x == [r EXCEPT !.epoch = epoch]
<1>1. epoch \in Nat
  BY DEF WatchRows
<1>2. Expired(r) = Decided(x, "expired", NoGrant)
  BY DEF Expired, Decided, WatchRows
<1> HIDE DEF epoch
<1>3. x \in WatchRows /\ x.run = r.run /\ x.epoch = epoch /\ x.seen = r.seen
  BY <1>1 DEF WatchRows
<1>4. "expired" \in Unfinished \cup WatchEnded /\ NoGrant = -1
  BY DEF WatchEnded, NoGrant
<1> HIDE DEF x
<1>5. /\ Expired(r) \in WatchRows /\ Expired(r).status = "expired" /\ Expired(r).run = x.run
      /\ Expired(r).epoch = x.epoch /\ Expired(r).grant = -1 /\ Expired(r).seen = x.seen
  BY <1>2, <1>3, <1>4, DecidedRow
<1> QED  BY <1>3, <1>5 DEF epoch

LEMMA ExpireWatchesPreserves ==
  ASSUME WatchInv, NEW p \in Pollers, ExpireWatches(p)
  PROVE  WatchInv'
<1>1. watch \in [Watches -> WatchRows] /\ UNCHANGED <<training, grants>>
      /\ poller' = [poller EXCEPT ![p] = [at |-> "claiming"]]
  BY DEF WatchInv, WatchTypes, ExpireWatches
<1>2. \A w \in Watches :
         \/ watch'[w] = watch[w]
         \/ watch[w].status \in Unfinished
            /\ watch'[w] = Expired(watch[w])
  BY DEF ExpireWatches, Expired
<1>3. \A w \in Watches :
         /\ watch'[w] \in WatchRows
         /\ \/ watch'[w] = watch[w]
            \/ /\ watch[w].status \in Unfinished /\ watch'[w].status = "expired" /\ watch'[w].run = watch[w].run
               /\ watch'[w].epoch = watch[w].epoch + 1 /\ watch'[w].grant = -1
  BY <1>1, <1>2, ExpiredRow
<1>4. WatchTypes'
  <2>1. watch' \in [Watches -> WatchRows]
    BY <1>3 DEF ExpireWatches
  <2> QED  BY <1>1, <2>1 DEF WatchInv, WatchTypes
<1>5. \A w \in Watches : watch[w].epoch \in Nat
  BY <1>1 DEF WatchRows
<1>6. \A w \in Watches : WatchGoesOn(w)
  BY <1>3, <1>5 DEF WatchGoesOn
<1>7. GrantsNew /\ TrainingsGoOn
  BY <1>1 DEF GrantsNew, TrainingsGoOn
<1>8. WatchRowsSound'
  BY <1>3, <1>5 DEF WatchInv, WatchRowsSound, Unfinished
<1>9. poller' = [q \in Pollers |-> poller'[q]] /\ \A q \in Pollers : q # p => poller'[q] = poller[q]
  BY <1>1 DEF WatchInv
<1>10. poller'[p].at = "claiming"
  BY <1>1 DEF WatchInv
<1>10a. PollSound(p)'
  BY <1>10 DEF PollSound
<1>11. PollsSound'
  BY <1>10a, <1>4, <1>6, <1>7, <1>9, <1>10, PollKept DEF PollsSound
<1>12. OpenFew'
  BY <1>3, <1>6, OpenKept DEF Unfinished
<1>13. CompletedTrue'
  BY <1>3, <1>6, <1>7, CompletedKept
<1> QED  BY <1>4, <1>8, <1>9, <1>11, <1>12, <1>13 DEF WatchInv

LEMMA ClaimPreserves ==
  ASSUME WatchInv, NEW p \in Pollers, NEW w \in Watches, ClaimWatch(p, w)
  PROVE  WatchInv'
<1> DEFINE x == [watch[w] EXCEPT !.epoch = watch[w].epoch + 1, !.rest = "leased"]
           q == [at |-> "asking", watch |-> w, epoch |-> watch[w].epoch + 1, grant |-> watch[w].grant]
<1>1. watch \in [Watches -> WatchRows] /\ watch[w] \in WatchRows /\ watch[w].epoch \in Nat /\ watch[w].grant \in Int
      /\ watch[w].grant <= watch[w].epoch /\ watch[w].status = "active"
  BY DEF WatchInv, WatchTypes, WatchRows, WatchRowsSound, ClaimWatch
<1>2. x \in WatchRows /\ x.status = "active" /\ x.run = watch[w].run /\ x.epoch = watch[w].epoch + 1 /\ x.grant = watch[w].grant
  <2> DEFINE epoch == watch[w].epoch + 1
             rest == "leased"
  <2>1. epoch \in Nat /\ rest \in {"due", "leased", "paused"} /\ x = [watch[w] EXCEPT !.epoch = epoch, !.rest = rest]
    BY <1>1
  <2> HIDE DEF x, epoch, rest
  <2>2. x \in WatchRows /\ x.status = "active" /\ x.run = watch[w].run /\ x.epoch = epoch /\ x.grant = watch[w].grant
    BY <1>1, <2>1 DEF WatchRows
  <2> QED  BY <2>2 DEF epoch
<1>3. watch' = [watch EXCEPT ![w] = x] /\ poller' = [poller EXCEPT ![p] = q] /\ UNCHANGED <<training, grants>>
  BY <1>1 DEF ClaimWatch
<1>4. q.at = "asking" /\ q.watch = w /\ q.epoch = watch[w].epoch + 1 /\ q.grant = watch[w].grant
  OBVIOUS
<1> HIDE DEF x, q
<1>5. WatchTypes' /\ watch'[w] = x /\ \A v \in Watches : v # w => watch'[v] = watch[v]
  BY <1>1, <1>2, <1>3 DEF WatchInv, WatchTypes
<1>6. \A v \in Watches : watch[v].epoch \in Nat
  BY <1>1 DEF WatchRows
<1>7. \A v \in Watches : WatchGoesOn(v)
  BY <1>1, <1>2, <1>5, <1>6 DEF WatchGoesOn
<1>8. GrantsNew /\ TrainingsGoOn
  BY <1>3 DEF GrantsNew, TrainingsGoOn
<1>9. poller' = [r \in Pollers |-> poller'[r]] /\ poller'[p] = q /\ \A r \in Pollers : r # p => poller'[r] = poller[r]
  BY <1>3 DEF WatchInv
<1>10. WatchRowsSound'
  BY <1>1, <1>2, <1>5 DEF WatchInv, WatchRowsSound
<1>11. PollSound(p)'
  BY <1>1, <1>2, <1>4, <1>5, <1>9 DEF PollSound, PollOf
<1>12. PollsSound'
  BY <1>4, <1>5, <1>7, <1>8, <1>9, <1>11, PollKept DEF PollsSound
<1>13. OpenFew'
  BY <1>1, <1>5, <1>7, OpenKept DEF Unfinished
<1>14. CompletedTrue'
  BY <1>2, <1>5, <1>7, <1>8, CompletedKept
<1> QED  BY <1>5, <1>9, <1>10, <1>12, <1>13, <1>14 DEF WatchInv

\* A poller moves on while the watches rest.
LEMMA PollerPreserves ==
  ASSUME WatchInv, NEW p \in Pollers, NEW q, poller' = [poller EXCEPT ![p] = q], UNCHANGED watch,
         grants' \subseteq grants, UNCHANGED training,
         PollSound(p)'
  PROVE  WatchInv'
<1>1. \A v \in Watches : watch[v].epoch \in Nat
  BY DEF WatchInv, WatchTypes, WatchRows
<1>2. WatchTypes' /\ WatchRowsSound'
  BY DEF WatchInv, WatchTypes, WatchRowsSound
<1>3. \A v \in Watches : WatchGoesOn(v)
  BY <1>1 DEF WatchGoesOn
<1>4. GrantsNew /\ TrainingsGoOn
  BY DEF GrantsNew, TrainingsGoOn
<1>5. poller' = [r \in Pollers |-> poller'[r]] /\ poller'[p] = q /\ \A r \in Pollers : r # p => poller'[r] = poller[r]
  BY DEF WatchInv
<1>6. PollsSound'
  BY <1>2, <1>3, <1>4, <1>5, PollKept DEF PollsSound
<1>7. OpenFew' /\ CompletedTrue'
  BY <1>3, <1>4, OpenKept, CompletedKept
<1> QED  BY <1>2, <1>5, <1>6, <1>7 DEF WatchInv

LEMMA AskPreserves ==
  ASSUME WatchInv, NEW p \in Pollers, AskPlatform(p)
  PROVE  WatchInv'
<1> DEFINE w == poller[p].watch
<1>1. PICK answer \in Answers(poller[p].watch, poller[p].grant) :
          poller' = [poller EXCEPT ![p] = [at |-> "saving", watch |-> w, epoch |-> poller[p].epoch,
                                           grant |-> poller[p].grant, outcome |-> answer]]
  BY DEF AskPlatform
<1> DEFINE q == [at |-> "saving", watch |-> w, epoch |-> poller[p].epoch, grant |-> poller[p].grant, outcome |-> answer]
<1>2. PollOf(poller[p].watch, poller[p]) /\ UNCHANGED <<watch, training, grants>>
  BY DEF WatchInv, PollsSound, PollSound, AskPlatform
<1>4. /\ answer \in PollOutcomes
      /\ answer.status = "completed" => training[watch[w].run] # "running"
      /\ answer.status = "waiting_auth" => <<w, poller[p].grant>> \notin grants
  <2> DEFINE kept == [status |-> "active", seen |-> "as before"]
             refused == [status |-> "waiting_auth", seen |-> "as before"]
             runs == [status |-> "active", seen |-> "running"]
             ended == [status |-> "completed", seen |-> "ended"]
             gone == [status |-> "completed", seen |-> "as before"]
  <2>1. \/ answer = kept
        \/ answer = refused /\ <<w, poller[p].grant>> \notin grants
        \/ answer = runs
        \/ answer \in {ended, gone} /\ training[watch[w].run] # "running"
    BY DEF Answers
  <2>2. {kept, refused, runs, ended, gone} \subseteq PollOutcomes
    BY DEF PollOutcomes
  <2>3. kept.status = "active" /\ refused.status = "waiting_auth" /\ runs.status = "active"
        /\ ended.status = "completed" /\ gone.status = "completed"
    OBVIOUS
  <2> HIDE DEF kept, refused, runs, ended, gone
  <2> QED  BY <2>1, <2>2, <2>3
<1>6. q.watch = w /\ q.at = "saving" /\ q.epoch = poller[p].epoch /\ q.grant = poller[p].grant /\ q.outcome = answer
      /\ poller' = [poller EXCEPT ![p] = q]
  BY <1>1
<1> HIDE DEF q
<1>7. poller'[p] = q
  BY <1>6 DEF WatchInv
<1>3. PollOf(poller[p].watch, poller[p])'
  BY <1>2, <1>6, <1>7 DEF PollOf
<1>5. OutcomeTrue(poller[p].watch, poller[p])'
  BY <1>2, <1>4, <1>6, <1>7 DEF OutcomeTrue
<1> QED  BY <1>2, <1>3, <1>5, <1>6, PollerPreserves DEF PollSound

LEMMA SaveWatchPreserves ==
  ASSUME WatchInv, NEW p \in Pollers, SaveWatch(p)
  PROVE  WatchInv'
<1> DEFINE w == poller[p].watch
           learnt == poller[p].outcome
           x == Saved(watch[w], learnt)
<1>1. poller' = [poller EXCEPT ![p] = IdlePoller] /\ UNCHANGED <<training, grants>>
  BY DEF SaveWatch
<1>2. IdlePoller.at = "idle"
  BY DEF IdlePoller
<1>3. CASE UNCHANGED watch
  <2>1. PollSound(p)'
    BY <1>1, <1>2 DEF WatchInv, PollSound
  <2> QED  BY <1>1, <1>3, <2>1, PollerPreserves
<1>4. CASE ~UNCHANGED watch
  <2>1. watch[w].epoch = poller[p].epoch /\ watch[w].status = "active" /\ watch' = [watch EXCEPT ![w] = x]
    BY <1>4 DEF SaveWatch
  <2>2. PollOf(w, poller[p]) /\ OutcomeTrue(w, poller[p])
    BY DEF WatchInv, PollsSound, PollSound, SaveWatch
  <2>3. watch \in [Watches -> WatchRows] /\ w \in Watches /\ watch[w] \in WatchRows
    BY <2>2 DEF WatchInv, WatchTypes, PollOf
  <2>4. learnt.status \in {"active", "waiting_auth", "completed"} /\ learnt.seen \in {"as before", "running", "ended"}
    BY <2>2 DEF OutcomeTrue, PollOutcomes
  <2>5. /\ x \in WatchRows /\ x.status = learnt.status /\ x.run = watch[w].run /\ x.epoch = watch[w].epoch
        /\ x.grant = IF learnt.status = "completed" THEN -1 ELSE watch[w].grant
    <3> DEFINE seen == IF learnt.seen = "as before" THEN watch[w].seen ELSE learnt.seen
               newGrant == IF learnt.status = "completed" THEN -1 ELSE watch[w].grant
    <3>1. x = [watch[w] EXCEPT !.status = learnt.status, !.seen = seen, !.rest = "paused", !.grant = newGrant]
      BY DEF Saved, NoGrant
    <3>0. watch[w].seen \in {"nothing", "running", "ended"} /\ watch[w].grant \in Int /\ -1 \in Int
      BY <2>3 DEF WatchRows
    <3>2. seen \in {"nothing", "running", "ended"} /\ newGrant \in Int
      <4> HIDE DEF learnt, w
      <4> QED  BY <2>4, <3>0
    <3>3. learnt.status \in {"none"} \cup Unfinished \cup WatchEnded
      BY <2>4 DEF Unfinished, WatchEnded
    <3> HIDE DEF x, seen, w, learnt
    <3>4. x \in WatchRows /\ x.status = learnt.status /\ x.run = watch[w].run /\ x.epoch = watch[w].epoch
          /\ x.grant = newGrant
      <4> HIDE DEF newGrant
      <4> QED  BY <2>3, <3>1, <3>2, <3>3 DEF WatchRows
    <3> QED  BY <3>4
  <2>6. watch[w].epoch \in Nat /\ watch[w].grant <= watch[w].epoch
    BY <2>3 DEF WatchRows, WatchInv, WatchRowsSound
  <2> HIDE DEF x
  <2>7. WatchTypes' /\ watch'[w] = x /\ \A v \in Watches : v # w => watch'[v] = watch[v]
    BY <1>1, <2>1, <2>3, <2>5 DEF WatchInv, WatchTypes
  <2>8. \A v \in Watches : watch[v].epoch \in Nat
    BY <2>3 DEF WatchRows
  <2>9. \A v \in Watches : WatchGoesOn(v)
    <3> SUFFICES ASSUME NEW v \in Watches PROVE WatchGoesOn(v)
      OBVIOUS
    <3>1. CASE v = w
      <4> HIDE DEF w, learnt
      <4>1. watch'[v] = x /\ x.status # "none" /\ x.run = watch[v].run /\ x.epoch = watch[v].epoch
        BY <2>4, <2>5, <2>7, <3>1
      <4>2. x.status = "active" => x.grant = watch[v].grant
        BY <2>5, <3>1
      <4> QED  BY <2>1, <2>8, <3>1, <4>1, <4>2 DEF WatchGoesOn
    <3>2. CASE v # w
      BY <2>7, <2>8, <3>2 DEF WatchGoesOn
    <3> QED  BY <3>1, <3>2
  <2>10. GrantsNew /\ TrainingsGoOn
    BY <1>1 DEF GrantsNew, TrainingsGoOn
  <2>11. poller' = [r \in Pollers |-> poller'[r]] /\ poller'[p].at = "idle" /\ \A r \in Pollers : r # p => poller'[r] = poller[r]
    BY <1>1, <1>2 DEF WatchInv
  <2>12. WatchRowsSound'
    <3>1. x.grant <= x.epoch
      BY <2>5, <2>6
    <3>2. watch[w].run \in Trainings
      BY <2>1, <2>3 DEF WatchInv, WatchRowsSound
    <3> QED  BY <2>5, <2>7, <3>1, <3>2 DEF WatchInv, WatchRowsSound
  <2>13a. PollSound(p)'
    BY <2>11 DEF PollSound
  <2>13. PollsSound'
    BY <2>13a, <2>7, <2>9, <2>10, <2>11, PollKept DEF PollsSound
  <2>14. OpenFew'
    BY <2>1, <2>7, <2>9, OpenKept DEF Unfinished
  <2>15. CompletedTrue'
    <3>1. learnt.status = "completed" => training[watch[w].run] # "running"
      BY <2>2 DEF OutcomeTrue
    <3> QED  BY <2>1, <2>5, <2>7, <2>9, <2>10, <3>1, CompletedKept
  <2> QED  BY <2>7, <2>11, <2>12, <2>13, <2>14, <2>15 DEF WatchInv
<1> QED  BY <1>3, <1>4

LEMMA WatchStepInv ==
  ASSUME WatchInv, WatchStep \/ UNCHANGED watchVars
  PROVE  WatchInv'
<1>1. CASE UNCHANGED watchVars
  BY <1>1 DEF watchVars, WatchInv, WatchTypes, WatchRowsSound, PollsSound, PollSound, PollOf, OutcomeTrue,
         OpenFew, CompletedTrue, Open
<1>2. ASSUME NEW p \in Pollers, PollerEnds(p) PROVE WatchInv'
  <2>1. PollSound(p)'
    BY <1>2 DEF PollerEnds, IdlePoller, WatchInv, PollSound
  <2> QED  BY <1>2, <2>1, PollerPreserves DEF PollerEnds
<1>3. ASSUME NEW g \in grants, GrantEnds(g) PROVE WatchInv'
  BY <1>3 DEF GrantEnds, WatchInv, WatchTypes, WatchRowsSound, PollsSound, PollSound, PollOf, OutcomeTrue,
         OpenFew, CompletedTrue, Open
<1>4. ASSUME NEW t \in Trainings, TrainingGoesOn(t) PROVE WatchInv'
  <2>1. UNCHANGED <<watch, poller, grants>>
    BY <1>4 DEF TrainingGoesOn
  <2>2. TrainingsGoOn /\ training' \in [Trainings -> {"running", "ended", "deleted"}]
    BY <1>4 DEF TrainingGoesOn, TrainingsGoOn, WatchInv, WatchTypes
  <2>3. WatchTypes' /\ WatchRowsSound' /\ OpenFew'
    BY <2>1, <2>2 DEF WatchInv, WatchTypes, WatchRowsSound, OpenFew, Open
  <2>4. \A v \in Watches : WatchGoesOn(v)
    <3>1. \A v \in Watches : watch[v].epoch \in Nat
      BY DEF WatchInv, WatchTypes, WatchRows
    <3> QED  BY <2>1, <3>1 DEF WatchGoesOn
  <2>5. GrantsNew
    BY <2>1 DEF GrantsNew
  <2>6. PollsSound'
    BY <2>1, <2>2, <2>3, <2>4, <2>5, PollKept DEF PollsSound
  <2>7. CompletedTrue'
    BY <2>1, <2>2, <2>4, CompletedKept
  <2> QED  BY <2>1, <2>3, <2>6, <2>7 DEF WatchInv
<1>5. CASE WatchStep
  BY <1>2, <1>3, <1>4, <1>5, UserStepsPreserve, CreatePreserves, ExpireWatchesPreserves, ClaimPreserves,
        AskPreserves, SaveWatchPreserves
     DEF WatchStep
<1> QED  BY <1>1, <1>5

LEMMA WatchInvSound == WatchInv => WatchesInOrder
  BY DEF WatchInv, OpenFew, CompletedTrue, WatchesInOrder

-----------------------------------------------------------------------------
\* What a step may do to a row: what is over stays, what was seen stays seen, and only the
\* grant that the row has can make it wait.
RowKept(w) ==
    /\ watch[w].status \in WatchEnded => watch'[w] = watch[w]
    /\ watch[w].seen # "nothing" => watch'[w].seen # "nothing"
    /\ watch[w].status = "active" /\ watch'[w].status = "waiting_auth" => <<w, watch[w].grant>> \notin grants

LEMMA WatchStepSound ==
  ASSUME WatchInv, WatchStep \/ UNCHANGED watchVars
  PROVE  \A w \in Watches : RowKept(w)
<1> SUFFICES ASSUME NEW v \in Watches PROVE RowKept(v)
  OBVIOUS
<1>1. watch \in [Watches -> WatchRows] /\ \A w \in Watches : watch[w] \in WatchRows
  BY DEF WatchInv, WatchTypes
<1>2. CASE UNCHANGED watch
  BY <1>2 DEF RowKept
<1>3. ASSUME NEW w \in Watches, CancelWatch(w) \/ ResumeWatch(w) PROVE RowKept(v)
  <2> DEFINE r == Revoked(watch[w])
             newGrant == watch[w].epoch + 1
  <2>1. r \in WatchRows /\ r.seen = watch[w].seen /\ watch[w].status \in Unfinished /\ newGrant \in Int /\ NoGrant \in Int
    BY <1>1, <1>3, RevokedRow DEF CancelWatch, ResumeWatch, WatchRows, NoGrant
  <2>2. watch' = [watch EXCEPT ![w] = Decided(r, "cancelled", NoGrant)]
        \/ watch' = [watch EXCEPT ![w] = Decided(r, "active", newGrant)]
    BY <1>3 DEF CancelWatch, ResumeWatch, Decided
  <2>3. "cancelled" \in Unfinished \cup WatchEnded /\ "active" \in Unfinished \cup WatchEnded
    BY DEF Unfinished, WatchEnded
  <2> HIDE DEF r, newGrant
  <2>4. PICK x : watch' = [watch EXCEPT ![w] = x] /\ x.status \in {"cancelled", "active"} /\ x.seen = r.seen
    <3>1. /\ Decided(r, "cancelled", NoGrant).status = "cancelled" /\ Decided(r, "cancelled", NoGrant).seen = r.seen
          /\ Decided(r, "active", newGrant).status = "active" /\ Decided(r, "active", newGrant).seen = r.seen
      BY <2>1, <2>3, DecidedRow
    <3> QED  BY <2>2, <3>1
  <2> QED  BY <1>1, <2>1, <2>4 DEF RowKept, Unfinished, WatchEnded
<1>4. ASSUME NEW w \in Watches, TimePasses(w) PROVE RowKept(v)
  <2>1. CASE watch' = [watch EXCEPT ![w].rest = "due"]
    BY <1>1, <1>4, <2>1 DEF TimePasses, RowKept, WatchRows, Unfinished, WatchEnded
  <2>2. CASE watch' = [watch EXCEPT ![w].over = TRUE]
    BY <1>1, <1>4, <2>2 DEF TimePasses, RowKept, WatchRows, Unfinished, WatchEnded
  <2> QED  BY <1>4, <2>1, <2>2 DEF TimePasses
<1>5. ASSUME NEW w \in Watches, NEW t \in Trainings, CreateWatch(w, t) PROVE RowKept(v)
  <2>1. watch[w].status = "none" /\ watch[w].seen = "nothing"
    BY <1>5 DEF CreateWatch, NoWatch
  <2>2. \A u \in Watches : u # w => watch'[u] = watch[u]
    BY <1>1, <1>5 DEF CreateWatch
  <2> QED  BY <2>1, <2>2 DEF RowKept, WatchEnded, Unfinished
<1>6. ASSUME NEW p \in Pollers, ExpireWatches(p) PROVE RowKept(v)
  <2>1. watch'[v] = watch[v] \/ (watch[v].status \in Unfinished /\ watch'[v] = Expired(watch[v]))
    BY <1>6 DEF ExpireWatches, Expired
  <2>2. Expired(watch[v]).status = "expired" /\ Expired(watch[v]).seen = watch[v].seen
    BY <1>1, ExpiredRow
  <2> QED  BY <2>1, <2>2 DEF RowKept, WatchEnded, Unfinished
<1>7. ASSUME NEW p \in Pollers, NEW w \in Watches, ClaimWatch(p, w) PROVE RowKept(v)
  <2>1. watch' = [watch EXCEPT ![w] = [watch[w] EXCEPT !.epoch = watch[w].epoch + 1, !.rest = "leased"]]
        /\ watch[w].status = "active"
    BY <1>1, <1>7 DEF ClaimWatch
  <2>2. watch'[w].status = "active" /\ watch'[w].seen = watch[w].seen /\ \A u \in Watches : u # w => watch'[u] = watch[u]
    BY <1>1, <2>1 DEF WatchRows
  <2> QED  BY <2>1, <2>2 DEF RowKept, WatchEnded, Unfinished
<1>8. ASSUME NEW p \in Pollers, SaveWatch(p), ~UNCHANGED watch PROVE RowKept(v)
  <2> DEFINE w == poller[p].watch
             learnt == poller[p].outcome
  <2>1. watch[w].epoch = poller[p].epoch /\ watch[w].status = "active"
        /\ watch' = [watch EXCEPT ![w] = Saved(watch[w], learnt)]
    BY <1>8 DEF SaveWatch
  <2>2. PollOf(w, poller[p]) /\ OutcomeTrue(w, poller[p])
    BY <1>8 DEF WatchInv, PollsSound, PollSound, SaveWatch
  <2>3. w \in Watches /\ poller[p].grant = watch[w].grant
        /\ (learnt.status = "waiting_auth" => <<w, watch[w].grant>> \notin grants)
    BY <2>1, <2>2 DEF PollOf, OutcomeTrue
  <2>4. learnt.seen \in {"as before", "running", "ended"}
    BY <2>2 DEF OutcomeTrue, PollOutcomes
  <2> HIDE DEF w, learnt
  <2>5. Saved(watch[w], learnt).status = learnt.status
        /\ (watch[w].seen # "nothing" => Saved(watch[w], learnt).seen # "nothing")
    BY <1>1, <2>3, <2>4 DEF Saved, WatchRows
  <2>6. watch'[w] = Saved(watch[w], learnt) /\ \A u \in Watches : u # w => watch'[u] = watch[u]
    BY <1>1, <2>1, <2>3
  <2> QED  BY <2>1, <2>3, <2>5, <2>6 DEF RowKept, WatchEnded, Unfinished
<1>9. WatchStep /\ ~UNCHANGED watch =>
         \/ \E w \in Watches : CancelWatch(w) \/ ResumeWatch(w) \/ TimePasses(w)
         \/ \E w \in Watches, t \in Trainings : CreateWatch(w, t)
         \/ \E p \in Pollers : ExpireWatches(p) \/ SaveWatch(p)
         \/ \E p \in Pollers, w \in Watches : ClaimWatch(p, w)
  BY DEF WatchStep, AskPlatform, PollerEnds, GrantEnds, TrainingGoesOn
<1>10. UNCHANGED watchVars => UNCHANGED watch
  BY DEF watchVars
<1> QED  BY <1>2, <1>3, <1>4, <1>5, <1>6, <1>7, <1>8, <1>9, <1>10

-----------------------------------------------------------------------------
(***************************************************************************)
(* Accounts: a change that holds the lock of all changes was decided on what *)
(* its account and the other administrators still are.                     *)
(***************************************************************************)
\* An account and an event, with what administrators give, and failures that no bound is needed for.
AccountRows ==
    [access : Access \cup Targets, failures : Nat, lock : {"absent", "open", "locked", "lapsed"}]
Events == [from : Access \cup Targets \cup {Unrecorded}, to : Access \cup Targets]

\* A change that holds the lock of all changes is of an account as it was read, and does not
\* take the last administrator away; every other change waits.
CallerSound(c) ==
    /\ caller[c].at \in {"verifying", "asking", "changing"} => caller[c].user \in Users
    /\ caller[c].at \in {"asking", "changing"} => caller[c].to \in Targets
    /\ caller[c].at = "changing" =>
         /\ adminLock = c
         /\ caller[c].from = account[caller[c].user].access
         /\ caller[c].to = ActiveAdmin \/ \E v \in Users : v # caller[c].user /\ account[v].access = ActiveAdmin

CallersSound == \A c \in Callers : CallerSound(c)

AccountInv ==
    /\ account \in [Users -> AccountRows] /\ trail \in [Users -> Seq(Events)]
    /\ caller = [c \in Callers |-> caller[c]]
    /\ CallersSound /\ AdminsRemain /\ AccessAudited /\ LockoutCounted

LEMMA AccountInvSound == AccountInv => AccountsSound
  BY DEF AccountInv, AccountsSound

-----------------------------------------------------------------------------
LEMMA AccountsInitInv ==
  ASSUME account \in [Users -> AccountRows], \E u \in Users : account[u].access = ActiveAdmin,
         \A u \in Users : account[u].failures = 0 /\ account[u].lock \in {"open", "absent"},
         trail = [u \in Users |-> <<>>], caller = [c \in Callers |-> IdleCaller]
  PROVE  AccountInv
<1>1. caller = [c \in Callers |-> caller[c]] /\ CallersSound
  BY DEF CallersSound, CallerSound, IdleCaller
<1>2. trail \in [Users -> Seq(Events)] /\ AccessAudited
  BY DEF AccessAudited
<1>3. AdminsRemain
  BY DEF AdminsRemain, ActiveAdmins
<1>4. LockoutCounted
  BY AccountsAssumption DEF LockoutCounted
<1> QED  BY <1>1, <1>2, <1>3, <1>4 DEF AccountInv

\* A caller that waits is not disturbed by who keeps its account and leaves administrators.
LEMMA CallerKept ==
  ASSUME AccountInv, NEW c \in Callers, caller'[c] = caller[c],
         caller[c].at = "changing" =>
             adminLock' = adminLock /\ account'[caller[c].user].access = account[caller[c].user].access,
         \A v \in Users : account[v].access = ActiveAdmin => account'[v].access = ActiveAdmin
  PROVE  CallerSound(c)'
  BY DEF AccountInv, CallersSound, CallerSound

\* A step that gives no access and records nothing.
LEMMA QuietStep ==
  ASSUME AccountInv, account' \in [Users -> AccountRows], \A u \in Users : account'[u].access = account[u].access,
         UNCHANGED trail, LockoutCounted', caller' = [c \in Callers |-> caller'[c]],
         \A c \in Callers : CallerSound(c)' \/ (caller'[c] = caller[c] /\ (caller[c].at = "changing" => adminLock' = adminLock))
  PROVE  AccountInv'
<1>1. CallersSound'
  <2> SUFFICES ASSUME NEW c \in Callers PROVE CallerSound(c)'
    BY DEF CallersSound
  <2>1. CASE CallerSound(c)'
    BY <2>1
  <2>2. CASE ~CallerSound(c)'
    <3>1. caller[c].at = "changing" => caller[c].user \in Users
      BY DEF AccountInv, CallersSound, CallerSound
    <3> QED  BY <2>2, <3>1, CallerKept
  <2> QED  BY <2>1, <2>2
<1>2. AdminsRemain' /\ AccessAudited'
  BY DEF AccountInv, AdminsRemain, ActiveAdmins, AccessAudited
<1> QED  BY <1>1, <1>2 DEF AccountInv

\* The account of u has access x and the event says so; everybody else keeps theirs.
LEMMA GivenStep ==
  ASSUME AccountInv, NEW u \in Users, NEW x \in Access \cup Targets,
         NEW from \in Access \cup Targets \cup {Unrecorded}, from \in {Unrecorded, account[u].access},
         account' \in [Users -> AccountRows], account'[u].access = x,
         \A v \in Users : v # u => account'[v] = account[v],
         Recorded(u, from, x), LockoutCounted', caller' = [c \in Callers |-> caller'[c]], CallersSound',
         x = ActiveAdmin \/ \E v \in Users : v # u /\ account[v].access = ActiveAdmin
  PROVE  AccountInv'
<1> DEFINE e == [from |-> from, to |-> x]
<1>1. e \in Events /\ e.from = from /\ e.to = x
  BY DEF Events
<1>2. trail' = [trail EXCEPT ![u] = Append(trail[u], e)]
  BY DEF Recorded
<1> HIDE DEF e
<1>3. trail[u] \in Seq(Events) /\ \A v \in Users : v # u => trail'[v] = trail[v]
  BY <1>2 DEF AccountInv
<1>4. trail'[u] = Append(trail[u], e) /\ trail' \in [Users -> Seq(Events)]
  BY <1>1, <1>2, <1>3 DEF AccountInv
<1>5. AccessAudited'
  <2> SUFFICES ASSUME NEW v \in Users, trail'[v] # <<>>
               PROVE  /\ trail'[v][Len(trail'[v])].to = account'[v].access
                      /\ \A n \in 2..Len(trail'[v]) : trail'[v][n].from \in {Unrecorded, trail'[v][n - 1].to}
    BY DEF AccessAudited
  <2>1. CASE v # u
    BY <1>3, <2>1 DEF AccountInv, AccessAudited
  <2>2. CASE v = u
    <3> DEFINE s == trail[u]
               t == Append(s, e)
    <3>1. s \in Seq(Events) /\ Len(s) \in Nat /\ Len(t) = Len(s) + 1 /\ t[Len(s) + 1] = e
          /\ \A n \in 1..Len(s) : t[n] = s[n]
      BY <1>1, <1>3
    <3>2. s # <<>> => s[Len(s)].to = account[u].access
                     /\ \A n \in 2..Len(s) : s[n].from \in {Unrecorded, s[n - 1].to}
      BY DEF AccountInv, AccessAudited
    <3>3. s = <<>> \/ Len(s) > 0
      BY <3>1
    <3> HIDE DEF s, t
    <3>4. t[Len(t)].to = x
      BY <1>1, <3>1
    <3>5. ASSUME NEW n \in 2..Len(t) PROVE t[n].from \in {Unrecorded, t[n - 1].to}
      <4>1. CASE n <= Len(s)
        <5>1. s # <<>>
          BY <3>1, <4>1 DEF s
        <5>2. n \in 2..Len(s) /\ n - 1 \in 1..Len(s) /\ n \in 1..Len(s)
          BY <3>1, <3>5, <4>1
        <5> QED  BY <3>1, <3>2, <5>1, <5>2
      <4>2. CASE n = Len(s) + 1
        <5>1. Len(s) > 0 /\ Len(s) \in 1..Len(s)
          BY <3>1, <3>5, <4>2
        <5>2. s # <<>>
          BY <5>1, <3>1
        <5> QED  BY <1>1, <3>1, <3>2, <4>2, <5>1, <5>2
      <4> QED  BY <3>1, <3>5, <4>1, <4>2
    <3> QED  BY <1>4, <2>2, <3>4, <3>5 DEF s, t
  <2> QED  BY <2>1, <2>2
<1>6. AdminsRemain'
  BY DEF AdminsRemain, ActiveAdmins
<1> QED  BY <1>4, <1>5, <1>6 DEF AccountInv

\* What the lock of an account says is what its count says.
LEMMA CountedRow ==
  ASSUME NEW a \in AccountRows
  PROVE  /\ Counted(a) \in AccountRows /\ Counted(a).access = a.access
         /\ Counted(a).lock \in {"locked", "lapsed"} <=> Counted(a).failures >= FailureLimit
<1> DEFINE failures == IF a.lock = "lapsed" THEN 1 ELSE a.failures + 1
           lock == IF failures >= FailureLimit THEN "locked" ELSE "open"
<1>1. failures \in Nat /\ lock \in {"absent", "open", "locked", "lapsed"}
  BY DEF AccountRows
<1>2. lock \in {"locked", "lapsed"} <=> failures >= FailureLimit
  OBVIOUS
<1>3. Counted(a) = [a EXCEPT !.failures = failures, !.lock = lock]
  BY DEF Counted
<1> HIDE DEF failures, lock
<1>4. [a EXCEPT !.failures = failures, !.lock = lock] \in AccountRows
      /\ [a EXCEPT !.failures = failures, !.lock = lock].access = a.access
      /\ [a EXCEPT !.failures = failures, !.lock = lock].failures = failures
      /\ [a EXCEPT !.failures = failures, !.lock = lock].lock = lock
  BY <1>1 DEF AccountRows
<1> QED  BY <1>2, <1>3, <1>4

LEMMA AccountStepInv ==
  ASSUME AccountInv, AccountStep \/ UNCHANGED accountVars
  PROVE  AccountInv'
<1>0. /\ account \in [Users -> AccountRows] /\ caller = [c \in Callers |-> caller[c]] /\ CallersSound /\ LockoutCounted
  BY DEF AccountInv
<1>1. CASE UNCHANGED accountVars
  BY <1>1 DEF accountVars, AccountInv, CallersSound, CallerSound, AdminsRemain, ActiveAdmins, AccessAudited, LockoutCounted
<1>2. ASSUME NEW u \in Users, Register(u) \/ LockLapses(u) PROVE AccountInv'
  <2>1. PICK lock \in {"open", "lapsed"} :
           /\ account' = [account EXCEPT ![u] = [account[u] EXCEPT !.lock = lock]]
           /\ lock = "lapsed" => account[u].lock = "locked"
           /\ lock = "open" => account[u].failures = 0
    BY <1>0, <1>2 DEF Register, LockLapses, NoAccount
  <2>2. UNCHANGED <<trail, caller, adminLock>>
    BY <1>2 DEF Register, LockLapses
  <2>3. account' \in [Users -> AccountRows] /\ account'[u].lock = lock
        /\ account'[u].access = account[u].access /\ account'[u].failures = account[u].failures
        /\ \A v \in Users : v # u => account'[v] = account[v]
    BY <1>0, <2>1 DEF AccountRows
  <2>4. LockoutCounted'
    BY <1>0, <2>1, <2>3, AccountsAssumption DEF LockoutCounted
  <2> QED  BY <1>0, <2>2, <2>3, <2>4, QuietStep
<1>3. ASSUME NEW u \in Users, BootstrapAdmin(u) PROVE AccountInv'
  <2> DEFINE x == [access |-> ActiveAdmin, failures |-> 0, lock |-> "open"]
  <2>1. x \in AccountRows /\ x.access = ActiveAdmin /\ x.failures = 0 /\ x.lock = "open"
        /\ ActiveAdmin \in Access
    BY DEF AccountRows, ActiveAdmin, Access, Roles
  <2>2. account' = [account EXCEPT ![u] = x] /\ Recorded(u, Unrecorded, ActiveAdmin)
        /\ UNCHANGED <<caller, adminLock>> /\ ~RowHeld(u)
    BY <1>3 DEF BootstrapAdmin
  <2> HIDE DEF x
  <2>3. account' \in [Users -> AccountRows] /\ account'[u] = x /\ \A v \in Users : v # u => account'[v] = account[v]
    BY <1>0, <2>1, <2>2
  <2>4. LockoutCounted'
    BY <1>0, <2>1, <2>3, AccountsAssumption DEF LockoutCounted
  <2>5. CallersSound'
    <3> SUFFICES ASSUME NEW c \in Callers PROVE CallerSound(c)'
      BY DEF CallersSound
    <3>1. caller[c].at = "changing" => caller[c].user \in Users /\ caller[c].user # u
      BY <1>0, <2>2 DEF CallersSound, CallerSound, RowHeld
    <3>2. \A v \in Users : account[v].access = ActiveAdmin => account'[v].access = ActiveAdmin
      BY <2>1, <2>3
    <3> QED  BY <2>2, <2>3, <3>1, <3>2, CallerKept
  <2> QED  BY <1>0, <2>1, <2>2, <2>3, <2>4, <2>5, GivenStep
<1>4. ASSUME NEW c \in Callers, RecordFailedLogin(c) \/ ClearFailedLogins(c) PROVE AccountInv'
  <2> DEFINE u == caller[c].user
  <2>1. u \in Users
    BY <1>0, <1>4 DEF CallersSound, CallerSound, RecordFailedLogin, ClearFailedLogins
  <2>2. PICK x \in AccountRows :
           /\ account' = [account EXCEPT ![u] = x] /\ x.access = account[u].access
           /\ x.lock \in {"locked", "lapsed"} <=> x.failures >= FailureLimit
    <3>1. CASE RecordFailedLogin(c)
      BY <1>0, <2>1, <3>1, CountedRow DEF RecordFailedLogin
    <3>2. CASE ClearFailedLogins(c)
      <4> DEFINE none == 0
                 lock == "open"
                 x == [account[u] EXCEPT !.failures = none, !.lock = lock]
      <4>1. account' = [account EXCEPT ![u] = x]
        BY <1>0, <2>1, <3>2 DEF ClearFailedLogins
      <4>2. none \in Nat /\ lock \in {"absent", "open", "locked", "lapsed"}
            /\ (lock \in {"locked", "lapsed"} <=> none >= FailureLimit) /\ account[u] \in AccountRows
        BY <1>0, <2>1, AccountsAssumption
      <4> HIDE DEF u, none, lock
      <4>3. x \in AccountRows /\ x.access = account[u].access /\ x.failures = none /\ x.lock = lock
        BY <4>2 DEF AccountRows
      <4> QED  BY <4>1, <4>2, <4>3
    <3> QED  BY <1>4, <3>1, <3>2
  <2>3. UNCHANGED <<trail, adminLock>> /\ \E q : caller' = [caller EXCEPT ![c] = q] /\ q.at \in {"idle", "opening"}
    <3> DEFINE opening == [at |-> "opening", user |-> u]
    <3>1. IdleCaller.at = "idle" /\ opening.at = "opening"
      BY DEF IdleCaller
    <3>2. UNCHANGED <<trail, adminLock>> /\ (Proceed(c, IdleCaller) \/ Proceed(c, opening))
      BY <1>4 DEF RecordFailedLogin, ClearFailedLogins
    <3> HIDE DEF opening, u
    <3> QED  BY <3>1, <3>2 DEF Proceed
  <2>4. caller' = [d \in Callers |-> caller'[d]] /\ caller'[c].at \in {"idle", "opening"}
        /\ \A d \in Callers : d # c => caller'[d] = caller[d]
    BY <1>0, <2>3
  <2>5. CallerSound(c)'
    BY <2>4 DEF CallerSound
  <2> HIDE DEF u
  <2>6. account' \in [Users -> AccountRows] /\ \A v \in Users : account'[v].access = account[v].access
    BY <1>0, <2>1, <2>2
  <2>7. LockoutCounted'
    BY <1>0, <2>1, <2>2 DEF LockoutCounted
  <2> QED  BY <1>0, <2>3, <2>4, <2>5, <2>6, <2>7, QuietStep
<1>5. ASSUME NEW c \in Callers, NEW q, caller' = [caller EXCEPT ![c] = q], UNCHANGED <<account, trail>>,
             \A d \in Callers : d # c /\ caller[d].at = "changing" => adminLock' = adminLock,
             CallerSound(c)'
      PROVE  AccountInv'
  <2>1. caller' = [d \in Callers |-> caller'[d]] /\ \A d \in Callers : d # c => caller'[d] = caller[d]
    BY <1>0, <1>5
  <2>2. LockoutCounted'
    BY <1>0, <1>5 DEF LockoutCounted
  <2> QED  BY <1>0, <1>5, <2>1, <2>2, QuietStep
<1>6. ASSUME NEW c \in Callers, NEW q, caller' = [caller EXCEPT ![c] = q], UNCHANGED <<account, trail>>,
             \A d \in Callers : d # c /\ caller[d].at = "changing" => adminLock' = adminLock,
             q.at \in {"idle", "opening"} \/ (q.at \in {"verifying", "asking"} /\ q.user \in Users),
             q.at = "asking" => q.to \in Targets
      PROVE  AccountInv'
  <2>1. caller'[c] = q
    BY <1>0, <1>6
  <2>2. CallerSound(c)'
    BY <1>6, <2>1 DEF CallerSound
  <2> QED  BY <1>5, <1>6, <2>2
<1>7. ASSUME NEW c \in Callers, NEW u \in Users, BeginLogin(c, u) PROVE AccountInv'
  <2> DEFINE q == [at |-> "verifying", user |-> u, status |-> account[u].access.status]
  <2>1. caller' = [caller EXCEPT ![c] = q] /\ UNCHANGED <<account, trail, adminLock>>
    BY <1>7 DEF BeginLogin, Proceed
  <2>2. q.at = "verifying" /\ q.user = u
    OBVIOUS
  <2> HIDE DEF q
  <2> QED  BY <1>6, <2>1, <2>2
<1>8. ASSUME NEW c \in Callers, NEW s \in Sessions, NEW u \in Users, NEW to \in Targets, AskChange(c, s, u, to)
      PROVE  AccountInv'
  <2> DEFINE q == [at |-> "asking", user |-> u, to |-> to]
  <2>1. caller' = [caller EXCEPT ![c] = q] /\ UNCHANGED <<account, trail, adminLock>>
    BY <1>8 DEF AskChange, Proceed
  <2>2. q.at = "asking" /\ q.user = u /\ q.to = to
    OBVIOUS
  <2> HIDE DEF q
  <2> QED  BY <1>6, <2>1, <2>2
<1>9. ASSUME NEW c \in Callers, caller' = [caller EXCEPT ![c] = IdleCaller], UNCHANGED <<account, trail>>,
             adminLock' = adminLock \/ (adminLock = c)
      PROVE  AccountInv'
  <2>1. \A d \in Callers : d # c /\ caller[d].at = "changing" => adminLock' = adminLock
    BY <1>0, <1>9 DEF CallersSound, CallerSound
  <2>2. IdleCaller.at = "idle"
    BY DEF IdleCaller
  <2> QED  BY <1>6, <1>9, <2>1, <2>2
<1>10. ASSUME NEW c \in Callers, LockChange(c) PROVE AccountInv'
  <2> DEFINE u == caller[c].user
             to == caller[c].to
             q == [at |-> "changing", user |-> u, from |-> account[u].access, to |-> to]
  <2>1. u \in Users /\ to \in Targets /\ UNCHANGED <<account, trail>> /\ adminLock = Nobody
    BY <1>0, <1>10 DEF LockChange, MayLock, CallersSound, CallerSound
  <2>2. CASE ~Removable(u, to)
    BY <1>9, <1>10, <2>1, <2>2 DEF LockChange, Proceed
  <2>3. CASE Removable(u, to)
    <3>1. caller' = [caller EXCEPT ![c] = q] /\ adminLock' = c
      BY <1>10, <2>3 DEF LockChange, Proceed
    <3>2. q.at = "changing" /\ q.user = u /\ q.from = account[u].access /\ q.to = to
      OBVIOUS
    <3>3. to = ActiveAdmin \/ \E v \in Users : v # u /\ account[v].access = ActiveAdmin
      <4> SUFFICES ASSUME to # ActiveAdmin, \A v \in ActiveAdmins : v = u PROVE FALSE
        BY DEF ActiveAdmins
      <4>1. ActiveAdmins = {u}
        BY DEF AccountInv, AdminsRemain
      <4>2. Cardinality(ActiveAdmins) = 1
        BY <4>1, FS_Singleton
      <4> QED  BY <2>3, <4>1, <4>2 DEF Removable
    <3> HIDE DEF q
    <3>4. CallerSound(c)'
      <4>1. caller'[c] = q
        BY <1>0, <3>1
      <4> QED  BY <2>1, <3>1, <3>2, <3>3, <4>1 DEF CallerSound
    <3>5. \A d \in Callers : caller[d].at # "changing"
      BY <1>0, <2>1, AccountsAssumption DEF CallersSound, CallerSound
    <3> QED  BY <1>5, <2>1, <3>1, <3>4, <3>5
  <2> QED  BY <2>2, <2>3
<1>11. ASSUME NEW c \in Callers, CommitChange(c) PROVE AccountInv'
  <2> DEFINE u == caller[c].user
             to == caller[c].to
             x == [account[u] EXCEPT !.access = to]
  <2>1. u \in Users /\ to \in Targets /\ adminLock = c /\ caller[c].from = account[u].access
        /\ (to = ActiveAdmin \/ \E v \in Users : v # u /\ account[v].access = ActiveAdmin)
    BY <1>0, <1>11 DEF CommitChange, CallersSound, CallerSound
  <2>2. account' = [account EXCEPT ![u] = x] /\ Recorded(u, account[u].access, to)
        /\ caller' = [caller EXCEPT ![c] = IdleCaller]
    BY <1>0, <1>11, <2>1 DEF CommitChange, Proceed
  <2> HIDE DEF u, to
  <2>3. x \in AccountRows /\ x.access = to /\ x.failures = account[u].failures /\ x.lock = account[u].lock
        /\ account[u].access \in Access \cup Targets
    BY <1>0, <2>1 DEF AccountRows
  <2> HIDE DEF x
  <2>4. account' \in [Users -> AccountRows] /\ account'[u] = x /\ \A v \in Users : v # u => account'[v] = account[v]
    BY <1>0, <2>1, <2>2, <2>3
  <2>5. LockoutCounted'
    BY <1>0, <2>3, <2>4 DEF LockoutCounted
  <2>6. caller' = [d \in Callers |-> caller'[d]] /\ CallersSound'
    <3>1. caller'[c] = IdleCaller /\ IdleCaller.at = "idle"
      BY <1>0, <2>2 DEF IdleCaller
    <3>2. \A d \in Callers : d # c => caller'[d] = caller[d] /\ caller[d].at # "changing"
      BY <1>0, <2>1, <2>2 DEF CallersSound, CallerSound
    <3>3. \A d \in Callers : CallerSound(d)'
      BY <1>0, <3>1, <3>2 DEF CallersSound, CallerSound
    <3> QED  BY <1>0, <2>2, <3>3 DEF CallersSound
  <2> QED  BY <2>1, <2>2, <2>3, <2>4, <2>5, <2>6, GivenStep
<1>12. ASSUME NEW c \in Callers, NEW s \in Sessions, CreateSession(c, s) PROVE AccountInv'
  BY <1>9, <1>12 DEF CreateSession, Proceed
<1>13. ASSUME NEW c \in Callers, CallerEnds(c) PROVE AccountInv'
  BY <1>9, <1>13 DEF CallerEnds, Proceed
<1>14. ASSUME NEW s \in Sessions, DeleteSession(s) PROVE AccountInv'
  BY <1>14 DEF DeleteSession, AccountInv, CallersSound, CallerSound, AdminsRemain, ActiveAdmins, AccessAudited, LockoutCounted
<1>15. CASE AccountStep
  BY <1>2, <1>3, <1>4, <1>7, <1>8, <1>10, <1>11, <1>12, <1>13, <1>14, <1>15 DEF AccountStep
<1> QED  BY <1>1, <1>15

-----------------------------------------------------------------------------
(***************************************************************************)
(* Approvals: a proposal, a page and a confirmation of one operation are of *)
(* one plan, which is complete, and a receipt is what a user agreed to.    *)
(***************************************************************************)
\* A plan with every number said that its mode has: as it is, whatever the defaults become.
PlanComplete(p) ==
    /\ p \in Plan /\ p.size # LeftOut
    /\ p.backbone # "color_stats" =>
         /\ ~Refused(p)
         /\ p.lora # LeftOut /\ p.rate # LeftOut /\ p.headRate # LeftOut
         /\ Mode(p) = "full" => p.backboneRate # LeftOut
         /\ Mode(p) = "lora" => p.loraRate # LeftOut

\* What a user agreed to who confirmed r.
Agreement(r) == [op |-> r.op, session |-> r.session, plan |-> r.plan]

ProposalSound ==
    proposal # NoProposal =>
        /\ proposal.op \in proposed /\ PlanComplete(proposal.plan)
        /\ proposal.confirmed => proposal.receipt # NoReceipt /\ Agreement(proposal.receipt) \in agreed

\* What the screen shows of an operation is what the run still proposes under that name.
PageSound ==
    page # NoPage =>
        /\ page.op \in proposed
        /\ proposal # NoProposal /\ proposal.op = page.op => proposal.plan = page.plan

ConfirmingSound ==
    confirming # NotConfirming => PlanComplete(confirming.plan) /\ Agreement(confirming) \in agreed

ApprovalInv == ApprovalsTypeOK /\ ProposalSound /\ PageSound /\ ConfirmingSound

-----------------------------------------------------------------------------
LEMMA ValuesDiffer ==
  /\ LeftOut \notin Said \cup {Zero} /\ Zero \notin Said
  /\ \A r : Default(r) \in Said /\ \A mode : DefaultRate(mode, r) \in Said
  BY DEF LeftOut, Said, Zero, Default, DefaultRate

LEMMA CompleteStands ==
  ASSUME NEW p, PlanComplete(p), NEW r
  PROVE  Complete(p, r) = p
<1>1. p \in Plan /\ p.size # LeftOut
  BY DEF PlanComplete
<1>2. CASE p.backbone = "color_stats"
  <2>1. [p EXCEPT !.size = p.size] = p
    BY <1>1 DEF Plan
  <2> QED  BY <1>1, <1>2, <2>1 DEF Complete, Or
<1>3. CASE p.backbone # "color_stats"
  <2>1. /\ ~Inapplicable(p) /\ p.lora # LeftOut /\ p.rate # LeftOut /\ p.headRate # LeftOut
        /\ Mode(p) = "full" => p.backboneRate # LeftOut
        /\ Mode(p) = "lora" => p.loraRate # LeftOut
    BY <1>3 DEF PlanComplete, Refused
  <2>2. /\ Mode(p) # "full" => p.backboneRate = LeftOut
        /\ Mode(p) # "lora" => p.loraRate = LeftOut
    BY <2>1 DEF Inapplicable
  <2>3. Complete(p, r) = [p EXCEPT !.lora = p.lora, !.size = p.size, !.rate = p.rate, !.headRate = p.headRate,
                                   !.backboneRate = p.backboneRate, !.loraRate = p.loraRate]
    BY <1>1, <1>3, <2>1, <2>2 DEF Complete, Or
  <2>4. [p EXCEPT !.lora = p.lora, !.size = p.size, !.rate = p.rate, !.headRate = p.headRate,
                  !.backboneRate = p.backboneRate, !.loraRate = p.loraRate] = p
    BY <1>1 DEF Plan
  <2> QED  BY <2>3, <2>4
<1> QED  BY <1>2, <1>3

LEMMA CompleteCompletes ==
  ASSUME NEW p \in Plan, ~Refused(p), NEW r
  PROVE  PlanComplete(Complete(p, r))
<1> DEFINE c == Complete(p, r)
           rate == Or(p.rate, DefaultRate(Mode(p), r))
           size == Or(p.size, Default(r))
           sizeOrZero == Or(p.size, Zero)
           lora == Or(p.lora, "off")
           head == Or(p.headRate, rate)
           backboneRate == IF Mode(p) = "full" THEN Or(p.backboneRate, rate) ELSE LeftOut
           loraRate == IF Mode(p) = "lora" THEN Or(p.loraRate, rate) ELSE LeftOut
<1>1. p.size # Zero
  BY DEF Refused, InSchema
<1>2. CASE p.backbone = "color_stats"
  <2>1. sizeOrZero \in Said \cup {Zero}
    BY ValuesDiffer DEF Or, Plan
  <2>2. c = [p EXCEPT !.size = sizeOrZero]
    BY <1>2 DEF Complete
  <2> HIDE DEF c, sizeOrZero
  <2>3. c \in Plan /\ c.size = sizeOrZero /\ c.backbone = p.backbone
    BY <2>1, <2>2 DEF Plan
  <2>4. PlanComplete(c)
    BY <1>2, <2>1, <2>3, ValuesDiffer DEF PlanComplete
  <2> QED  BY <2>4 DEF c
<1>3. CASE p.backbone # "color_stats"
  <2>1. ~Inapplicable(p)
    BY <1>3 DEF Refused
  <2>2. rate \in Said
    BY ValuesDiffer DEF Or, Plan
  <2>3. size \in Said /\ lora \in {"on", "off"} /\ (lora = "on" <=> p.lora = "on")
    BY <1>1, ValuesDiffer DEF Or, Plan, LeftOut
  <2>4. head \in Said /\ backboneRate \in Said \cup {LeftOut} /\ loraRate \in Said \cup {LeftOut}
        /\ (backboneRate # LeftOut <=> Mode(p) = "full") /\ (loraRate # LeftOut <=> Mode(p) = "lora")
    <3> HIDE DEF rate
    <3> QED  BY <2>2, ValuesDiffer DEF Or, Plan
  <2>5. c = [p EXCEPT !.lora = lora, !.size = size, !.rate = rate, !.headRate = head,
                      !.backboneRate = backboneRate, !.loraRate = loraRate]
    BY <1>3 DEF Complete
  <2> HIDE DEF c, rate, size, lora, head, backboneRate, loraRate
  <2>6. /\ c \in Plan /\ c.backbone = p.backbone /\ c.lora = lora /\ c.size = size /\ c.rate = rate
        /\ c.headRate = head /\ c.backboneRate = backboneRate /\ c.loraRate = loraRate
    BY <2>2, <2>3, <2>4, <2>5 DEF Plan
  <2>7. Mode(c) = Mode(p)
    BY <2>3, <2>6 DEF Mode
  <2>8. ~Inapplicable(c)
    BY <2>1, <2>3, <2>4, <2>6, <2>7 DEF Inapplicable
  <2>9. ~Refused(c)
    BY <1>3, <2>3, <2>6, <2>8, ValuesDiffer DEF Refused, InSchema
  <2>10. PlanComplete(c)
    BY <2>2, <2>3, <2>4, <2>6, <2>7, <2>9, ValuesDiffer DEF PlanComplete, LeftOut
  <2> QED  BY <2>10 DEF c
<1> QED  BY <1>2, <1>3

-----------------------------------------------------------------------------
LEMMA ApprovalsInitInv == ApprovalsInit => ApprovalInv
  BY DEF ApprovalsInit, ApprovalInv, ApprovalsTypeOK, ProposalSound, PageSound, ConfirmingSound

LEMMA ProposalRows ==
  ASSUME ApprovalInv, proposal # NoProposal
  PROVE  proposal \in Proposal /\ proposal.op \in Proposals /\ proposal.plan \in Plan
  BY DEF ApprovalInv, ApprovalsTypeOK, Proposal

\* A step that leaves the proposal, or takes it away.
LEMMA AroundProposal ==
  ASSUME ApprovalInv, ApprovalsTypeOK', proposal' \in {proposal, NoProposal}, proposed \subseteq proposed',
         agreed \subseteq agreed',
         page' = page \/ (page'.op = proposal.op /\ page'.plan = proposal.plan /\ proposal # NoProposal),
         confirming' \in {confirming, NotConfirming} \/ ConfirmingSound'
  PROVE  ApprovalInv'
<1>1. ProposalSound'
  BY DEF ApprovalInv, ProposalSound
<1>2. PageSound'
  BY DEF ApprovalInv, PageSound, ProposalSound
<1>3. ConfirmingSound'
  BY DEF ApprovalInv, ConfirmingSound
<1> QED  BY <1>1, <1>2, <1>3 DEF ApprovalInv

LEMMA ProposePreserves ==
  ASSUME ApprovalInv, NEW o \in Proposals, Propose(o)
  PROVE  ApprovalInv'
<1>1. PICK p \in Plans :
         ~Refused(p) /\ proposal' = [op |-> o, plan |-> Complete(p, release), confirmed |-> FALSE, receipt |-> NoReceipt]
  BY DEF Propose
<1> DEFINE c == Complete(p, release)
<1>2. PlanComplete(c)
  BY <1>1, CompleteCompletes, PlansAssumption
<1> HIDE DEF c
<1>3. proposal' = [op |-> o, plan |-> c, confirmed |-> FALSE, receipt |-> NoReceipt]
  BY <1>1 DEF c
<1>4. /\ proposal' \in Proposal /\ proposal'.op = o /\ proposal'.plan = c /\ ~proposal'.confirmed
  BY <1>2, <1>3 DEF Proposal, PlanComplete
<1>5. proposed' = proposed \cup {o} /\ o \notin proposed /\ UNCHANGED <<release, grant, page, confirming, agreed, admitted>>
  BY DEF Propose
<1>6. ApprovalsTypeOK'
  BY <1>4, <1>5 DEF ApprovalInv, ApprovalsTypeOK
<1>7. ProposalSound' /\ PageSound' /\ ConfirmingSound'
  BY <1>2, <1>4, <1>5 DEF ApprovalInv, ProposalSound, PageSound, ConfirmingSound
<1> QED  BY <1>6, <1>7 DEF ApprovalInv

LEMMA AskConfirmPreserves ==
  ASSUME ApprovalInv, NEW s \in Sessions, AskConfirm(s)
  PROVE  ApprovalInv'
<1> DEFINE c == [at |-> "asked", op |-> proposal.op, session |-> s, plan |-> proposal.plan]
           a == [op |-> page.op, session |-> s, plan |-> page.plan]
<1>1. /\ confirming' = c /\ agreed' = agreed \cup {a} /\ proposal # NoProposal /\ page # NoPage
      /\ proposal.op = page.op /\ UNCHANGED <<release, grant, proposal, proposed, page, admitted>>
  BY DEF AskConfirm
<1>2. proposal.op \in Proposals /\ proposal.plan \in Plan /\ proposal.plan = page.plan /\ PlanComplete(proposal.plan)
  BY <1>1, ProposalRows DEF ApprovalInv, PageSound, ProposalSound
<1>3. c \in Confirmation /\ a \in [op : Proposals, session : Sessions, plan : Plan] /\ Agreement(c) = a
      /\ c.plan = proposal.plan
  BY <1>1, <1>2 DEF Confirmation, Agreement
<1> HIDE DEF c, a
<1>4. ApprovalsTypeOK'
  BY <1>1, <1>3 DEF ApprovalInv, ApprovalsTypeOK
<1>5. ConfirmingSound'
  BY <1>1, <1>2, <1>3 DEF ConfirmingSound
<1> QED  BY <1>1, <1>4, <1>5, AroundProposal

LEMMA ApprovePreserves ==
  ASSUME ApprovalInv, Approve
  PROVE  ApprovalInv'
<1> DEFINE at == "approved"
           c == [confirming EXCEPT !.at = at]
<1>1. confirming \in Confirmation /\ PlanComplete(confirming.plan) /\ Agreement(confirming) \in agreed
  <2>1. confirming # NotConfirming
    BY DEF Approve, NotConfirming
  <2> QED  BY <2>1 DEF ApprovalInv, ApprovalsTypeOK, ConfirmingSound
<1>2. Complete(confirming.plan, release) = confirming.plan
  BY <1>1, CompleteStands
<1>3. confirming' = [confirming EXCEPT !.at = at, !.plan = confirming.plan]
      /\ UNCHANGED <<release, grant, proposal, proposed, page, agreed, admitted>>
  BY <1>2 DEF Approve
<1>4. at \in {"asked", "approved"}
  OBVIOUS
<1> HIDE DEF at
<1>5. confirming' = c /\ c \in Confirmation /\ c.op = confirming.op /\ c.session = confirming.session
      /\ c.plan = confirming.plan
  BY <1>1, <1>3, <1>4 DEF Confirmation
<1> HIDE DEF c
<1>6. ApprovalsTypeOK'
  BY <1>3, <1>5 DEF ApprovalInv, ApprovalsTypeOK
<1>7. ConfirmingSound'
  BY <1>1, <1>3, <1>5 DEF ConfirmingSound, Agreement
<1> QED  BY <1>3, <1>6, <1>7, AroundProposal

\* The proposal is the same but for what was confirmed of it.
LEMMA ProposalGoesOn ==
  ASSUME ApprovalInv, proposal # NoProposal, NEW confirmed \in BOOLEAN, NEW receipt \in Receipt \cup {NoReceipt},
         proposal' = [proposal EXCEPT !.confirmed = confirmed, !.receipt = receipt],
         confirmed => receipt # NoReceipt /\ Agreement(receipt) \in agreed,
         grant' \in Sessions \cup {NoDelegation}, confirming' \in {confirming, NotConfirming},
         UNCHANGED <<release, proposed, page, agreed, admitted>>
  PROVE  ApprovalInv'
<1>1. proposal \in Proposal
  BY ProposalRows
<1>2. proposal' \in Proposal /\ proposal'.op = proposal.op /\ proposal'.plan = proposal.plan
      /\ proposal'.confirmed = confirmed /\ proposal'.receipt = receipt
  BY <1>1 DEF Proposal
<1>3. ApprovalsTypeOK'
  BY <1>2 DEF ApprovalInv, ApprovalsTypeOK
<1>4. ProposalSound'
  BY <1>2 DEF ApprovalInv, ProposalSound
<1>5. PageSound' /\ ConfirmingSound'
  BY <1>2 DEF ApprovalInv, PageSound, ConfirmingSound
<1> QED  BY <1>3, <1>4, <1>5 DEF ApprovalInv

LEMMA ConfirmPreserves ==
  ASSUME ApprovalInv, Confirm
  PROVE  ApprovalInv'
<1> DEFINE yes == TRUE
           r == [op |-> confirming.op, session |-> confirming.session, plan |-> confirming.plan, lapsed |-> FALSE]
<1>1. confirming \in Confirmation /\ Agreement(confirming) \in agreed
  <2>1. confirming # NotConfirming
    BY DEF Confirm, NotConfirming
  <2> QED  BY <2>1 DEF ApprovalInv, ApprovalsTypeOK, ConfirmingSound
<1>2. r \in Receipt /\ Agreement(r) = Agreement(confirming) /\ confirming.session \in Sessions
  BY <1>1 DEF Confirmation, Receipt, Agreement
<1>3. r # NoReceipt
  BY DEF NoReceipt
<1>4. /\ proposal # NoProposal /\ proposal' = [proposal EXCEPT !.confirmed = yes, !.receipt = r]
      /\ grant' = confirming.session /\ confirming' = NotConfirming
      /\ UNCHANGED <<release, proposed, page, agreed, admitted>>
  BY DEF Confirm
<1>5. yes \in BOOLEAN
  OBVIOUS
<1> HIDE DEF yes, r
<1> QED  BY <1>1, <1>2, <1>3, <1>4, <1>5, ProposalGoesOn

LEMMA ReceiptLapsesPreserves ==
  ASSUME ApprovalInv, ReceiptLapses
  PROVE  ApprovalInv'
<1> DEFINE yes == TRUE
           r == [proposal.receipt EXCEPT !.lapsed = yes]
<1>1. proposal \in Proposal /\ proposal # NoProposal /\ proposal.receipt \in Receipt
      /\ UNCHANGED <<release, grant, proposed, page, confirming, agreed, admitted>>
  BY ProposalRows DEF ReceiptLapses, Proposal
<1>2. proposal' = [proposal EXCEPT !.confirmed = proposal.confirmed, !.receipt = r]
  BY <1>1 DEF ReceiptLapses, Proposal
<1>3. yes \in BOOLEAN
  OBVIOUS
<1> HIDE DEF yes
<1>4. r \in Receipt /\ Agreement(r) = Agreement(proposal.receipt) /\ DOMAIN r = {"op", "session", "plan", "lapsed"}
  BY <1>1, <1>3 DEF Receipt, Agreement
<1>5. DOMAIN NoReceipt = {"op"}
  BY DEF NoReceipt
<1>6. r # NoReceipt
  BY <1>4, <1>5
<1>7. proposal.confirmed \in BOOLEAN /\ (proposal.confirmed => Agreement(proposal.receipt) \in agreed)
      /\ grant \in Sessions \cup {NoDelegation}
  BY <1>1 DEF ApprovalInv, ApprovalsTypeOK, ProposalSound, Proposal
<1> HIDE DEF r
<1> QED  BY <1>1, <1>2, <1>4, <1>6, <1>7, ProposalGoesOn

LEMMA HandInRefusedPreserves ==
  ASSUME ApprovalInv, HandInRefused
  PROVE  ApprovalInv'
<1> DEFINE no == FALSE
<1>1. /\ proposal # NoProposal /\ proposal' = [proposal EXCEPT !.confirmed = no, !.receipt = NoReceipt]
      /\ UNCHANGED <<release, grant, proposed, page, confirming, agreed, admitted>>
      /\ no \in BOOLEAN /\ ~no
  BY DEF HandInRefused
<1>2. grant \in Sessions \cup {NoDelegation}
  BY DEF ApprovalInv, ApprovalsTypeOK
<1> HIDE DEF no
<1> QED  BY <1>1, <1>2, ProposalGoesOn

\* What is handed in was agreed to as it is, in a session that stands.
LEMMA HandedIn ==
  ASSUME ApprovalInv, HandIn
  PROVE  LET x == [op |-> proposal.op, session |-> grant, plan |-> proposal.plan] IN
         /\ admitted' = admitted \cup {x} /\ x \in agreed
         /\ session[grant] = Owner /\ Served(grant, "agent")
<1> DEFINE r == proposal.receipt
<1>1. /\ proposal # NoProposal /\ proposal.confirmed /\ session[grant] = Owner /\ Served(grant, "agent")
      /\ r.session = grant /\ r.op = proposal.op /\ r.plan = proposal.plan
  BY DEF HandIn, SessionStands, Verified, OwnSession
<1>2. Agreement(r) \in agreed /\ Complete(proposal.plan, release) = proposal.plan
  BY <1>1, CompleteStands DEF ApprovalInv, ProposalSound
<1>3. admitted' = admitted \cup {[op |-> proposal.op, session |-> grant, plan |-> proposal.plan]}
  BY <1>2 DEF HandIn
<1> QED  BY <1>1, <1>2, <1>3 DEF Agreement

LEMMA ApprovalStepInv ==
  ASSUME ApprovalInv, ApprovalStep \/ UNCHANGED approvalVars
  PROVE  ApprovalInv'
<1>1. CASE UNCHANGED approvalVars
  BY <1>1 DEF approvalVars, ApprovalInv, ApprovalsTypeOK, ProposalSound, PageSound, ConfirmingSound
<1>2. ASSUME NEW s \in Sessions, Grant(s) PROVE ApprovalInv'
  <2>1. ApprovalsTypeOK'
    BY <1>2 DEF Grant, ApprovalInv, ApprovalsTypeOK
  <2> QED  BY <1>2, <2>1, AroundProposal DEF Grant
<1>3. CASE GrantLapses
  <2>1. ApprovalsTypeOK'
    BY <1>3 DEF GrantLapses, ApprovalInv, ApprovalsTypeOK
  <2> QED  BY <1>3, <2>1, AroundProposal DEF GrantLapses
<1>4. CASE Withdraw
  <2>1. ApprovalsTypeOK'
    BY <1>4 DEF Withdraw, ApprovalInv, ApprovalsTypeOK
  <2> QED  BY <1>4, <2>1, AroundProposal DEF Withdraw
<1>5. CASE Show
  <2>1. page' \in [op : Proposals, plan : Plan] /\ page'.op = proposal.op /\ page'.plan = proposal.plan
    BY <1>5, ProposalRows DEF Show
  <2>2. proposal # NoProposal /\ UNCHANGED <<release, grant, proposal, proposed, confirming, agreed, admitted>>
    BY <1>5 DEF Show
  <2>3. ApprovalsTypeOK'
    BY <2>1, <2>2 DEF ApprovalInv, ApprovalsTypeOK
  <2> QED  BY <2>1, <2>2, <2>3, AroundProposal
<1>6. CASE ConfirmationEnds
  <2>1. ApprovalsTypeOK'
    BY <1>6 DEF ConfirmationEnds, ApprovalInv, ApprovalsTypeOK
  <2> QED  BY <1>6, <2>1, AroundProposal DEF ConfirmationEnds
<1>7. CASE HandIn
  <2>1. /\ admitted' = admitted \cup {[op |-> proposal.op, session |-> grant, plan |-> proposal.plan]}
        /\ [op |-> proposal.op, session |-> grant, plan |-> proposal.plan] \in agreed
    BY <1>7, HandedIn
  <2>2. proposal' = NoProposal /\ UNCHANGED <<release, grant, proposed, page, confirming, agreed>>
    BY <1>7 DEF HandIn
  <2>3. ApprovalsTypeOK'
    BY <2>1, <2>2 DEF ApprovalInv, ApprovalsTypeOK
  <2> QED  BY <2>2, <2>3, AroundProposal
<1>8. ASSUME NEW r \in Releases, Upgrade(r) PROVE ApprovalInv'
  <2>1. ApprovalsTypeOK'
    BY <1>8 DEF Upgrade, ApprovalInv, ApprovalsTypeOK
  <2> QED  BY <1>8, <2>1, AroundProposal DEF Upgrade
<1> QED  BY <1>1, <1>2, <1>3, <1>4, <1>5, <1>6, <1>7, <1>8, ProposePreserves, AskConfirmPreserves, ApprovePreserves,
            ConfirmPreserves, ReceiptLapsesPreserves, HandInRefusedPreserves
         DEF ApprovalStep

LEMMA ApprovalInvSound == ApprovalInv => CompletedPlansStand
  BY CompleteStands DEF ApprovalInv, ProposalSound, CompletedPlansStand, PlanComplete

LEMMA ApprovalStepSound ==
  ASSUME ApprovalInv, ApprovalStep \/ UNCHANGED approvalVars
  PROVE  \A x \in admitted' \ admitted :
            x \in agreed /\ session[x.session] = Owner /\ Served(x.session, "agent")
<1>1. CASE HandIn
  <2> DEFINE x == [op |-> proposal.op, session |-> grant, plan |-> proposal.plan]
  <2>1. admitted' = admitted \cup {x} /\ x \in agreed /\ session[grant] = Owner /\ Served(grant, "agent") /\ x.session = grant
    BY <1>1, HandedIn
  <2> HIDE DEF x
  <2> QED  BY <2>1
<1>2. ~HandIn => admitted' = admitted
  BY DEF ApprovalStep, approvalVars, Grant, AskConfirm, Propose, GrantLapses, Withdraw, Show, ConfirmationEnds, Approve,
         Confirm, ReceiptLapses, HandInRefused, Upgrade
<1> QED  BY <1>1, <1>2

-----------------------------------------------------------------------------
(***************************************************************************)
(* Cards: a draft is known to who asks for it, is paid once, and gives the *)
(* revision it was made for.                                               *)
(***************************************************************************)
\* A draft that was paid for is known, and one that was applied or expired stays what it is.
DraftsKnown ==
    \A d \in Drafts :
        /\ draft[d].status = "none" => paid[d] = 0 /\ draft[d].applied = 0
        /\ draft[d].applied > 0 => draft[d].status = "succeeded"
        /\ draft[d].expired => draft[d].status \in {"running", "failed"}

\* A call of Generate knows its card and its request, and at last whether the model answered.
WritersKnow ==
    \A w \in Writers :
        /\ writer[w].at # "idle" => writer[w].version \in Versions /\ writer[w].draft \in Drafts
        /\ writer[w].at = "finishing" => writer[w].result \in {"succeeded", "failed"}

\* Rows and calls, with numbers that no bound is needed for.
DraftRows ==
    [version : Versions \cup {NoVersion}, base : Nat,
     status : {"none", "running", "succeeded", "failed"}, expired : BOOLEAN, applied : Nat]
WriterCalls ==
    [at : {"idle", "read", "calling", "finishing", "told"}, version : Versions \cup {NoVersion},
     draft : Drafts \cup {NoDraft}, base : Nat, result : {"none", "succeeded", "failed"}]

CardsTypes ==
    /\ card \in [Versions -> Seq(Drafts \cup {NoDraft})]
    /\ draft \in [Drafts -> DraftRows]
    /\ writer \in [Writers -> WriterCalls]
    /\ paid \in [Drafts -> Nat]

\* A revision that was made from a draft is the one that the draft says.
RevisionsFromDrafts ==
    \A v \in Versions : \A i \in 1..Len(card[v]) :
        card[v][i] # NoDraft =>
            /\ draft[card[v][i]].version = v /\ draft[card[v][i]].base = i - 1
            /\ draft[card[v][i]].applied = i

CardsInv == CardsTypes /\ DraftsKnown /\ WritersKnow /\ RevisionsFromDrafts /\ DraftsPaidOnce /\ CallersToldTruth

USE DEF DraftRows, WriterCalls

\* A call that goes on, of the same card and request.
LEMMA WriterGoesOn ==
  ASSUME CardsInv, NEW w \in Writers,
         NEW at \in {"calling", "finishing", "told"}, NEW result \in {"none", "succeeded", "failed"},
         writer[w].at # "idle", at = "finishing" => result # "none",
         writer' = [writer EXCEPT ![w] = [writer[w] EXCEPT !.at = at, !.result = result]]
  PROVE  /\ writer' \in [Writers -> WriterCalls] /\ WritersKnow'
         /\ \A x \in Writers : x # w => writer'[x] = writer[x]
         /\ writer'[w].at = at /\ writer'[w].result = result /\ writer'[w].draft = writer[w].draft
<1>1. writer \in [Writers -> WriterCalls]
  BY DEF CardsInv, CardsTypes
<1>2. writer[w] \in WriterCalls
  BY <1>1
<1> DEFINE x == [writer[w] EXCEPT !.at = at, !.result = result]
<1>3. x \in WriterCalls /\ x.at = at /\ x.result = result /\ x.draft = writer[w].draft
      /\ x.version = writer[w].version
  BY <1>2
<1>4. writer[w].version \in Versions /\ writer[w].draft \in Drafts
  BY DEF CardsInv, WritersKnow
<1> HIDE DEF x, WriterCalls
<1>5. writer' = [writer EXCEPT ![w] = x]
  BY DEF x
<1>6. writer' \in [Writers -> WriterCalls] /\ writer'[w] = x
      /\ \A y \in Writers : y # w => writer'[y] = writer[y]
  BY <1>1, <1>3, <1>5
<1>7. WritersKnow'
  BY <1>3, <1>4, <1>6 DEF CardsInv, WritersKnow
<1> QED  BY <1>3, <1>6, <1>7

LEMMA CardsInitInv == CardsInit => CardsInv
  BY CardAssumption DEF CardsInit, CardsInv, CardsTypes, DraftsKnown, WritersKnow, RevisionsFromDrafts, DraftsPaidOnce,
     CallersToldTruth, NoRow, IdleWriter

\* What no step does to a draft: rows that ended, were applied or expired stay what they are.
DraftKept(d) ==
    /\ draft[d].status \in {"succeeded", "failed"} => draft'[d].status = draft[d].status
    /\ draft[d].expired => draft'[d].expired /\ draft'[d].status \in {"running", "failed"}

LEMMA SavePreserves ==
  ASSUME CardsInv, NEW v \in Versions, NEW expected \in 0..MaxRevision, NEW d \in Drafts \cup {NoDraft},
         Save(v, expected, d)
  PROVE  CardsInv' /\ \A e \in Drafts : DraftKept(e)
<1>0. card[v] \in Seq(Drafts \cup {NoDraft}) /\ expected = Len(card[v]) /\ expected \in Nat
  BY CardAssumption DEF CardsInv, CardsTypes, Save, Revision
<1>1. card' = [card EXCEPT ![v] = Append(@, d)] /\ UNCHANGED <<writer, paid>>
  BY DEF Save
<1>2. CASE d = NoDraft
  <2>1. draft' = draft
    BY <1>2 DEF Save
  <2>2. RevisionsFromDrafts'
    <3> SUFFICES ASSUME NEW u \in Versions, NEW i \in 1..Len(card'[u]), card'[u][i] # NoDraft
                 PROVE  i \in 1..Len(card[u]) /\ card'[u][i] = card[u][i]
      BY <2>1 DEF CardsInv, RevisionsFromDrafts
    <3>1. CASE u = v
      BY <3>1, <1>0, <1>1, <1>2 DEF CardsInv, CardsTypes
    <3>2. CASE u # v
      BY <3>2, <1>1 DEF CardsInv, CardsTypes
    <3> QED  BY <3>1, <3>2
  <2>3. CardsTypes'
    BY <1>0, <1>1, <2>1 DEF CardsInv, CardsTypes
  <2> QED  BY <2>1, <2>2, <2>3, <1>1 DEF CardsInv, DraftsKnown, WritersKnow, DraftsPaidOnce, CallersToldTruth, DraftKept
<1>3. CASE d # NoDraft
  <2>0. d \in Drafts /\ MayApply(v, d) /\ draft' = [draft EXCEPT ![d].applied = expected + 1]
    BY <1>3 DEF Save
  <2>3a. draft' \in [Drafts -> DraftRows]
    <3>1. draft[d] \in DraftRows /\ expected + 1 \in Nat /\ draft \in [Drafts -> DraftRows]
      BY <1>0, <2>0 DEF CardsInv, CardsTypes
    <3>2. [draft[d] EXCEPT !.applied = expected + 1] \in DraftRows
      BY <3>1
    <3>3. draft' = [draft EXCEPT ![d] = [draft[d] EXCEPT !.applied = expected + 1]]
      BY <2>0
    <3> HIDE DEF DraftRows
    <3> QED  BY <2>0, <3>1, <3>2, <3>3
  <2>3b. card' \in [Versions -> Seq(Drafts \cup {NoDraft})]
    BY <1>0, <1>1 DEF CardsInv, CardsTypes
  <2>1. CardsTypes'
    BY <1>1, <2>3a, <2>3b DEF CardsInv, CardsTypes
  <2>2. RevisionsFromDrafts'
    <3> SUFFICES ASSUME NEW u \in Versions, NEW i \in 1..Len(card'[u]), card'[u][i] # NoDraft
                 PROVE  LET r == draft'[card'[u][i]] IN r.version = u /\ r.base = i - 1 /\ r.applied = i
      BY DEF RevisionsFromDrafts
    <3>1. CASE i \in 1..Len(card[u]) /\ card'[u][i] = card[u][i]
      <4>1. card[u][i] \in Drafts
        BY <3>1 DEF CardsInv, CardsTypes
      <4>2. draft[card[u][i]].applied = i
        BY <3>1 DEF CardsInv, RevisionsFromDrafts
      <4>3. card[u][i] # d
        BY <4>2, <2>0 DEF MayApply
      <4> QED  BY <3>1, <4>1, <4>3, <2>0 DEF CardsInv, RevisionsFromDrafts, CardsTypes
    <3>2. CASE ~(i \in 1..Len(card[u]) /\ card'[u][i] = card[u][i])
      <4>1. u = v /\ i = Len(card[v]) + 1 /\ card'[u][i] = d
        BY <3>2, <1>0, <1>1 DEF CardsInv, CardsTypes
      <4> QED  BY <4>1, <2>0, <1>0 DEF MayApply, CardsInv, CardsTypes, Revision
    <3> QED  BY <3>1, <3>2
  <2>3. DraftsKnown' /\ \A e \in Drafts : DraftKept(e)
    BY <1>0, <2>0, <1>1 DEF MayApply, CardsInv, CardsTypes, DraftsKnown, DraftKept
  <2>4. WritersKnow' /\ DraftsPaidOnce' /\ CallersToldTruth'
    BY <1>1, <2>0 DEF CardsInv, CardsTypes, WritersKnow, DraftsPaidOnce, CallersToldTruth
  <2> QED  BY <2>1, <2>2, <2>3, <2>4 DEF CardsInv
<1> QED  BY <1>2, <1>3

\* A step that leaves the cards alone keeps the revisions if it keeps applied drafts.
LEMMA RevisionsKept ==
  ASSUME CardsInv, UNCHANGED card,
         \A d \in Drafts : draft[d].applied > 0 => draft'[d].version = draft[d].version
                             /\ draft'[d].base = draft[d].base /\ draft'[d].applied = draft[d].applied
  PROVE  RevisionsFromDrafts'
<1> SUFFICES ASSUME NEW v \in Versions, NEW i \in 1..Len(card[v]), card[v][i] # NoDraft
             PROVE  LET r == draft'[card[v][i]] IN r.version = v /\ r.base = i - 1 /\ r.applied = i
  BY DEF RevisionsFromDrafts
<1>1. card[v][i] \in Drafts /\ i > 0
  BY DEF CardsInv, CardsTypes
<1> QED  BY <1>1 DEF CardsInv, RevisionsFromDrafts

\* Begin, on any request.
LEMMA SweptKeeps ==
  ASSUME CardsInv, NEW v \in Versions
  PROVE  /\ Swept(v) \in [Drafts -> DraftRows]
         /\ \A d \in Drafts :
              /\ Swept(v)[d].status = draft[d].status \/ (draft[d].status = "running" /\ Swept(v)[d].status = "failed")
              /\ Swept(v)[d].applied = draft[d].applied /\ Swept(v)[d].version = draft[d].version
              /\ Swept(v)[d].base = draft[d].base /\ Swept(v)[d].expired = draft[d].expired
<1>1. ASSUME NEW d \in Drafts
      PROVE  /\ Swept(v)[d] \in DraftRows
             /\ Swept(v)[d].status = draft[d].status \/ (draft[d].status = "running" /\ Swept(v)[d].status = "failed")
             /\ Swept(v)[d].applied = draft[d].applied /\ Swept(v)[d].version = draft[d].version
             /\ Swept(v)[d].base = draft[d].base /\ Swept(v)[d].expired = draft[d].expired
  <2>1. PICK old : old = draft[d]
    OBVIOUS
  <2>2. old \in DraftRows
    BY <1>1, <2>1 DEF CardsInv, CardsTypes
  <2>3. Swept(v)[d] = old \/ (old.status = "running" /\ Swept(v)[d] = [old EXCEPT !.status = "failed"])
    BY <1>1, <2>1 DEF Swept
  <2>4. PICK new : new = [old EXCEPT !.status = "failed"]
    OBVIOUS
  <2>5. /\ new \in DraftRows /\ new.status = "failed" /\ new.applied = old.applied
        /\ new.version = old.version /\ new.base = old.base /\ new.expired = old.expired
    BY <2>2, <2>4
  <2> HIDE DEF DraftRows
  <2> QED  BY <2>1, <2>2, <2>3, <2>4, <2>5
<1>2. Swept(v) = [d \in Drafts |-> Swept(v)[d]]
  BY DEF Swept
<1> HIDE DEF DraftRows
<1>3. Swept(v) \in [Drafts -> DraftRows]
  BY <1>1, <1>2
<1> QED  BY <1>1, <1>3

LEMMA BeginPreserves ==
  ASSUME CardsInv, NEW w \in Writers, BeginKnown(w) \/ Begin(w)
  PROVE  CardsInv' /\ \A e \in Drafts : DraftKept(e)
<1> DEFINE v == writer[w].version
           d == writer[w].draft
<1>0. v \in Versions /\ d \in Drafts
  BY DEF CardsInv, WritersKnow, BeginKnown, Begin
<1>a. UNCHANGED card
  BY DEF BeginKnown, Begin
<1> HIDE DEF v, d
<1>1. CASE BeginKnown(w)
  <2>1. draft' = Swept(v) /\ Swept(v)[d].status # "none" /\ UNCHANGED <<paid>>
        /\ writer' = [writer EXCEPT ![w] = [writer[w] EXCEPT !.at = "told",
                             !.result = IF Swept(v)[d].status = "running" THEN "none" ELSE Swept(v)[d].status]]
        /\ writer[w].draft = d
    BY <1>1 DEF BeginKnown, Startable, Moves, v, d
  <2> DEFINE result == IF Swept(v)[d].status = "running" THEN "none" ELSE Swept(v)[d].status
  <2>8. result \in {"none", "succeeded", "failed"} /\ writer[w].at = "read"
    BY <1>0, <1>1, <2>1, SweptKeeps DEF BeginKnown
  <2>9. /\ writer' \in [Writers -> WriterCalls] /\ WritersKnow'
        /\ \A x \in Writers : x # w => writer'[x] = writer[x]
        /\ writer'[w].at = "told" /\ writer'[w].result = result /\ writer'[w].draft = d
    BY <2>1, <2>8, WriterGoesOn
  <2>2. CardsTypes'
    BY <1>0, <1>a, <2>1, <2>9, SweptKeeps DEF CardsInv, CardsTypes
  <2>3. DraftsKnown' /\ \A e \in Drafts : DraftKept(e)
    BY <1>0, <2>1, SweptKeeps DEF CardsInv, DraftsKnown, DraftKept
  <2>4. WritersKnow'
    BY <2>9
  <2>5. CallersToldTruth'
    BY <1>0, <2>1, <2>3, <2>9 DEF CardsInv, CardsTypes, CallersToldTruth, WritersKnow, DraftKept
  <2>6. RevisionsFromDrafts'
    BY <1>0, <1>a, <2>1, SweptKeeps, RevisionsKept
  <2>7. DraftsPaidOnce'
    BY <2>1 DEF CardsInv, DraftsPaidOnce
  <2> QED  BY <2>2, <2>3, <2>4, <2>5, <2>6, <2>7 DEF CardsInv
<1>2. CASE Begin(w)
  <2>1. /\ Swept(v)[d].status = "none" /\ paid' = [paid EXCEPT ![d] = @ + 1]
        /\ draft' = [Swept(v) EXCEPT ![d] = [NoRow EXCEPT !.version = v, !.base = writer[w].base, !.status = "running"]]
        /\ writer' = [writer EXCEPT ![w] = [writer[w] EXCEPT !.at = "calling"]]
        /\ writer[w].draft = d
    BY <1>2 DEF Begin, Startable, Moves, v, d
  <2>0. draft[d].status = "none" /\ draft[d].applied = 0 /\ paid[d] = 0 /\ ~draft[d].expired
    <3>1. draft[d].status = "none"
      BY <1>0, <2>1, SweptKeeps
    <3> QED  BY <1>0, <3>1 DEF CardsInv, DraftsKnown
  <2>8. writer[w].at = "read" /\ writer[w].result \in {"none", "succeeded", "failed"} /\ writer[w].base \in Nat
        /\ writer' = [writer EXCEPT ![w] = [writer[w] EXCEPT !.at = "calling", !.result = writer[w].result]]
    BY <1>2, <2>1 DEF Begin, CardsInv, CardsTypes
  <2>9. /\ writer' \in [Writers -> WriterCalls] /\ WritersKnow'
        /\ \A x \in Writers : x # w => writer'[x] = writer[x]
        /\ writer'[w].at = "calling"
    BY <2>8, WriterGoesOn
  <2>10. [NoRow EXCEPT !.version = v, !.base = writer[w].base, !.status = "running"] \in DraftRows
    BY <1>0, <2>8 DEF NoRow
  <2> HIDE DEF DraftRows
  <2>2. CardsTypes'
    BY <1>0, <1>a, <2>1, <2>9, <2>10, SweptKeeps DEF CardsInv, CardsTypes
  <2>11. PICK begun : begun = [NoRow EXCEPT !.version = v, !.base = writer[w].base, !.status = "running"]
    OBVIOUS
  <2>12. begun.version = v /\ begun.status = "running" /\ begun.applied = 0 /\ begun.expired = FALSE
    BY <2>11 DEF NoRow
  <2>13. draft' = [Swept(v) EXCEPT ![d] = begun] /\ Swept(v) \in [Drafts -> DraftRows]
    BY <1>0, <2>1, <2>11, SweptKeeps
  <2>14. draft'[d] = begun /\ \A e \in Drafts : e # d => draft'[e] = Swept(v)[e]
    BY <1>0, <2>13
  <2>15. paid'[d] = 1 /\ \A e \in Drafts : e # d => paid'[e] = paid[e]
    BY <1>0, <2>0, <2>1 DEF CardsInv, CardsTypes
  <2>3. DraftsKnown' /\ \A e \in Drafts : DraftKept(e)
    <3>1. ASSUME NEW e \in Drafts, e # d
          PROVE  draft'[e].status = draft[e].status \/ (draft[e].status = "running" /\ draft'[e].status = "failed")
      BY <1>0, <3>1, <2>14, SweptKeeps
    <3>2. ASSUME NEW e \in Drafts, e # d
          PROVE  draft'[e].applied = draft[e].applied /\ draft'[e].expired = draft[e].expired
      BY <1>0, <3>2, <2>14, SweptKeeps
    <3>3. ASSUME NEW e \in Drafts
          PROVE  /\ draft'[e].status = "none" => paid'[e] = 0 /\ draft'[e].applied = 0
                 /\ draft'[e].applied > 0 => draft'[e].status = "succeeded"
                 /\ draft'[e].expired => draft'[e].status \in {"running", "failed"}
      <4>1. CASE e = d
        BY <4>1, <2>12, <2>14
      <4>2. CASE e # d
        BY <4>2, <2>15, <3>1, <3>2 DEF CardsInv, DraftsKnown
      <4> QED  BY <4>1, <4>2
    <3>4. ASSUME NEW e \in Drafts PROVE DraftKept(e)
      <4>1. CASE e = d
        BY <4>1, <2>0 DEF DraftKept
      <4>2. CASE e # d
        BY <4>2, <3>1, <3>2, <3>3 DEF CardsInv, DraftsKnown, DraftKept
      <4> QED  BY <4>1, <4>2
    <3> QED  BY <3>3, <3>4 DEF DraftsKnown
  <2>4. WritersKnow'
    BY <2>9
  <2>5. CallersToldTruth'
    BY <1>0, <2>3, <2>9 DEF CardsInv, CallersToldTruth, WritersKnow, DraftKept
  <2>6. RevisionsFromDrafts'
    BY <1>0, <1>a, <2>0, <2>1, SweptKeeps, RevisionsKept
  <2>7. DraftsPaidOnce'
    BY <1>0, <2>0, <2>1 DEF CardsInv, CardsTypes, DraftsPaidOnce
  <2> QED  BY <2>2, <2>3, <2>4, <2>5, <2>6, <2>7 DEF CardsInv
<1> QED  BY <1>1, <1>2

\* A step of a call that leaves the drafts alone.
LEMMA OnlyWriter ==
  ASSUME CardsInv, UNCHANGED <<card, draft, paid>>, writer' \in [Writers -> WriterCalls], WritersKnow', CallersToldTruth'
  PROVE  CardsInv' /\ \A e \in Drafts : DraftKept(e)
<1>1. CardsTypes' /\ DraftsKnown' /\ DraftsPaidOnce'
  BY DEF CardsInv, CardsTypes, DraftsKnown, DraftsPaidOnce
<1>2. RevisionsFromDrafts'
  BY DEF CardsInv, RevisionsFromDrafts
<1>3. \A e \in Drafts : DraftKept(e)
  BY DEF CardsInv, DraftsKnown, DraftKept
<1> QED  BY <1>1, <1>2, <1>3 DEF CardsInv

LEMMA IdleCard == IdleWriter \in WriterCalls /\ IdleWriter.at = "idle"
  BY DEF IdleWriter

\* Steps of a call that leave the drafts alone, or finish one.
LEMMA WriterPreserves ==
  ASSUME CardsInv, NEW w \in Writers,
         \/ \E v \in Versions, d \in Drafts : Read(w, v, d)
         \/ BeginConflict(w) \/ Leave(w)
         \/ \E result \in {"succeeded", "failed"} : ModelAnswers(w, result)
  PROVE  CardsInv' /\ \A e \in Drafts : DraftKept(e)
<1>1. UNCHANGED <<card, draft, paid>>
  BY DEF Read, BeginConflict, Leave, ModelAnswers
<1>2. CASE \E v \in Versions, d \in Drafts : Read(w, v, d)
  <2>1. PICK v \in Versions, d \in Drafts : Read(w, v, d)
    BY <1>2
  <2> DEFINE x == [IdleWriter EXCEPT !.at = "read", !.version = v, !.draft = d, !.base = Revision(v)]
  <2>2. Len(card[v]) \in Nat /\ writer \in [Writers -> WriterCalls]
    BY DEF CardsInv, CardsTypes
  <2>4. x \in WriterCalls /\ x.at = "read" /\ x.version = v /\ x.draft = d
    BY <2>2 DEF IdleWriter, Revision
  <2>3. writer' = [writer EXCEPT ![w] = x]
    BY <2>1 DEF Read, Moves
  <2> HIDE DEF x
  <2>5. writer' \in [Writers -> WriterCalls] /\ WritersKnow' /\ CallersToldTruth'
    BY <1>1, <2>2, <2>3, <2>4 DEF CardsInv, WritersKnow, CallersToldTruth
  <2> QED  BY <1>1, <2>5, OnlyWriter
<1>3. CASE BeginConflict(w) \/ Leave(w)
  <2>1. writer' = [writer EXCEPT ![w] = IdleWriter]
    BY <1>3 DEF BeginConflict, Leave, Moves
  <2>2. writer' \in [Writers -> WriterCalls] /\ writer'[w].at = "idle"
        /\ \A x \in Writers : x # w => writer'[x] = writer[x]
    BY <2>1, IdleCard DEF CardsInv, CardsTypes
  <2>3. WritersKnow' /\ CallersToldTruth'
    BY <1>1, <2>2 DEF CardsInv, WritersKnow, CallersToldTruth
  <2> QED  BY <1>1, <2>2, <2>3, OnlyWriter
<1>4. CASE \E result \in {"succeeded", "failed"} : ModelAnswers(w, result)
  <2>1. PICK result \in {"succeeded", "failed"} : ModelAnswers(w, result)
    BY <1>4
  <2>2. /\ writer' \in [Writers -> WriterCalls] /\ WritersKnow'
        /\ \A x \in Writers : x # w => writer'[x] = writer[x]
        /\ writer'[w].at = "finishing"
    BY <2>1, WriterGoesOn DEF ModelAnswers, Moves
  <2>3. CallersToldTruth'
    BY <1>1, <2>2 DEF CardsInv, CallersToldTruth
  <2> QED  BY <1>1, <2>2, <2>3, OnlyWriter
<1> QED  BY <1>2, <1>3, <1>4

LEMMA FinishDraftPreserves ==
  ASSUME CardsInv, NEW w \in Writers, FinishDraft(w)
  PROVE  CardsInv' /\ \A e \in Drafts : DraftKept(e)
<1> DEFINE d == writer[w].draft
<1>0. d \in Drafts /\ writer[w].result \in {"succeeded", "failed"} /\ UNCHANGED <<card, paid>>
  BY DEF FinishDraft, CardsInv, WritersKnow
<1>1. CASE StillRunning(d)
  <2>1. /\ draft[d].status = "running" /\ ~draft[d].expired
        /\ draft' = [draft EXCEPT ![d].status = writer[w].result]
        /\ writer' = [writer EXCEPT ![w] = [writer[w] EXCEPT !.at = "told"]]
    BY <1>1 DEF FinishDraft, StillRunning, Moves
  <2>8. writer[w].at = "finishing"
        /\ writer' = [writer EXCEPT ![w] = [writer[w] EXCEPT !.at = "told", !.result = writer[w].result]]
    BY <1>0, <2>1 DEF FinishDraft, CardsInv, CardsTypes
  <2>9. /\ writer' \in [Writers -> WriterCalls] /\ WritersKnow'
        /\ \A x \in Writers : x # w => writer'[x] = writer[x]
        /\ writer'[w].at = "told" /\ writer'[w].result = writer[w].result /\ writer'[w].draft = d
    BY <1>0, <2>8, WriterGoesOn
  <2>7a. draft[d] \in DraftRows
    BY <1>0 DEF CardsInv, CardsTypes
  <2>7b. [draft[d] EXCEPT !.status = writer[w].result] \in DraftRows
    BY <1>0, <2>7a
  <2>7c. draft' = [draft EXCEPT ![d] = [draft[d] EXCEPT !.status = writer[w].result]]
    BY <2>1
  <2>2. CardsTypes'
    <3> HIDE DEF DraftRows, WriterCalls
    <3> QED  BY <1>0, <2>7b, <2>7c, <2>9 DEF CardsInv, CardsTypes
  <2>3. DraftsKnown' /\ \A e \in Drafts : DraftKept(e)
    BY <1>0, <2>1 DEF CardsInv, CardsTypes, DraftsKnown, DraftKept
  <2>4. WritersKnow' /\ CallersToldTruth'
    BY <1>0, <2>1, <2>3, <2>9 DEF CardsInv, CardsTypes, CallersToldTruth, WritersKnow, DraftKept
  <2>6. RevisionsFromDrafts'
    BY <1>0, <2>1, RevisionsKept DEF CardsInv, CardsTypes
  <2>7. DraftsPaidOnce'
    BY <1>0 DEF CardsInv, DraftsPaidOnce
  <2> QED  BY <2>2, <2>3, <2>4, <2>6, <2>7 DEF CardsInv
<1>2. CASE ~StillRunning(d)
  <2>1. UNCHANGED <<card, paid, draft>> /\ writer' = [writer EXCEPT ![w] = IdleWriter]
    BY <1>0, <1>2 DEF FinishDraft, Moves
  <2>2. writer' \in [Writers -> WriterCalls] /\ writer'[w].at = "idle"
        /\ \A x \in Writers : x # w => writer'[x] = writer[x]
    BY <2>1, IdleCard DEF CardsInv, CardsTypes
  <2>3. WritersKnow' /\ CallersToldTruth'
    BY <2>1, <2>2 DEF CardsInv, WritersKnow, CallersToldTruth
  <2> QED  BY <2>1, <2>2, <2>3, OnlyWriter
<1> QED  BY <1>1, <1>2

LEMMA ExpirePreserves ==
  ASSUME CardsInv, NEW d \in Drafts, Expire(d)
  PROVE  CardsInv' /\ \A e \in Drafts : DraftKept(e)
<1>1. draft[d] \in DraftRows /\ draft' = [draft EXCEPT ![d] = [draft[d] EXCEPT !.expired = TRUE]]
  BY DEF Expire, CardsInv, CardsTypes
<1>2. [draft[d] EXCEPT !.expired = TRUE] \in DraftRows
  BY <1>1
<1>3. CardsTypes'
  <2> HIDE DEF DraftRows, WriterCalls
  <2> QED  BY <1>1, <1>2 DEF Expire, CardsInv, CardsTypes
<1>4. RevisionsFromDrafts'
  BY RevisionsKept DEF Expire, CardsInv, CardsTypes
<1>5. DraftsKnown' /\ \A e \in Drafts : DraftKept(e)
  BY DEF Expire, CardsInv, CardsTypes, DraftsKnown, DraftKept
<1>6. WritersKnow' /\ DraftsPaidOnce' /\ CallersToldTruth'
  BY DEF Expire, CardsInv, CardsTypes, WritersKnow, DraftsPaidOnce, CallersToldTruth
<1> QED  BY <1>3, <1>4, <1>5, <1>6 DEF CardsInv

LEMMA CardsStep ==
  ASSUME CardsInv, CardStep \/ UNCHANGED cardVars
  PROVE  CardsInv' /\ \A d \in Drafts : DraftKept(d)
<1>1. CASE UNCHANGED cardVars
  BY <1>1 DEF cardVars, CardsInv, CardsTypes, DraftsKnown, WritersKnow, RevisionsFromDrafts, DraftsPaidOnce,
              CallersToldTruth, DraftKept
<1>2. CASE CardStep
  BY <1>2, SavePreserves, BeginPreserves, WriterPreserves, FinishDraftPreserves, ExpirePreserves DEF CardStep
<1> QED  BY <1>1, <1>2

\* The invariant gives the properties of the card.
LEMMA CardsInvSound == CardsInv => DraftsFit /\ DraftsPaidOnce /\ CallersToldTruth
  BY CardAssumption DEF CardsInv, CardsTypes, RevisionsFromDrafts, DraftsFit, Revision

LEMMA CardsStepSound ==
  ASSUME CardsInv, \A d \in Drafts : DraftKept(d)
  PROVE  \A d \in Drafts : draft[d].status = "failed" \/ draft[d].expired => draft'[d].status # "succeeded"
  BY DEF DraftKept

-----------------------------------------------------------------------------
(***************************************************************************)
(* The agent's queue is proved in AgentRun_proofs; what is proved there    *)
(* holds of the queue here, which is the same specification.               *)
(***************************************************************************)
Proved == INSTANCE AgentRun_proofs

LEMMA SameInit == Queue!Init <=> Proved!Init
  BY DEF Queue!Init, Proved!Init, Queue!RunOperations, Proved!RunOperations, Queue!ToolNumbers,
         Proved!ToolNumbers, Queue!Idle, Proved!Idle, Queue!NewState, Proved!NewState, Queue!NoProposal,
         Proved!NoProposal, Queue!NoRow, Proved!NoRow, Queue!NoConversation, Proved!NoConversation,
         Queue!Platform!Init, Proved!Platform!Init

LEMMA SameNext == Queue!Next <=> Proved!Next
  BY DEF Queue!Next, Proved!Next, Queue!Stall, Proved!Stall, Queue!LeaseEnds, Proved!LeaseEnds,
         Queue!platformVars, Proved!platformVars, Queue!historyVars, Proved!historyVars, Queue!Held,
         Proved!Held, Queue!Faulty, Proved!Faulty, Queue!BeatFails, Proved!BeatFails, Queue!Reconcile,
         Proved!Reconcile, Queue!RunOperations, Proved!RunOperations, Queue!ToolNumbers,
         Proved!ToolNumbers, Queue!Beat, Proved!Beat, Queue!Mine, Proved!Mine, Queue!Stopped,
         Proved!Stopped, Queue!Step, Proved!Step, Queue!Local, Proved!Local, Queue!Validate,
         Proved!Validate, Queue!At, Proved!At, Queue!Saving, Proved!Saving, Queue!Continuing,
         Proved!Continuing, Queue!Ending, Proved!Ending, Queue!Unauthorised, Proved!Unauthorised,
         Queue!Propose, Proved!Propose, Queue!Proposed, Proved!Proposed, Queue!Answer, Proved!Answer,
         Queue!Told, Proved!Told, Queue!NoProposal, Proved!NoProposal, Queue!Catalog, Proved!Catalog,
         Queue!Inquire, Proved!Inquire, Queue!Reported, Proved!Reported, Queue!ReadTools,
         Proved!ReadTools, Queue!Top, Proved!Top, Queue!TakeCalls, Proved!TakeCalls, Queue!Goes,
         Proved!Goes, Queue!TakeRound, Proved!TakeRound, Queue!TakeWrite, Proved!TakeWrite, Queue!Reply,
         Proved!Reply, Queue!CallKinds, Proved!CallKinds, Queue!Ask, Proved!Ask, Queue!Invoke,
         Proved!Invoke, Queue!Save, Proved!Save, Queue!Idle, Proved!Idle, Queue!NewState,
         Proved!NewState, Queue!Claim, Proved!Claim, Queue!Recovered, Proved!Recovered,
         Queue!RecoveredStatus, Proved!RecoveredStatus, Queue!Picks, Proved!Picks, Queue!OfOwner,
         Proved!OfOwner, Queue!Claimable, Proved!Claimable, Queue!WithStatus, Proved!WithStatus,
         Queue!LeaseGone, Proved!LeaseGone, Queue!Lapse, Proved!Lapse, Queue!Handle, Proved!Handle,
         Queue!UserStep, Proved!UserStep, Queue!Resume, Proved!Resume, Queue!Conversations,
         Proved!Conversations, Queue!Cancel, Proved!Cancel, Queue!Active, Proved!Active, Queue!Confirm,
         Proved!Confirm, Queue!Confirmable, Proved!Confirmable, Queue!Submit, Proved!Submit,
         Queue!NoRow, Proved!NoRow, Queue!NoConversation, Proved!NoConversation, Queue!Admitted,
         Proved!Admitted, Queue!InConversation, Proved!InConversation, Queue!Crash, Proved!Crash,
         Queue!Platform!Happen, Proved!Platform!Happen, Queue!Platform!Report, Proved!Platform!Report,
         Queue!Cardinality, Proved!Cardinality

LEMMA SameLimits == Queue!QueueLimitsKept <=> Proved!QueueLimitsKept
  BY DEF Queue!QueueLimitsKept, Proved!QueueLimitsKept, Queue!AdmissionLimits, Proved!AdmissionLimits,
         Queue!Conversations, Proved!Conversations, Queue!InConversation, Proved!InConversation,
         Queue!OfOwner, Proved!OfOwner, Queue!Active, Proved!Active, Queue!RunningLimits,
         Proved!RunningLimits, Queue!WithStatus, Proved!WithStatus, Queue!Cardinality,
         Proved!Cardinality

QueueInv == Proved!IInv /\ Proved!Limits(row)

LEMMA QueueConstants ==
  /\ {MaxRounds, MaxTools, MaxEpoch, FaultLimit} \subseteq Nat
  /\ {RunningLimit, OwnerRunning, OwnerActive, QueueLimit} \subseteq Nat \ {0}
  BY ServicesAssumption, WatchesAssumption

LEMMA QueueInitInv == Queue!Init => QueueInv
  BY SameInit, QueueConstants, Proved!InitInv, Proved!InitLimits DEF QueueInv

LEMMA QueueStepInv ==
  ASSUME QueueInv, Queue!Next \/ UNCHANGED queueVars
  PROVE  QueueInv'
<1>1. [Proved!Next]_Proved!vars
  BY SameNext DEF queueVars, Proved!vars
<1> QED  BY <1>1, QueueConstants, Proved!NextKeeps, Proved!NextLimits DEF QueueInv

LEMMA QueueInvSound == QueueInv => AgentQueueBounded
<1>1. Proved!Limits(row) => Proved!QueueLimitsKept
  BY DEF Proved!Limits, Proved!QueueLimitsKept, Proved!RunningLimits, Proved!AdmissionLimits
<1> QED  BY <1>1, SameLimits DEF QueueInv, AgentQueueBounded

-----------------------------------------------------------------------------
(***************************************************************************)
(* The services together.                                                  *)
(***************************************************************************)
\* One of a service's own steps, or none.
ServicesStep ==
    /\ Queue!Next \/ UNCHANGED queueVars
    /\ WatchStep \/ UNCHANGED watchVars
    /\ GateStep \/ UNCHANGED gateVars
    /\ AccountStep \/ UNCHANGED accountVars
    /\ RegistryStep \/ UNCHANGED registryVars
    /\ TelemetryStep \/ UNCHANGED telemetryVars
    /\ CardStep \/ UNCHANGED cardVars
    /\ ApprovalStep \/ UNCHANGED approvalVars

LEMMA ServicesStepTaken ==
  ASSUME [ServicesNext]_servicesVars, Owner \in Users
  PROVE  ServicesStep
<1>1. CASE UNCHANGED servicesVars
  BY <1>1 DEF servicesVars, ServicesStep
<1>2. CASE ServicesNext
  <2>1. Acting /\ Resting
    BY <1>2 DEF ServicesNext
  <2>2. Queue!Next \/ UNCHANGED queueVars
    BY <2>1 DEF Acting, Resting
  <2>3. WatchStep \/ UNCHANGED watchVars
    BY <2>1 DEF Acting, Resting
  <2>4. GateStep \/ UNCHANGED gateVars
    BY <2>1 DEF Acting, Resting
  <2>5. AccountStep \/ UNCHANGED accountVars
    BY <2>1 DEF Acting, Resting
  <2>6. RegistryStep \/ UNCHANGED registryVars
    BY <2>1 DEF Acting, Resting
  <2>7. TelemetryStep \/ UNCHANGED telemetryVars
    BY <2>1 DEF Acting, Resting
  <2>8. CardStep \/ UNCHANGED cardVars
    BY <2>1 DEF Acting, Resting
  <2>9. ApprovalStep \/ UNCHANGED approvalVars
    BY <2>1 DEF Acting, Resting
  <2> QED  BY <2>2, <2>3, <2>4, <2>5, <2>6, <2>7, <2>8, <2>9 DEF ServicesStep
<1> QED  BY <1>1, <1>2

\* Both ways the accounts begin, somebody administers them.
LEMMA AccountsBegin == ServicesInit => AccountInv
<1> SUFFICES ASSUME ServicesInit PROVE AccountInv
  OBVIOUS
<1>1. FirstAdmin \in Users
  BY ServicesAssumption
<1> DEFINE admin == [access |-> ActiveAdmin, failures |-> 0, lock |-> "open"]
           user == [access |-> [role |-> "business", status |-> "active"], failures |-> 0, lock |-> "open"]
<1>2. {admin, user, NoAccount} \subseteq AccountRows
  BY DEF AccountRows, ActiveAdmin, Access, Roles, NoAccount
<1>3. /\ admin.access = ActiveAdmin /\ admin.failures = 0 /\ user.failures = 0 /\ NoAccount.failures = 0
      /\ {admin.lock, user.lock, NoAccount.lock} \subseteq {"open", "absent"}
  BY DEF NoAccount
<1>4. CASE AccountsInit(FirstAdmin)
  <2>1. account = [u \in Users |-> IF u = FirstAdmin THEN admin ELSE NoAccount]
        /\ trail = [u \in Users |-> <<>>] /\ caller = [c \in Callers |-> IdleCaller]
    BY <1>4 DEF AccountsInit
  <2> HIDE DEF admin, user
  <2> QED  BY <1>1, <1>2, <1>3, <2>1, AccountsInitInv
<1>5. CASE OwnerAtWork
  <2>1. account = [u \in Users |-> IF u = FirstAdmin THEN admin ELSE user]
        /\ trail = [u \in Users |-> <<>>] /\ caller = [c \in Callers |-> IdleCaller]
    BY <1>5 DEF OwnerAtWork
  <2> HIDE DEF admin, user
  <2> QED  BY <1>1, <1>2, <1>3, <2>1, AccountsInitInv
<1> QED  BY <1>4, <1>5 DEF ServicesInit

ServicesInv ==
    /\ QueueInv /\ WatchInv /\ GateInv /\ AccountInv
    /\ RegistryInv /\ TelemetryInv /\ HistoryInv /\ CardsInv /\ ApprovalInv

\* Every service keeps its invariant.
THEOREM ServicesInvariance == ServicesSpec => []ServicesInv
<1>1. ServicesInit => ServicesInv
  BY AccountsBegin, QueueInitInv, TelemetryInitInv, HistoryInit, GateInitInv, RegistryInitInv, WatchInitInv, ApprovalsInitInv, CardsInitInv
     DEF ServicesInit, ServicesInv
<1>2. ServicesInv /\ [ServicesNext]_servicesVars => ServicesInv'
  <2> SUFFICES ASSUME ServicesInv, [ServicesNext]_servicesVars PROVE ServicesInv'
    OBVIOUS
  <2>1. ServicesStep
    BY ServicesStepTaken, ApprovalAssumption
  <2> QED  BY <2>1, QueueStepInv, TelemetryStepInv, HistoryStep, GateStepInv, RegistryStepInv, WatchStepInv, AccountStepInv,
              ApprovalStepInv, CardsStep
           DEF ServicesInv, ServicesStep
<1> QED  BY <1>1, <1>2, PTL DEF ServicesSpec

\* No queue of the agent grows beyond its limits, of running and of unfinished runs, of all,
\* of an owner and of a conversation (Claim, Create, Resume).
THEOREM AgentQueueIsBounded == ServicesSpec => []AgentQueueBounded
<1>1. ServicesInv => AgentQueueBounded
  BY QueueInvSound DEF ServicesInv
<1> QED  BY <1>1, ServicesInvariance, PTL

\* The newest measurement is what a node shows, an online node was measured a short time ago,
\* and alerts are those of the whole history, of each second the last sample, whatever the
\* network does to the posts (Ingest, Validate, Status, History, Alerts, RunRetention).
THEOREM MeasurementsAreSound == ServicesSpec => []TelemetrySound
<1>1. ServicesInv => TelemetrySound
  BY TelemetryInvSound, HistorySound DEF ServicesInv, TelemetrySound
<1> QED  BY <1>1, ServicesInvariance, PTL

\* The gate counts every call that is under way, lets a probe be alone, waits until its
\* cooldown is over, and calls nothing without an answer safe to repeat that the provider
\* began (admit, done, stepWithOptions).
THEOREM GateIsSound == ServicesSpec => GateSound
<1>1. ServicesInv => PlacesCounted /\ ProbesAlone /\ OutcomesTold
  BY GateInvSound DEF ServicesInv
<1>2. ServicesInv /\ [ServicesNext]_servicesVars
        => [gate.cooling /\ gate.halfOpen /\ call' # call => gate'.cooling /\ gate'.halfOpen]_gateVars
  BY ServicesStepTaken, ApprovalAssumption, GateStepSound DEF ServicesInv, ServicesStep
<1> QED  BY <1>1, <1>2, ServicesInvariance, PTL DEF ServicesSpec, GateSound, CooldownKept

\* What is reported late, twice or by somebody who was replaced changes neither a watch
\* (SaveWatch) nor a worker (Report).
THEOREM ReportsAreFenced == ServicesSpec => ReportsFenced
<1>1. ServicesInv => WatchesInOrder
  BY WatchInvSound DEF ServicesInv
<1>2. ServicesInv /\ [ServicesNext]_servicesVars
        => [\A w \in Watches :
              /\ watch[w].status \in WatchEnded => watch'[w] = watch[w]
              /\ watch[w].seen # "nothing" => watch'[w].seen # "nothing"]_watchVars
  BY ServicesStepTaken, ApprovalAssumption, WatchStepSound DEF ServicesInv, ServicesStep, RowKept
<1>3. ServicesInv /\ [ServicesNext]_servicesVars
        => [\A w \in Watches : watch[w].status = "active" /\ watch'[w].status = "waiting_auth"
                => <<w, watch[w].grant>> \notin grants]_watchVars
  BY ServicesStepTaken, ApprovalAssumption, WatchStepSound DEF ServicesInv, ServicesStep, RowKept
<1>4. ServicesInv /\ [ServicesNext]_servicesVars
        => [\A w \in Workers : ReportHonest(instance[w], instance'[w])]_registryVars
  BY ServicesStepTaken, ApprovalAssumption, RegistryStepSound DEF ServicesInv, ServicesStep
<1> QED  BY <1>1, <1>2, <1>3, <1>4, ServicesInvariance, PTL
         DEF ServicesSpec, ReportsFenced, WatchesFenced, EndedWatchesKept, CurrentGrantDecides, WorkerReportsFenced

\* However administrators change each other's access, one remains, the events explain every
\* account, and an account is locked exactly when its failed logins have reached the limit
\* (UpdateUser, RecordFailedLogin).
THEOREM AccountsAreSound == ServicesSpec => []AccountsSound
<1>1. ServicesInv => AccountsSound
  BY AccountInvSound DEF ServicesInv
<1> QED  BY <1>1, ServicesInvariance, PTL

\* What the platform admits for the agent was confirmed as it is, in a session that is still
\* good, and a completed plan can be approved and stays what the user saw (invoke, Verify,
\* prepareTrainingRun).
THEOREM ApprovalsAreSound == ServicesSpec => ApprovalsSound
<1>1. ServicesInv => CompletedPlansStand
  BY ApprovalInvSound DEF ServicesInv
<1>2. ServicesInv /\ [ServicesNext]_servicesVars
        => [\A x \in admitted' \ admitted :
              x \in agreed /\ session[x.session] = Owner /\ Served(x.session, "agent")]_approvalVars
  BY ServicesStepTaken, ApprovalAssumption, ApprovalStepSound DEF ServicesInv, ServicesStep
<1> QED  BY <1>1, <1>2, ServicesInvariance, PTL DEF ServicesSpec, ApprovalsSound, AdmittedAsConfirmed

\* A draft of a dataset card fits its card, is paid once and told as it is, and one that was
\* given up does not come back (Generate, SaveCard).
THEOREM CardsAreSound == ServicesSpec => CardsSound
<1>1. ServicesInv => DraftsFit /\ DraftsPaidOnce /\ CallersToldTruth
  BY CardsInvSound DEF ServicesInv
<1>2. ServicesInv /\ [ServicesNext]_servicesVars
        => [\A d \in Drafts : draft[d].status = "failed" \/ draft[d].expired => draft'[d].status # "succeeded"]_cardVars
  BY ServicesStepTaken, ApprovalAssumption, CardsStep, CardsStepSound DEF ServicesInv, ServicesStep
<1> QED  BY <1>1, <1>2, ServicesInvariance, PTL DEF ServicesSpec, CardsSound, GivenUpDraftsStay

-----------------------------------------------------------------------------
(***************************************************************************)
(* Operations: only one request of an operation ever executes it, the one  *)
(* that registered it, and it does so only while nothing definite is stored. *)
(* Whatever is stored or about to be stored is then the truth.             *)
(***************************************************************************)
Executing(q, o) == request[q].op = o /\ request[q].at = "execute"

\* An operation is executed by one request, which comes before any effect or
\* definite response of it.
OneExecutes ==
    \A o \in Operations, q \in Requests :
        Executing(q, o) =>
            /\ record[o] = "running" /\ effects[o] = 0
            /\ \A p \in Requests : Executing(p, o) => p = q

\* Nothing is executed that is not registered, and a trace is left by an effect.
Registered ==
    \A o \in Operations :
        /\ record[o] = "none" => effects[o] = 0
        /\ effects[o] \in {0, 1}
        /\ o \in trace => effects[o] = 1
        /\ \A q \in Requests : (request[q].at # "idle" /\ request[q].op = o) => record[o] # "none"

\* What a request is about to store is true, and nobody executes any more.
StoresTruth ==
    \A q \in Requests :
        LET o == request[q].op IN
        /\ request[q].status = "succeeded" => effects[o] = 1
        /\ request[q].status = "rejected" => effects[o] = 0
        /\ request[q].status # "none" => \A p \in Requests : ~Executing(p, o)

\* What is stored is true.
RecordsTruth ==
    \A o \in Operations :
        /\ record[o] = "succeeded" => effects[o] = 1
        /\ record[o] = "rejected" => effects[o] = 0
        /\ record[o] \in Definite => \A q \in Requests : ~Executing(q, o)

\* What was answered is stored.
AnswersStored == \A o \in Operations, a \in Definite : <<o, a>> \in answers => record[o] = a

IInv == TypeOK /\ OneExecutes /\ Registered /\ StoresTruth /\ RecordsTruth /\ AnswersStored

-----------------------------------------------------------------------------
USE DEF Request, Become, Idle, RequestStates, Record, Definite

\* An answer adds at most itself.
LEMMA AnswerAdds ==
  ASSUME NEW q, NEW o, NEW answer, Answer(q, o, answer),
         NEW x, NEW a, <<x, a>> \in answers'
  PROVE  <<x, a>> \in answers \/ (x = o /\ a = answer)
  BY DEF Answer

LEMMA InitEstablishes == Init => IInv
  BY DEF Init, IInv, TypeOK, OneExecutes, Executing, Registered, StoresTruth, RecordsTruth, AnswersStored

\* Registering an operation, or asking for one that is registered.
LEMMA InvokePreserves ==
  ASSUME IInv, NEW q \in Requests, NEW o \in Operations, Invoke(q, o)
  PROVE  IInv'
<1>1. TypeOK'
  BY DEF IInv, TypeOK, Invoke, Answer, Fresh
<1>2. OneExecutes'
  BY DEF IInv, TypeOK, Invoke, Answer, Fresh, OneExecutes, Executing, Registered
<1>3. Registered'
  BY DEF IInv, TypeOK, Invoke, Answer, Fresh, Registered
<1>4. StoresTruth'
  BY DEF IInv, TypeOK, Invoke, Answer, Fresh, StoresTruth, Executing, Registered
<1>5. RecordsTruth'
  BY DEF IInv, TypeOK, Invoke, Answer, Fresh, RecordsTruth, Executing
<1>6. AnswersStored'
  <2> SUFFICES ASSUME NEW x \in Operations, NEW a \in Definite, <<x, a>> \in answers'
               PROVE  record'[x] = a
    BY DEF AnswersStored
  <2>1. CASE <<x, a>> \in answers
    BY <2>1 DEF IInv, TypeOK, AnswersStored, Invoke, Fresh
  <2>2. CASE <<x, a>> \notin answers
    <3>1. x = o /\ a = record[o] /\ UNCHANGED record
      BY <2>2, AnswerAdds DEF Invoke
    <3> QED  BY <3>1 DEF Invoke, Fresh
  <2> QED  BY <2>1, <2>2
<1> QED  BY <1>1, <1>2, <1>3, <1>4, <1>5, <1>6 DEF IInv

LEMMA InquirePreserves ==
  ASSUME IInv, NEW q \in Requests, NEW o \in Operations, Inquire(q, o)
  PROVE  IInv'
<1>1. TypeOK'
  BY DEF IInv, TypeOK, Inquire, Answer
<1>2. OneExecutes'
  BY DEF IInv, TypeOK, Inquire, Answer, OneExecutes, Executing
<1>3. Registered'
  BY DEF IInv, TypeOK, Inquire, Answer, Registered
<1>4. StoresTruth'
  BY DEF IInv, TypeOK, Inquire, Answer, StoresTruth, Executing
<1>5. RecordsTruth'
  BY DEF IInv, TypeOK, Inquire, Answer, RecordsTruth, Executing
<1>6. AnswersStored'
  <2> SUFFICES ASSUME NEW x \in Operations, NEW a \in Definite, <<x, a>> \in answers'
               PROVE  record'[x] = a
    BY DEF AnswersStored
  <2>1. CASE <<x, a>> \in answers
    BY <2>1 DEF IInv, TypeOK, AnswersStored, Inquire
  <2>2. CASE <<x, a>> \notin answers
    <3>1. x = o /\ a = record[o] /\ UNCHANGED record
      BY <2>2, AnswerAdds DEF Inquire
    <3> QED  BY <3>1 DEF Inquire
  <2> QED  BY <2>1, <2>2
<1> QED  BY <1>1, <1>2, <1>3, <1>4, <1>5, <1>6 DEF IInv

\* The business transaction: the only request that executes the operation.
LEMMA ExecutePreserves ==
  ASSUME IInv, NEW q \in Requests, Execute(q)
  PROVE  IInv'
<1> DEFINE o == request[q].op
<1>0. o \in Operations /\ Executing(q, o) /\ record[o] = "running" /\ effects[o] = 0
  BY DEF IInv, TypeOK, Execute, OneExecutes, Executing
<1>1. TypeOK'
  BY <1>0 DEF IInv, TypeOK, Execute
<1>2. OneExecutes'
  BY <1>0 DEF IInv, TypeOK, Execute, OneExecutes, Executing
<1>3. Registered'
  BY <1>0 DEF IInv, TypeOK, Execute, Registered
<1>4. StoresTruth'
  BY <1>0 DEF IInv, TypeOK, Execute, StoresTruth, OneExecutes, Executing
<1>5. RecordsTruth'
  BY <1>0 DEF IInv, TypeOK, Execute, RecordsTruth, Executing
<1>6. AnswersStored'
  BY DEF IInv, Execute, AnswersStored
<1> QED  BY <1>1, <1>2, <1>3, <1>4, <1>5, <1>6 DEF IInv

\* A response is stored unless a definite one is.
LEMMA FinishPreserves ==
  ASSUME IInv, NEW q \in Requests, Finish(q)
  PROVE  IInv'
<1> DEFINE o == request[q].op
<1>0. o \in Operations /\ request[q].status \in {"succeeded", "rejected", "failed"}
  BY DEF IInv, TypeOK, Finish
<1>a. \A p \in Requests : ~Executing(p, o)
  BY <1>0 DEF IInv, StoresTruth
<1>1. TypeOK'
  BY <1>0 DEF IInv, TypeOK, Finish, Stored, Answer
<1>2. OneExecutes'
  BY <1>0, <1>a DEF IInv, TypeOK, Finish, Stored, Answer, OneExecutes, Executing
<1>3. Registered'
  BY <1>0 DEF IInv, TypeOK, Finish, Stored, Answer, Registered
<1>4. StoresTruth'
  BY <1>0 DEF IInv, TypeOK, Finish, Stored, Answer, StoresTruth, Executing
<1>5. RecordsTruth'
  BY <1>0, <1>a DEF IInv, TypeOK, Finish, Stored, Answer, RecordsTruth, StoresTruth, Executing
<1>6. AnswersStored'
  <2> SUFFICES ASSUME NEW x \in Operations, NEW a \in Definite, <<x, a>> \in answers'
               PROVE  record'[x] = a
    BY DEF AnswersStored
  <2>1. CASE <<x, a>> \in answers
    BY <2>1, <1>0 DEF IInv, TypeOK, AnswersStored, Finish, Stored, Storable
  <2>2. CASE <<x, a>> \notin answers
    <3>1. x = o /\ a = request[q].status /\ Storable(o) /\ record' = [record EXCEPT ![o] = a]
      BY <2>2, <1>0, AnswerAdds DEF Finish, Stored
    <3> QED  BY <3>1, <1>0 DEF IInv, TypeOK, Finish, Stored, Storable
  <2> QED  BY <2>1, <2>2
<1> QED  BY <1>1, <1>2, <1>3, <1>4, <1>5, <1>6 DEF IInv

\* The trace proves the effect.
LEMMA RecoverPreserves ==
  ASSUME IInv, NEW q \in Requests, Recover(q)
  PROVE  IInv'
<1> DEFINE o == request[q].op
<1>0. o \in Operations
  BY DEF IInv, TypeOK, Recover, Answer
<1>1. TypeOK'
  BY <1>0 DEF IInv, TypeOK, Recover, Answer, RecoveredStatus
<1>2. OneExecutes'
  BY <1>0 DEF IInv, TypeOK, Recover, Answer, OneExecutes, Executing
<1>3. Registered'
  BY <1>0 DEF IInv, TypeOK, Recover, Answer, Registered
<1>4. StoresTruth'
  BY <1>0 DEF IInv, TypeOK, Recover, Answer, RecoveredStatus, StoresTruth, OneExecutes, Executing, Registered
<1>5. RecordsTruth'
  BY <1>0 DEF IInv, TypeOK, Recover, Answer, RecordsTruth, Executing
<1>6. AnswersStored'
  <2> SUFFICES ASSUME NEW x \in Operations, NEW a \in Definite, <<x, a>> \in answers'
               PROVE  record'[x] = a
    BY DEF AnswersStored
  <2>1. <<x, a>> \in answers
    BY AnswerAdds DEF Recover
  <2> QED  BY <2>1 DEF IInv, AnswersStored, Recover
<1> QED  BY <1>1, <1>2, <1>3, <1>4, <1>5, <1>6 DEF IInv

LEMMA LostPreserves ==
  ASSUME IInv, NEW q \in Requests, Lost(q)
  PROVE  IInv'
  BY DEF IInv, TypeOK, Lost, OneExecutes, Registered, StoresTruth, RecordsTruth, AnswersStored, Executing

LEMMA ForgetPreserves ==
  ASSUME IInv, NEW o \in Operations, Forget(o)
  PROVE  IInv'
  BY DEF IInv, TypeOK, Forget, OneExecutes, Registered, StoresTruth, RecordsTruth, AnswersStored, Executing

LEMMA StepPreserves == IInv /\ [Next]_vars => IInv'
<1> SUFFICES ASSUME IInv, [Next]_vars PROVE IInv'
  OBVIOUS
<1>1. ASSUME NEW q \in Requests, NEW o \in Operations, Invoke(q, o) \/ Inquire(q, o) PROVE IInv'
  BY <1>1, InvokePreserves, InquirePreserves
<1>2. ASSUME NEW q \in Requests, Execute(q) \/ Finish(q) \/ Recover(q) \/ Lost(q) PROVE IInv'
  BY <1>2, ExecutePreserves, FinishPreserves, RecoverPreserves, LostPreserves
<1>3. ASSUME NEW o \in Operations, Forget(o) PROVE IInv'
  BY <1>3, ForgetPreserves
<1>4. CASE UNCHANGED vars
  BY <1>4 DEF IInv, TypeOK, OneExecutes, Registered, StoresTruth, RecordsTruth, AnswersStored,
              Executing, vars
<1> QED  BY <1>1, <1>2, <1>3, <1>4 DEF Next

\* The inductive invariant holds in every reachable state.
THEOREM OperationsInvariance == Spec => []IInv
  BY InitEstablishes, StepPreserves, PTL DEF Spec

\* All variables hold values of their types.
THEOREM OperationsTypeCorrect == Spec => []TypeOK
<1>1. IInv => TypeOK
  BY DEF IInv
<1> QED  BY <1>1, OperationsInvariance, PTL

\* No operation is executed twice, for any number of overlapping requests and
\* repetitions (Begin).
THEOREM ExecutedAtMostOnce == Spec => []ExecutedOnce
<1>1. IInv => ExecutedOnce
  BY DEF IInv, Registered, ExecutedOnce
<1> QED  BY <1>1, OperationsInvariance, PTL

\* What callers were told agrees, and is what happened (invoke, operation).
THEOREM CallersToldTheTruth == Spec => []AnswersTrue
<1>1. IInv => AnswersTrue
  BY DEF IInv, AnswersStored, RecordsTruth, Executing, AnswersTrue
<1> QED  BY <1>1, OperationsInvariance, PTL

\* Both together: writes are executed at most once, and reported as they went.
THEOREM OperationsAreSound == Spec => []OperationsSound
<1>1. AnswersTrue /\ ExecutedOnce => OperationsSound
  BY DEF OperationsSound
<1> QED  BY <1>1, ExecutedAtMostOnce, CallersToldTheTruth, PTL

-----------------------------------------------------------------------------
\* Refinement

LEMMA InitMaps == Init => Outcome!Init
  BY DEF Init, Outcome!Init

\* Committing the business transaction makes the operation happen; storing its
\* first definite response reports it; everything else is invisible.
LEMMA StepMaps == IInv /\ [Next]_vars => [Outcome!Next]_Outcome!vars
<1> SUFFICES ASSUME IInv, [Next]_vars PROVE [Outcome!Next]_Outcome!vars
  OBVIOUS
<1> USE DEF Outcome!vars
<1>1. ASSUME NEW q \in Requests, NEW o \in Operations, Invoke(q, o) PROVE UNCHANGED Outcome!vars
  BY <1>1 DEF IInv, TypeOK, Invoke, Answer, Fresh
<1>2. ASSUME NEW q \in Requests, Execute(q) PROVE [Outcome!Next]_Outcome!vars
  <2> DEFINE o == request[q].op
  <2>1. o \in Operations /\ record[o] = "running" /\ effects[o] = 0
    BY <1>2 DEF IInv, TypeOK, Execute, OneExecutes, Executing
  <2>2. CASE effects' = [effects EXCEPT ![o] = @ + 1]
    <3>1. {x \in Operations : effects'[x] > 0} = {x \in Operations : effects[x] > 0} \cup {o}
      BY <2>1, <2>2 DEF IInv, TypeOK
    <3>2. UNCHANGED record
      BY <1>2 DEF Execute
    <3>3. Outcome!Happen(o)
      BY <2>1, <3>1, <3>2 DEF Outcome!Happen
    <3>4. Outcome!Next
      BY <2>1, <3>3 DEF Outcome!Next, Outcome!Happen
    <3> QED  BY <3>4
  <2>3. CASE UNCHANGED effects
    BY <1>2, <2>3 DEF Execute
  <2> QED  BY <1>2, <2>2, <2>3 DEF Execute
<1>3. ASSUME NEW q \in Requests, Finish(q) PROVE [Outcome!Next]_Outcome!vars
  <2> DEFINE o == request[q].op
             status == request[q].status
  <2>1. o \in Operations /\ status \in {"succeeded", "rejected", "failed"} /\ UNCHANGED effects
    BY <1>3 DEF IInv, TypeOK, Finish
  <2>2. CASE ~Storable(o)
    BY <1>3, <2>1, <2>2 DEF Finish, Stored, Answer
  <2>3. CASE Storable(o)
    <3>1. record[o] \in {"running", "failed"} /\ record' = [record EXCEPT ![o] = status]
      BY <1>3, <2>3 DEF Finish, Stored, Answer, Storable
    <3>2. CASE status = "failed"
      BY <2>1, <3>1, <3>2 DEF IInv, TypeOK
    <3>3. CASE status \in Definite
      <4>1. status = IF effects[o] > 0 THEN "succeeded" ELSE "rejected"
        BY <2>1, <3>3 DEF IInv, StoresTruth
      <4>2. Outcome!Report(o, status)
        BY <2>1, <3>1, <3>3, <4>1 DEF IInv, TypeOK, Outcome!Report
      <4>3. Outcome!Next
        BY <2>1, <3>3, <4>2 DEF Outcome!Next, Outcome!Outcomes, Outcome!Report
      <4> QED  BY <4>3
    <3> QED  BY <2>1, <3>2, <3>3
  <2> QED  BY <2>2, <2>3
<1>4. ASSUME NEW q \in Requests, Recover(q) \/ Lost(q) PROVE UNCHANGED Outcome!vars
  BY <1>4 DEF Recover, Lost
<1>5. ASSUME NEW o \in Operations, Forget(o) \/ \E q \in Requests : Inquire(q, o)
      PROVE  UNCHANGED Outcome!vars
  BY <1>5 DEF Forget, Inquire
<1>6. CASE UNCHANGED vars
  BY <1>6 DEF vars
<1> QED  BY <1>1, <1>2, <1>3, <1>4, <1>5, <1>6 DEF Next

\* The operations implement what OperationOutcome promises the agent.
THEOREM OperationsImplementOutcome == Spec => OutcomeSpec
  BY InitMaps, StepMaps, OperationsInvariance, PTL DEF Spec, OutcomeSpec, Outcome!Spec
=============================================================================
