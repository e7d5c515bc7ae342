------------------------- MODULE DataPlatform_proofs -------------------------
(***************************************************************************)
(* The data side of the platform is correct for any number of tasks,       *)
(* workers, callers, batches, coordinators, jobs and consumers.            *)
(*                                                                         *)
(* First what a set of versions is worth by itself, and that saving one    *)
(* more keeps it; then the calls that save, the batches, the imports and   *)
(* the tasks, each with the part of the state it acts on; then the whole.  *)
(***************************************************************************)
EXTENDS DataPlatform, FiniteSetTheorems, WellFoundedInduction, TLAPS

-----------------------------------------------------------------------------
(* Facts about numbers and sets. *)

\* Naturals have a least one: descending intervals end.
LEMMA LeastNatural ==
    ASSUME NEW S \in SUBSET Nat, S # {}
    PROVE  \E m \in S : \A k \in S : m <= k
  <1> DEFINE R == {ss \in Nat \X Nat : ss[1] < ss[2]}
  <1>1. IsWellFoundedOn(R, Nat)
    BY NatLessThanWellFounded, Zenon DEF OpToRel
  <1> HIDE DEF R
  <1>2. PICK m \in S : \A k \in S : <<k, m>> \notin R
    BY <1>1, WFMin
  <1>3. \A k \in S : ~ (k < m)
    BY <1>2 DEF R
  <1> QED
    BY <1>2, <1>3

\* The minimum of a set of naturals is one of them.
LEMMA MinIsThere ==
    ASSUME NEW S \in SUBSET Nat, S # {}
    PROVE  Min(S) \in S
  <1>1. \E m \in S : \A k \in S : m <= k
    BY LeastNatural
  <1> QED
    BY <1>1 DEF Min

\* The maximum of an interval that starts at one is its end.
LEMMA MaxOfInterval ==
    ASSUME NEW n \in Nat \ {0}
    PROVE  Max(1..n) = n
  <1>1. n \in 1..n /\ \A k \in 1..n : n >= k
    OBVIOUS
  <1>2. Max(1..n) \in 1..n /\ \A k \in 1..n : Max(1..n) >= k
    BY <1>1 DEF Max
  <1> QED
    BY <1>2

-----------------------------------------------------------------------------
(* A set of versions. *)

\* No image is in two splits or bears two labels.
OneSample(content) == \A s, t \in content : s.photo = t.photo => s = t
Training(samples) == \A s \in samples : s.split = "train"

Row == [request : AllRequests, dataset : AllRequests, number : Nat \ {0}, parent : Nat, linear : BOOLEAN,
        order : AllOrders, content : SUBSET AllSamples, feedback : SUBSET FeedbackPhotos]

\* The versions of a dataset, and the one with a number of the first dataset, if there is one.
In(vs, d) == {v \in vs : v.dataset = d}
At(vs, n) == {v \in vs : v.dataset = FirstDataset /\ v.number = n}

RowsOK(vs) ==
    /\ vs \subseteq Row /\ IsFiniteSet(vs)
    /\ \E v \in vs : v.request = FirstRequest /\ v.dataset = FirstDataset
    /\ \A v \in vs : v.dataset \in {FirstDataset, v.request}

NumbersOK(vs) ==
    /\ \A d \in {v.dataset : v \in vs} : {v.number : v \in In(vs, d)} = 1..Cardinality(In(vs, d))
    /\ \A v, w \in vs : v.dataset = w.dataset /\ v.number = w.number => v = w
    /\ \A v \in vs : v.parent < v.number
    /\ \A v \in vs : v.linear /\ v.parent # 0 => v.parent = v.number - 1

RequestsOK(vs) ==
    /\ \A v, w \in vs : v.request = w.request => v = w
    /\ \A v, w \in vs : v # w /\ v.dataset = w.dataset => v.feedback \cap w.feedback = {}

ContentsOK(vs) ==
    /\ \A v \in vs : OneSample(v.content)
    /\ \A v, p \in vs : p.dataset = v.dataset /\ p.number = v.parent => p.content \subseteq v.content
    /\ \A v \in vs : v.dataset = FirstDataset => FirstContent \subseteq v.content

\* A version is what its order asks for.
OrdersOK(vs) ==
    \A v \in vs : v.request # FirstRequest =>
        /\ v.order.request = v.request
        /\ v.order.frozen \/ v.order.base = 0 => v.content = v.order.samples
        /\ ~v.order.frozen /\ v.order.base # 0 => Training(v.order.samples)

Versions(vs) == RowsOK(vs) /\ NumbersOK(vs) /\ RequestsOK(vs) /\ ContentsOK(vs) /\ OrdersOK(vs)

\* The archive of a version that may be built on base.
KeepsBase(vs, base, content) ==
    base # 0 => /\ At(vs, base) # {}
                /\ \A p \in At(vs, base) : p.content \subseteq content

\* What is known of an order from its beginning.
OrderSound(vs, order) ==
    /\ order \in AllOrders
    /\ order.frozen \/ order.base = 0 => OneSample(order.samples)
    /\ order.frozen => KeepsBase(vs, order.base, order.samples)
    /\ ~order.frozen /\ order.base # 0 => Training(order.samples)

\* And of the archive that was built for it.
ArchiveSound(vs, order, content) ==
    /\ content \in SUBSET AllSamples /\ OneSample(content)
    /\ KeepsBase(vs, order.base, content)
    /\ order.frozen \/ order.base = 0 => content = order.samples

\* Versions are added and the numbers of the first dataset stay with their versions.
Grows(vs, ws) ==
    /\ vs \subseteq ws
    /\ \A n \in Nat : At(vs, n) # {} => At(ws, n) = At(vs, n)

\* What an order may rely on goes on to hold.
LEMMA GrowsKeeps ==
    ASSUME NEW vs, NEW ws, Grows(vs, ws), NEW order \in AllOrders, NEW content
    PROVE  /\ KeepsBase(vs, order.base, content) => KeepsBase(ws, order.base, content)
           /\ OrderSound(vs, order) => OrderSound(ws, order)
           /\ ArchiveSound(vs, order, content) => ArchiveSound(ws, order, content)
  <1>1. order.base \in Nat
    BY DEF AllOrders
  <1>2. KeepsBase(vs, order.base, content) => KeepsBase(ws, order.base, content)
    BY <1>1 DEF Grows, KeepsBase
  <1>3. KeepsBase(vs, order.base, order.samples) => KeepsBase(ws, order.base, order.samples)
    BY <1>1 DEF Grows, KeepsBase
  <1> QED
    BY <1>2, <1>3 DEF OrderSound, ArchiveSound

\* The first dataset has versions, numbered up to its latest.
LEMMA FirstDatasetNumbers ==
    ASSUME NEW vs, Versions(vs)
    PROVE  /\ In(vs, FirstDataset) # {} /\ IsFiniteSet(In(vs, FirstDataset))
           /\ Cardinality(In(vs, FirstDataset)) \in Nat \ {0}
           /\ {v.number : v \in In(vs, FirstDataset)} = 1..Cardinality(In(vs, FirstDataset))
           /\ Max({v.number : v \in In(vs, FirstDataset)}) = Cardinality(In(vs, FirstDataset))
  <1> DEFINE F == In(vs, FirstDataset)
  <1>1. F # {} /\ FirstDataset \in {v.dataset : v \in vs}
    BY DEF Versions, RowsOK, In
  <1>2. IsFiniteSet(F)
    <2>1. F \subseteq vs /\ IsFiniteSet(vs)
      BY DEF In, Versions, RowsOK
    <2> QED
      BY <2>1, FS_Subset
  <1>3. Cardinality(F) \in Nat \ {0}
    BY <1>1, <1>2, FS_CardinalityType, FS_EmptySet
  <1>4. {v.number : v \in F} = 1..Cardinality(F)
    BY <1>1 DEF Versions, NumbersOK
  <1>5. Max({v.number : v \in F}) = Cardinality(F)
    BY <1>3, <1>4, MaxOfInterval
  <1> QED
    BY <1>1, <1>2, <1>3, <1>4, <1>5

\* What Save writes, and what it asks for, over any set of versions.
Added(vs, order, content) ==
    [request |-> order.request, order |-> order,
     dataset |-> IF order.base = 0 THEN order.request ELSE FirstDataset,
     number |-> IF order.base = 0 THEN 1
                ELSE IF order.frozen THEN Max({v.number : v \in In(vs, FirstDataset)}) + 1 ELSE order.base + 1,
     parent |-> order.base, linear |-> ~order.frozen, content |-> content, feedback |-> order.feedback]

Addable(vs, order) ==
    /\ \A v \in vs : v.request # order.request
    /\ order.base # 0 =>
        /\ order.frozen \/ order.base = Max({v.number : v \in In(vs, FirstDataset)})
        /\ \A v \in In(vs, FirstDataset) : order.feedback \cap v.feedback = {}

\* Saving one more version keeps the versions what they are worth (publishPlanned, Save).
LEMMA AddingKeeps ==
    ASSUME NEW vs, Versions(vs), NEW order \in AllOrders, NEW content,
           OrderSound(vs, order), ArchiveSound(vs, order, content), Addable(vs, order)
    PROVE  Versions(vs \cup {Added(vs, order, content)}) /\ Grows(vs, vs \cup {Added(vs, order, content)})
  <1> DEFINE F == In(vs, FirstDataset)
             L == Cardinality(F)
  <1> PICK n : n = Added(vs, order, content)
    OBVIOUS
  <1> DEFINE ws == vs \cup {n}
  <1>1. /\ L \in Nat \ {0} /\ F # {} /\ IsFiniteSet(F)
        /\ {v.number : v \in F} = 1..L /\ Max({v.number : v \in F}) = L
    BY FirstDatasetNumbers
  <1> HIDE DEF F, L
  <1>2. /\ order.request \in AllRequests /\ order.base \in Nat /\ order.frozen \in BOOLEAN
        /\ order.samples \in SUBSET AllSamples /\ order.feedback \in SUBSET FeedbackPhotos
        /\ content \in SUBSET AllSamples
    BY DEF AllOrders, ArchiveSound
  <1>3. /\ n.request = order.request /\ n.order = order /\ n.parent = order.base /\ n.linear = ~order.frozen
        /\ n.content = content /\ n.feedback = order.feedback
        /\ order.base = 0 => n.dataset = order.request /\ n.number = 1
        /\ order.base # 0 => n.dataset = FirstDataset
        /\ order.base # 0 /\ order.frozen => n.number = L + 1
        /\ order.base # 0 /\ ~order.frozen => n.number = order.base + 1
    BY <1>1 DEF Added, F
  <1>4. order.request # FirstRequest
    BY DEF Addable, Versions, RowsOK
  <1>5. \A v \in vs : v \in Row
    BY DEF Versions, RowsOK
  <1>6. order.base # 0 => \E p \in vs : p.dataset = FirstDataset /\ p.number = order.base
    BY DEF ArchiveSound, KeepsBase, At
  <1>7. order.base # 0 => n.number = L + 1 /\ order.base \in 1..L
    <2>1. order.base # 0 => order.base \in {v.number : v \in F}
      BY <1>6 DEF F, In
    <2> QED
      BY <1>1, <1>3, <2>1 DEF Addable, F
  <1>8. n \in Row
    <2>1. n.number \in Nat \ {0}
      BY <1>1, <1>3, <1>7
    <2>2. n.dataset \in AllRequests
      BY <1>2, <1>3 DEF AllRequests, FirstDataset
    <2>3. n = [request |-> n.request, order |-> n.order, dataset |-> n.dataset, number |-> n.number,
               parent |-> n.parent, linear |-> n.linear, content |-> n.content, feedback |-> n.feedback]
      BY DEF Added
    <2> HIDE DEF Row
    <2> QED
      BY <1>2, <1>3, <2>1, <2>2, <2>3 DEF Row
  \* A new dataset had no version; in the first dataset all numbers are below the new one.
  <1>9. order.base = 0 => In(vs, order.request) = {} /\ n.dataset # FirstDataset
    BY <1>3, <1>4 DEF In, Addable, Versions, RowsOK, FirstDataset
  <1>10. \A v \in vs : v.dataset = n.dataset => v.number < n.number /\ order.base # 0
    <2> SUFFICES ASSUME NEW v \in vs, v.dataset = n.dataset
                 PROVE  v.number < n.number /\ order.base # 0
      OBVIOUS
    <2>1. order.base # 0
      BY <1>3, <1>9 DEF In
    <2>2. v.number \in 1..L
      BY <1>1, <1>3, <2>1 DEF F, In
    <2> QED
      BY <1>1, <1>7, <2>1, <2>2
  <1>11. RowsOK(ws)
    <2>1. IsFiniteSet(ws)
      BY FS_AddElement DEF Versions, RowsOK
    <2>2. n.dataset \in {FirstDataset, n.request}
      BY <1>3
    <2> QED
      BY <1>8, <2>1, <2>2 DEF Versions, RowsOK
  <1>12. NumbersOK(ws)
    <2>1. \A d \in {v.dataset : v \in ws} : {v.number : v \in In(ws, d)} = 1..Cardinality(In(ws, d))
      <3> SUFFICES ASSUME NEW d \in {v.dataset : v \in ws}
                   PROVE  {v.number : v \in In(ws, d)} = 1..Cardinality(In(ws, d))
        OBVIOUS
      <3>1. CASE d # n.dataset
        <4>1. In(ws, d) = In(vs, d) /\ d \in {v.dataset : v \in vs}
          BY <3>1 DEF In
        <4> QED
          BY <4>1 DEF Versions, NumbersOK
      <3>2. CASE d = n.dataset /\ order.base = 0
        <4>1. In(ws, d) = {n}
          BY <1>3, <1>9, <3>2 DEF In
        <4>2. Cardinality({n}) = 1
          BY FS_Singleton, Zenon
        <4>3. {v.number : v \in {n}} = {1} /\ 1..1 = {1}
          BY <1>3, <3>2
        <4> QED
          BY <4>1, <4>2, <4>3
      <3>3. CASE d = n.dataset /\ order.base # 0
        <4>1. In(ws, d) = F \cup {n} /\ n \notin F
          <5>1. n \notin F
            BY <1>5, <1>8, <1>10, <3>3 DEF F, In, Row
          <5> QED
            BY <1>3, <3>3, <5>1 DEF F, In
        <4>2. Cardinality(F \cup {n}) = L + 1
          BY <1>1, <4>1, FS_AddElement DEF L
        <4>3. {v.number : v \in F \cup {n}} = 1..(L + 1)
          <5>1. {v.number : v \in F \cup {n}} = {v.number : v \in F} \cup {n.number}
            OBVIOUS
          <5>2. (1..L) \cup {L + 1} = 1..(L + 1)
            BY <1>1
          <5> QED
            BY <1>1, <1>7, <3>3, <5>1, <5>2
        <4> QED
          BY <4>1, <4>2, <4>3
      <3> QED
        BY <3>1, <3>2, <3>3
    <2>2. \A v, w \in ws : v.dataset = w.dataset /\ v.number = w.number => v = w
      <3>1. \A v \in vs : v.dataset = n.dataset => v.number # n.number
        BY <1>5, <1>8, <1>10 DEF Row
      <3>2. \A v, w \in vs : v.dataset = w.dataset /\ v.number = w.number => v = w
        BY DEF Versions, NumbersOK
      <3> QED
        BY <3>1, <3>2
    <2>3. n.parent < n.number
      BY <1>1, <1>3, <1>7
    <2>4. n.linear /\ n.parent # 0 => n.parent = n.number - 1
      <3> SUFFICES ASSUME n.linear, n.parent # 0 PROVE n.parent = n.number - 1
        OBVIOUS
      <3>1. ~order.frozen /\ order.base # 0 /\ n.parent = order.base
        BY <1>3, Zenon
      <3> QED
        BY <1>2, <1>3, <3>1
    <2>5. /\ \A v \in vs : v.parent < v.number
          /\ \A v \in vs : v.linear /\ v.parent # 0 => v.parent = v.number - 1
      BY DEF Versions, NumbersOK
    <2> QED
      BY <2>1, <2>2, <2>3, <2>4, <2>5 DEF NumbersOK
  <1>13. RequestsOK(ws)
    <2>1. \A v \in vs : v.request # n.request
      BY <1>3 DEF Addable
    <2>2. \A v \in vs : v.dataset = n.dataset => v.feedback \cap n.feedback = {}
      <3> SUFFICES ASSUME NEW v \in vs, v.dataset = n.dataset PROVE v.feedback \cap n.feedback = {}
        OBVIOUS
      <3>1. order.base # 0 /\ n.dataset = FirstDataset
        BY <1>3, <1>10
      <3>2. v \in In(vs, FirstDataset)
        BY <3>1 DEF In
      <3> QED
        BY <1>3, <3>1, <3>2 DEF Addable
    <2>3. /\ \A v, w \in vs : v.request = w.request => v = w
          /\ \A v, w \in vs : v # w /\ v.dataset = w.dataset => v.feedback \cap w.feedback = {}
      BY DEF Versions, RequestsOK
    <2> QED
      BY <2>1, <2>2, <2>3 DEF RequestsOK
  <1>14. ContentsOK(ws)
    <2>1. \A p \in vs : p.dataset = n.dataset /\ p.number = n.parent => p.content \subseteq n.content
      <3> SUFFICES ASSUME NEW p \in vs, p.dataset = n.dataset, p.number = n.parent
                   PROVE  p.content \subseteq n.content
        OBVIOUS
      <3>1. order.base # 0 /\ p \in At(vs, order.base)
        BY <1>3, <1>10 DEF At
      <3> QED
        BY <1>3, <3>1 DEF ArchiveSound, KeepsBase
    <2>2. \A v \in ws : ~ (n.dataset = v.dataset /\ n.number = v.parent)
      <3>1. \A v \in vs : v.parent < v.number
        BY DEF Versions, NumbersOK
      <3>2. n.parent < n.number
        BY <1>1, <1>3, <1>7
      <3> QED
        BY <1>5, <1>8, <1>10, <3>1, <3>2 DEF Row
    <2>3. n.dataset = FirstDataset => FirstContent \subseteq n.content
      <3> SUFFICES ASSUME n.dataset = FirstDataset PROVE FirstContent \subseteq n.content
        OBVIOUS
      <3>1. order.base # 0
        BY <1>9
      <3>2. PICK p \in vs : p.dataset = FirstDataset /\ p.number = order.base
        BY <1>6, <3>1
      <3>3. FirstContent \subseteq p.content
        BY <3>2 DEF Versions, ContentsOK
      <3> QED
        BY <1>3, <2>1, <3>2, <3>3
    <2>4. OneSample(n.content)
      BY <1>3 DEF ArchiveSound
    <2>5. ContentsOK(vs)
      BY DEF Versions
    <2> HIDE DEF OneSample
    <2> QED
      BY <2>1, <2>2, <2>3, <2>4, <2>5 DEF ContentsOK
  <1>15. OrdersOK(ws)
    <2>1. /\ n.order.request = n.request
          /\ n.order.frozen \/ n.order.base = 0 => n.content = n.order.samples
          /\ ~n.order.frozen /\ n.order.base # 0 => Training(n.order.samples)
      BY <1>3 DEF ArchiveSound, OrderSound
    <2> QED
      BY <2>1 DEF Versions, OrdersOK
  <1>16. Grows(vs, ws)
    <2> SUFFICES ASSUME NEW k \in Nat, At(vs, k) # {} PROVE At(ws, k) = At(vs, k)
      BY DEF Grows
    <2>1. n \notin At(ws, k)
      <3>1. PICK p \in vs : p.dataset = FirstDataset /\ p.number = k
        BY DEF At
      <3> QED
        BY <1>5, <1>8, <1>10, <3>1 DEF At, Row
    <2> QED
      BY <2>1 DEF At
  <1> QED
    BY <1>11, <1>12, <1>13, <1>14, <1>15, <1>16 DEF Versions

-----------------------------------------------------------------------------
(* The calls of publishPlanned. *)

\* A merge keeps the base and leaves each image with one label and one split (merge).
LEMMA MergeSound ==
    ASSUME NEW content \in SUBSET AllSamples, NEW additions \in SUBSET AllSamples,
           OneSample(content), Training(additions), Mergeable(content, additions)
    PROVE  /\ content \subseteq Merged(content, additions)
           /\ Merged(content, additions) \in SUBSET AllSamples
           /\ OneSample(Merged(content, additions))
  <1>1. \A a \in additions, b \in additions : a.photo = b.photo => a = b
    <2> SUFFICES ASSUME NEW a \in additions, NEW b \in additions, a.photo = b.photo PROVE a = b
      OBVIOUS
    <2>1. a.label = b.label
      BY DEF Mergeable, Clashes
    <2>2. a.split = b.split
      BY DEF Training
    <2> QED
      BY <2>1, <2>2 DEF AllSamples
  <1>2. \A a \in Fresh(content, additions) : a \in additions /\ \A s \in content : s.photo # a.photo
    BY DEF Fresh, Photographed
  <1> QED
    BY <1>1, <1>2 DEF Merged, OneSample

LEMMA FeedbackSamplesSound ==
    ASSUME VersionsAssumption, NEW photos \in SUBSET FeedbackPhotos
    PROVE  FeedbackSamples(photos) \in SUBSET AllSamples /\ Training(FeedbackSamples(photos))
  BY DEF VersionsAssumption, FeedbackSamples, Sample, AllSamples, Splits, Training

CallRow == [pc : {"idle", "begun", "gathered", "ok", "conflict", "refused", "failed"},
            order : AllOrders, content : SUBSET AllSamples]

CallsOK ==
    /\ call \in [Callers -> CallRow]
    /\ \A c \in Callers :
        /\ call[c].pc # "idle" => OrderSound(version, call[c].order)
        /\ call[c].pc = "gathered" => ArchiveSound(version, call[c].order, call[c].content)
    /\ AnswersHonest

VersionInv == Versions(version) /\ CallsOK

\* A step of one caller: versions are added, the other callers stay where they are.
CallMoves(c) == Grows(version, version') /\ \A d \in Callers : d # c => call'[d] = call[d]

\* What the other callers rely on survives the step of one.
LEMMA OthersKeep ==
    ASSUME VersionInv, NEW c \in Callers, CallMoves(c), Versions(version)', call' \in [Callers -> CallRow],
           call'[c].pc # "idle" => OrderSound(version', call'[c].order),
           call'[c].pc = "gathered" => ArchiveSound(version', call'[c].order, call'[c].content),
           call'[c].pc = "ok" => \E v \in version' : /\ v.request = call'[c].order.request
                                                     /\ Fingerprint(v.order) = Fingerprint(call'[c].order)
    PROVE  VersionInv'
  <1>1. \A d \in Callers : d # c =>
            /\ call'[d].pc # "idle" => OrderSound(version', call'[d].order)
            /\ call'[d].pc = "gathered" => ArchiveSound(version', call'[d].order, call'[d].content)
    <2> SUFFICES ASSUME NEW d \in Callers, d # c
                 PROVE  /\ call[d].pc # "idle" => OrderSound(version', call[d].order)
                        /\ call[d].pc = "gathered" => ArchiveSound(version', call[d].order, call[d].content)
      BY DEF CallMoves
    <2>1. call[d].order \in AllOrders
      BY DEF VersionInv, CallsOK, CallRow
    <2> QED
      BY <2>1, GrowsKeeps DEF CallMoves, VersionInv, CallsOK
  <1>2. \A d \in Callers : call'[d].pc = "ok" =>
            \E v \in version' : v.request = call'[d].order.request /\ Fingerprint(v.order) = Fingerprint(call'[d].order)
    <2> SUFFICES ASSUME NEW d \in Callers, d # c, call[d].pc = "ok"
                 PROVE  \E v \in version' : /\ v.request = call[d].order.request
                                            /\ Fingerprint(v.order) = Fingerprint(call[d].order)
      BY DEF CallMoves
    <2>1. version \subseteq version'
      BY DEF CallMoves, Grows
    <2> QED
      BY <2>1 DEF VersionInv, CallsOK, AnswersHonest
  <1> QED
    BY <1>1, <1>2 DEF VersionInv, CallsOK, AnswersHonest

LEMMA FoundIs ==
    ASSUME NEW order
    PROVE  /\ Found(order) \in {"absent", "ok", "conflict"}
           /\ Found(order) = "ok" => \E v \in version : /\ v.request = order.request
                                                        /\ Fingerprint(v.order) = Fingerprint(order)
  BY DEF Found, Published

LEMMA SameVersions ==
    ASSUME UNCHANGED version
    PROVE  Grows(version, version') /\ (Versions(version) => Versions(version)')
  BY DEF Grows, Versions

\* A call begins (FindPublication).
LEMMA BeginKeeps ==
    ASSUME VersionInv, NEW c \in Callers, NEW order, OrderSound(version, order), Begin(c, order)
    PROVE  /\ VersionInv' /\ CallMoves(c) /\ UNCHANGED version
           /\ call'[c].pc # "idle" /\ call'[c].order = order /\ call[c].pc = "idle"
  <1>1. PICK pc : pc = (IF Found(order) = "absent" THEN "begun" ELSE Found(order))
    OBVIOUS
  <1>2. call' = [call EXCEPT ![c] = [pc |-> pc, order |-> order, content |-> {}]] /\ version' = version
    BY <1>1 DEF Begin
  <1>3. pc \in {"begun", "ok", "conflict"} /\ (pc = "ok" => Found(order) = "ok")
    BY <1>1, FoundIs
  <1>4. call'[c] = [pc |-> pc, order |-> order, content |-> {}]
    BY <1>2 DEF VersionInv, CallsOK
  <1>5. call' \in [Callers -> CallRow]
    BY <1>2, <1>3 DEF VersionInv, CallsOK, CallRow, OrderSound
  <1>6. CallMoves(c)
    BY <1>2, SameVersions DEF CallMoves, VersionInv, CallsOK
  <1>7. VersionInv'
    BY <1>2, <1>3, <1>4, <1>5, <1>6, FoundIs, SameVersions, OthersKeep DEF VersionInv
  <1> QED
    BY <1>2, <1>3, <1>4, <1>6, <1>7 DEF Begin

\* A call is forgotten, by its caller or with it.
LEMMA ForgetKeeps ==
    ASSUME VersionInv, NEW c \in Callers, Forget(c), UNCHANGED version
    PROVE  VersionInv' /\ CallMoves(c) /\ call'[c].pc = "idle"
  <1>1. call'[c] = NoCall /\ call' = [call EXCEPT ![c] = NoCall]
    BY DEF Forget, VersionInv, CallsOK
  <1>2. NoCall \in CallRow /\ NoCall.pc = "idle"
    BY DEF NoCall, CallRow, NoOrder, Order, AllOrders, AllRequests, FirstRequest
  <1>3. call' \in [Callers -> CallRow]
    BY <1>1, <1>2 DEF VersionInv, CallsOK
  <1>4. CallMoves(c)
    BY <1>1, SameVersions DEF CallMoves, VersionInv, CallsOK
  <1> QED
    BY <1>1, <1>2, <1>3, <1>4, SameVersions, OthersKeep DEF VersionInv

\* What a call is answered does not change what it asked for.
LEMMA AnswerIs ==
    ASSUME VersionInv, NEW c \in Callers, NEW result \in Answers, Answer(c, result), call[c].pc # "idle"
    PROVE  /\ call' \in [Callers -> CallRow] /\ \A d \in Callers : d # c => call'[d] = call[d]
           /\ call'[c].pc = result /\ call'[c].order = call[c].order
  BY DEF VersionInv, CallsOK, CallRow, Answer, Answers

LEMMA AnswerKeeps ==
    ASSUME VersionInv, NEW c \in Callers, NEW result \in Answers, Answer(c, result), call[c].pc # "idle",
           UNCHANGED version, result = "ok" => Found(call[c].order) = "ok"
    PROVE  VersionInv' /\ CallMoves(c) /\ call'[c].pc # "idle" /\ call'[c].order = call[c].order
  <1>1. CallMoves(c)
    BY AnswerIs, SameVersions DEF CallMoves
  <1>2. OrderSound(version, call[c].order)
    BY DEF VersionInv, CallsOK
  <1>3. VersionInv'
    BY <1>1, <1>2, AnswerIs, SameVersions, FoundIs, OthersKeep DEF VersionInv, Answers
  <1> QED
    BY <1>1, <1>3, AnswerIs DEF Answers

\* The archive is built (Gather).
LEMMA GatheredKeeps ==
    ASSUME VersionInv, NEW c \in Callers, call[c].pc = "begun", UNCHANGED version,
           NEW content, ArchiveSound(version, call[c].order, content),
           call' = [call EXCEPT ![c].pc = "gathered", ![c].content = content]
    PROVE  VersionInv' /\ CallMoves(c) /\ call'[c].pc # "idle" /\ call'[c].order = call[c].order
  <1>1. /\ call'[c].pc = "gathered" /\ call'[c].order = call[c].order /\ call'[c].content = content
        /\ call' \in [Callers -> CallRow] /\ \A d \in Callers : d # c => call'[d] = call[d]
    BY DEF VersionInv, CallsOK, CallRow, ArchiveSound
  <1>2. CallMoves(c)
    BY <1>1, SameVersions DEF CallMoves
  <1>3. OrderSound(version, call[c].order)
    BY DEF VersionInv, CallsOK
  <1> QED
    BY <1>1, <1>2, <1>3, SameVersions, OthersKeep DEF VersionInv

LEMMA GatherKeeps ==
    ASSUME VersionsAssumption, VersionInv, NEW c \in Callers, Gather(c)
    PROVE  VersionInv' /\ CallMoves(c) /\ call'[c].pc # "idle" /\ call'[c].order = call[c].order
  <1> PICK order : order = call[c].order
    OBVIOUS
  <1> DEFINE base == Numbered(FirstDataset, order.base)
  <1>1. call[c].pc = "begun" /\ UNCHANGED version /\ OrderSound(version, order) /\ order \in AllOrders
    BY DEF Gather, VersionInv, CallsOK, OrderSound
  <1>2. base = At(version, order.base)
    BY DEF Numbered, At
  <1>3. CASE Answer(c, "refused")
    BY <1>1, <1>3, AnswerKeeps DEF Answers
  <1>4. CASE /\ order.frozen \/ order.base = 0
             /\ call' = [call EXCEPT ![c].pc = "gathered", ![c].content = order.samples]
    <2>1. ArchiveSound(version, order, order.samples)
      BY <1>1, <1>4 DEF OrderSound, ArchiveSound, AllOrders, KeepsBase
    <2> QED
      BY <1>1, <1>4, <2>1, GatheredKeeps
  <1>5. CASE /\ order.base # 0 /\ base # {} /\ ~order.frozen
             /\ Mergeable((CHOOSE v \in base : TRUE).content, Additions(order))
             /\ call' = [call EXCEPT ![c].pc = "gathered",
                             ![c].content = Merged((CHOOSE v \in base : TRUE).content, Additions(order))]
    <2>1. PICK v \in version : v = (CHOOSE x \in base : TRUE) /\ v \in At(version, order.base)
      BY <1>2, <1>5 DEF At
    <2>2. \A p \in At(version, order.base) : p = v
      BY <2>1 DEF VersionInv, Versions, NumbersOK, At
    <2>3. v.content \in SUBSET AllSamples /\ OneSample(v.content)
      BY <2>1 DEF VersionInv, Versions, RowsOK, ContentsOK, Row
    <2>4. Additions(order) \in SUBSET AllSamples /\ Training(Additions(order))
      <3>1. order.samples \in SUBSET AllSamples /\ Training(order.samples) /\ order.feedback \in SUBSET FeedbackPhotos
        BY <1>1, <1>5 DEF OrderSound, AllOrders
      <3>2. FeedbackSamples(order.feedback) \in SUBSET AllSamples /\ Training(FeedbackSamples(order.feedback))
        BY <3>1, FeedbackSamplesSound
      <3> QED
        BY <3>1, <3>2 DEF Additions, Training
    <2> PICK merged : merged = Merged(v.content, Additions(order))
      OBVIOUS
    <2>5. v.content \subseteq merged /\ merged \in SUBSET AllSamples /\ OneSample(merged)
      BY <1>5, <2>1, <2>3, <2>4, MergeSound
    <2>6. ArchiveSound(version, order, merged)
      BY <1>2, <1>5, <2>2, <2>5 DEF ArchiveSound, KeepsBase
    <2>7. call' = [call EXCEPT ![c].pc = "gathered", ![c].content = merged]
      BY <1>5, <2>1
    <2> QED
      BY <1>1, <2>6, <2>7, GatheredKeeps
  <1> QED
    BY <1>3, <1>4, <1>5 DEF Gather

\* The module's names for the versions of the first dataset.
LEMMA FirstDatasetNames ==
    /\ Latest(FirstDataset) = Max({v.number : v \in In(version, FirstDataset)})
    /\ Consumed(FirstDataset) = UNION {v.feedback : v \in In(version, FirstDataset)}
    /\ \A n : Numbered(FirstDataset, n) = At(version, n)
  <1>1. VersionsOf(FirstDataset) = In(version, FirstDataset)
    BY DEF VersionsOf, In
  <1> QED
    BY <1>1 DEF Latest, Consumed, Numbered, At

\* The transaction that saves a version (Save).
LEMMA SavingKeeps ==
    ASSUME VersionInv, NEW c \in Callers, call[c].pc = "gathered", MaySave(call[c].order),
           version' = version \cup {NewVersion(call[c].order, call[c].content)},
           NEW result \in {"ok", "failed"}, Answer(c, result)
    PROVE  VersionInv' /\ CallMoves(c) /\ call'[c].pc # "idle" /\ call'[c].order = call[c].order
  <1> PICK order : order = call[c].order
    OBVIOUS
  <1> PICK content : content = call[c].content
    OBVIOUS
  <1>1. OrderSound(version, order) /\ ArchiveSound(version, order, content) /\ order \in AllOrders
    BY DEF VersionInv, CallsOK, OrderSound
  <1>2. Addable(version, order)
    BY FirstDatasetNames DEF MaySave, Addable, Published
  <1> PICK n : n = Added(version, order, content)
    OBVIOUS
  <1>3. NewVersion(order, content) = n
    BY FirstDatasetNames DEF NewVersion, Added
  <1>4. version' = version \cup {n}
    BY <1>3
  <1>5. Versions(version') /\ Grows(version, version')
    BY <1>1, <1>2, <1>4, AddingKeeps DEF VersionInv
  <1>6. n \in version' /\ n.request = order.request /\ n.order = order
    BY <1>4 DEF Added
  <1>7. /\ call' \in [Callers -> CallRow] /\ \A d \in Callers : d # c => call'[d] = call[d]
        /\ call'[c].pc = result /\ call'[c].order = order
    BY AnswerIs DEF Answers
  <1>8. OrderSound(version', order)
    BY <1>1, <1>5, GrowsKeeps
  <1>9. CallMoves(c)
    BY <1>5, <1>7 DEF CallMoves
  <1>10. VersionInv'
    BY <1>5, <1>6, <1>7, <1>8, <1>9, OthersKeep
  <1> QED
    BY <1>7, <1>9, <1>10

\* One step of publishPlanned.
LEMMA CallStepKeeps ==
    ASSUME VersionsAssumption, VersionInv, NEW c \in Callers, CallStep(c)
    PROVE  /\ VersionInv' /\ CallMoves(c)
           /\ call'[c].pc # "idle" /\ call'[c].order = call[c].order /\ call[c].pc # "idle"
  <1>1. CASE Gather(c)
    BY <1>1, GatherKeeps DEF Gather
  <1>2. CASE Save(c)
    <2>1. CASE MaySave(call[c].order)
      BY <1>2, <2>1, SavingKeeps DEF Save
    <2>2. CASE ~MaySave(call[c].order)
      <3>1. call[c].pc = "gathered" /\ UNCHANGED version
        BY <1>2, <2>2 DEF Save
      <3>2. PICK result \in {"ok", "conflict"} :
                Answer(c, result) /\ (result = "ok" => Found(call[c].order) = "ok")
        BY <1>2, <2>2 DEF Save
      <3> QED
        BY <3>1, <3>2, AnswerKeeps DEF Answers
    <2> QED
      BY <2>1, <2>2
  <1>3. CASE SaveUnanswered(c)
    BY <1>3, SavingKeeps DEF SaveUnanswered
  <1>4. CASE CallFails(c)
    BY <1>4, AnswerKeeps DEF CallFails, Answers
  <1> QED
    BY <1>1, <1>2, <1>3, <1>4 DEF CallStep

\* The first version alone is sound.
LEMMA VersionsBegin ==
    ASSUME VersionsAssumption, VersionsInit
    PROVE  VersionInv
  <1> PICK f : f = [request |-> FirstRequest, order |-> NoOrder, dataset |-> FirstDataset,
                    number |-> 1, parent |-> 0, linear |-> TRUE, content |-> FirstContent, feedback |-> {}]
    OBVIOUS
  <1>1. version = {f} /\ call = [c \in Callers |-> NoCall]
    BY DEF VersionsInit
  <1>2. /\ f.request = FirstRequest /\ f.dataset = FirstDataset /\ f.number = 1 /\ f.parent = 0
        /\ f.content = FirstContent /\ f.feedback = {}
    OBVIOUS
  <1>3. NoOrder \in AllOrders
    BY DEF NoOrder, Order, AllOrders, AllRequests, FirstRequest
  <1>4. FirstContent \in SUBSET AllSamples /\ OneSample(FirstContent)
    BY DEF FirstContent, Sample, AllSamples, OneSample, VersionsAssumption, Splits
  <1>5. RowsOK(version)
    <2>1. f \in Row
      BY <1>3, <1>4 DEF Row, AllRequests, FirstDataset
    <2>2. IsFiniteSet({f})
      BY FS_Singleton, Zenon
    <2> QED
      BY <1>1, <1>2, <2>1, <2>2 DEF RowsOK
  <1>6. NumbersOK(version)
    <2>1. Cardinality({f}) = 1
      BY FS_Singleton, Zenon
    <2>2. \A d \in {v.dataset : v \in version} : In(version, d) = {f}
      BY <1>1 DEF In
    <2>3. {v.number : v \in {f}} = {1} /\ 1..1 = {1}
      BY <1>2
    <2>4. \A d \in {v.dataset : v \in version} :
              {v.number : v \in In(version, d)} = 1..Cardinality(In(version, d))
      BY <2>1, <2>2, <2>3
    <2>5. f.parent < f.number
      BY <1>2
    <2> QED
      BY <1>1, <1>2, <2>4, <2>5 DEF NumbersOK
  <1>7. RequestsOK(version) /\ ContentsOK(version) /\ OrdersOK(version)
    BY <1>1, <1>2, <1>4 DEF RequestsOK, ContentsOK, OrdersOK
  <1>8. NoCall \in CallRow /\ NoCall.pc = "idle"
    BY <1>3 DEF NoCall, CallRow
  <1>9. CallsOK
    BY <1>1, <1>8 DEF CallsOK, AnswersHonest
  <1> QED
    BY <1>5, <1>6, <1>7, <1>9 DEF VersionInv, Versions

\* What the invariant says of the versions in the module's own words.
LEMMA VersionInvImplies ==
    ASSUME VersionInv
    PROVE  VersionsTypeOK /\ VersionsSound /\ EvaluationPreserved /\ AnswersHonest
  <1>1. VersionsTypeOK
    BY DEF VersionInv, CallsOK, CallRow, VersionsTypeOK, Versions, RowsOK, Row
  <1>2. NumbersDense
    <2>1. \A d : VersionsOf(d) = In(version, d)
      BY DEF VersionsOf, In
    <2> QED
      BY <2>1 DEF VersionInv, Versions, NumbersOK, NumbersDense
  <1>3. OneVersionPerRequest /\ FeedbackTakenOnce /\ MergedOnLatest
    BY DEF VersionInv, Versions, NumbersOK, RequestsOK, OneVersionPerRequest, FeedbackTakenOnce, MergedOnLatest
  <1>4. EvaluationPreserved
    BY DEF VersionInv, Versions, ContentsOK, EvaluationPreserved, Numbered, OneSample
  <1> QED
    BY <1>1, <1>2, <1>3, <1>4 DEF VersionInv, CallsOK, VersionsSound

-----------------------------------------------------------------------------
(* The archives that previews freeze. *)

\* A split of some images trains with one of them at least, however small its share
\* (SplitLabels).
LEMMA TrainShare ==
    ASSUME PublicationAssumption, NEW n \in Nat \ {0}, NEW plan \in SplitPlans
    PROVE  SplitLabels(n, plan)[1] \in Nat \ {0}
  <1> DEFINE whole(i) == (n * plan[i]) \div 100
             rest(i) == (n * plan[i]) % 100
             left == n - whole(1) - whole(2) - whole(3)
             before(i) == Cardinality({j \in 1..3 : rest(j) > rest(i) \/ (rest(j) = rest(i) /\ j < i)})
             share == [i \in 1..3 |-> whole(i) + (IF before(i) < left THEN 1 ELSE 0)]
             lender == IF share[2] > 0 THEN 2 ELSE 3
  <1>1. SplitLabels(n, plan) = IF n > 0 /\ share[1] = 0 THEN [share EXCEPT ![1] = 1, ![lender] = @ - 1] ELSE share
    BY DEF SplitLabels
  <1>2. plan[1] \in Nat
    BY DEF PublicationAssumption
  <1>3. whole(1) \in Nat
    <2>1. n * plan[1] \in Nat
      BY <1>2
    <2> QED
      BY ONLY <2>1
  <1> HIDE DEF whole, before, left
  <1>4. share[1] \in Nat
    BY <1>3
  <1>5. share = [i \in 1..3 |-> share[i]] /\ lender \in {2, 3}
    OBVIOUS
  <1> HIDE DEF share, lender
  <1>6. [share EXCEPT ![1] = 1, ![lender] = @ - 1][1] = 1
    BY <1>5
  <1>7. CASE share[1] = 0
    BY <1>1, <1>6, <1>7
  <1>8. CASE share[1] # 0
    BY <1>1, <1>4, <1>8
  <1> QED
    BY <1>7, <1>8

LEMMA SomeTrained ==
    ASSUME PublicationAssumption, NEW photos, IsFiniteSet(photos), photos # {}, NEW plan \in SplitPlans,
           NEW split \in Partitions(photos, plan)
    PROVE  \E p \in photos : split[p] = "train"
  <1>1. Cardinality(photos) \in Nat \ {0}
    BY FS_CardinalityType, FS_EmptySet
  <1>2. SplitLabels(Cardinality(photos), plan)[1] \in Nat \ {0}
    BY <1>1, TrainShare
  <1>3. Cardinality({p \in photos : split[p] = "train"}) = SplitLabels(Cardinality(photos), plan)[1]
    <2>1. 1 \in 1..3 /\ SplitName[1] = "train"
      BY DEF SplitName
    <2>2. \A i \in 1..3 : Cardinality({p \in photos : split[p] = SplitName[i]})
                            = SplitLabels(Cardinality(photos), plan)[i]
      BY DEF Partitions
    <2>3. Cardinality({p \in photos : split[p] = SplitName[1]}) = SplitLabels(Cardinality(photos), plan)[1]
      BY <2>1, <2>2
    <2>4. {p \in photos : split[p] = SplitName[1]} = {p \in photos : split[p] = "train"}
      BY <2>1
    <2> QED
      BY <2>3, <2>4, Zenon
  <1>4. Cardinality({}) = 0
    BY FS_EmptySet, Zenon
  <1>5. {p \in photos : split[p] = "train"} # {}
    BY <1>2, <1>3, <1>4
  <1> QED
    BY <1>5

\* Every label that is added to has an addition to train with.
Trained(added) == \A s \in added : \E t \in added : t.label = s.label /\ t.split = "train"

\* What BuildLabeledArchive makes of a base keeps it, clashes with nothing, and trains
\* with every label that it adds to.
LEMMA LabeledArchiveSound ==
    ASSUME PublicationAssumption, NEW content \in SUBSET AllSamples, OneSample(content),
           NEW photos \in SUBSET AnnotationPhotos, NEW plan \in SplitPlans,
           NEW archive \in LabeledArchives(content, photos, plan)
    PROVE  /\ archive \in SUBSET AllSamples /\ OneSample(archive) /\ content \subseteq archive
           /\ Trained(archive \ content)
  <1> DEFINE fresh == {s.photo : s \in Fresh(content, LabelledPhotos(photos))}
             labelled(l) == {p \in fresh : ConfirmedLabel[p] = l}
             sample(split, p) == Sample(p, ConfirmedLabel[p], split[p])
  <1>1. fresh \subseteq photos /\ \A p \in fresh : \A s \in content : s.photo # p
    BY DEF Fresh, LabelledPhotos, Sample, Photographed
  <1>2. PICK split \in [fresh -> Splits] :
            /\ archive = content \cup {sample(split, p) : p \in fresh}
            /\ \A l \in Labels : [p \in labelled(l) |-> split[p]] \in Partitions(labelled(l), plan)
    <2>1. Mergeable(content, LabelledPhotos(photos))
      BY DEF LabeledArchives
    <2> QED
      BY <2>1 DEF LabeledArchives
  <1> HIDE DEF fresh
  <1>3. \A p \in fresh : /\ p \in AnnotationPhotos /\ p \in Photos /\ ConfirmedLabel[p] \in Labels
                         /\ split[p] \in Splits
    BY <1>1 DEF PublicationAssumption
  <1>4. \A p \in fresh : /\ sample(split, p) \in AllSamples /\ sample(split, p).photo = p
                         /\ sample(split, p).label = ConfirmedLabel[p] /\ sample(split, p).split = split[p]
    BY <1>3 DEF Sample, AllSamples
  <1>5. archive \in SUBSET AllSamples /\ content \subseteq archive
    BY <1>2, <1>4
  <1>6. OneSample(archive)
    <2> SUFFICES ASSUME NEW s \in archive, NEW t \in archive, s.photo = t.photo PROVE s = t
      BY DEF OneSample
    <2>1. CASE s \in content /\ t \in content
      BY <2>1 DEF OneSample
    <2>2. CASE s \notin content /\ t \notin content
      <3>1. PICK p \in fresh : s = sample(split, p)
        BY <1>2, <2>2
      <3>2. PICK o \in fresh : t = sample(split, o)
        BY <1>2, <2>2
      <3>3. p = o
        BY <1>4, <3>1, <3>2
      <3> QED
        BY <3>1, <3>2, <3>3
    <2>3. CASE s \in content /\ t \notin content
      <3>1. PICK o \in fresh : t = sample(split, o)
        BY <1>2, <2>3
      <3> QED
        BY <1>1, <1>4, <2>3, <3>1
    <2>4. CASE t \in content /\ s \notin content
      <3>1. PICK o \in fresh : s = sample(split, o)
        BY <1>2, <2>4
      <3> QED
        BY <1>1, <1>4, <2>4, <3>1
    <2> QED
      BY <2>1, <2>2, <2>3, <2>4
  <1>7. Trained(archive \ content)
    <2> SUFFICES ASSUME NEW s \in archive \ content
                 PROVE  \E t \in archive \ content : t.label = s.label /\ t.split = "train"
      BY DEF Trained
    <2>1. PICK p \in fresh : s = sample(split, p)
      BY <1>2
    <2> PICK l \in Labels : l = ConfirmedLabel[p]
      BY <1>3
    <2>2. PICK same : same = labelled(l)
      OBVIOUS
    <2>3. p \in same /\ same \subseteq fresh /\ \A o \in same : ConfirmedLabel[o] = l
      BY <2>2
    <2>4. IsFiniteSet(same)
      <3>1. same \subseteq AnnotationPhotos
        BY <1>3, <2>3
      <3> QED
        BY <3>1, FS_Subset DEF PublicationAssumption
    <2>5. PICK part : part = [o \in same |-> split[o]]
      OBVIOUS
    <2>6. part \in Partitions(same, plan)
      BY <1>2, <2>2, <2>5
    <2>7. PICK o \in same : part[o] = "train"
      BY <2>3, <2>4, <2>6, SomeTrained
    <2>8. split[o] = "train" /\ o \in fresh /\ ConfirmedLabel[o] = l
      BY <2>3, <2>5, <2>7
    <2>9. sample(split, o) \in archive /\ sample(split, o) \notin content
      BY <1>1, <1>2, <1>4, <2>8
    <2>10. s.label = l
      BY <1>4, <2>1
    <2> QED
      BY <1>4, <2>8, <2>9, <2>10
  <1> QED
    BY <1>5, <1>6, <1>7

-----------------------------------------------------------------------------
(* The batches. *)

ContentAt(vs, n) == UNION {v.content : v \in At(vs, n)}

\* A version with exactly what was frozen.
HasVersion(vs, request, order) ==
    \E v \in vs : /\ v.request = request /\ Fingerprint(v.order) = Fingerprint(order)
                  /\ v.content = order.samples

BatchSound(vs, x, b) ==
    /\ x.status = "absent" => x.order = NoOrder
    /\ x.status # "absent" =>
        /\ OrderSound(vs, x.order) /\ x.order.request = b /\ x.order.frozen
        /\ x.order.base # 0 => FirstContent \subseteq x.order.samples
        /\ Trained(x.order.samples \ ContentAt(vs, x.order.base))
    /\ x.status = "published" => HasVersion(vs, b, x.order)

BatchesOK ==
    /\ batch \in [Batches -> Batch]
    /\ \A b \in Batches : BatchSound(version, batch[b], b)

\* A coordinator asks for what its batch has frozen, and for nothing when it has no batch.
CoordinatorsOK ==
    \A c \in Coordinators :
        /\ coordinator[c] = NoBatch => call[c].pc = "idle"
        /\ coordinator[c] # NoBatch =>
            /\ batch[coordinator[c]].status # "absent"
            /\ call[c].pc # "idle" => call[c].order = batch[coordinator[c]].order

\* As long as no session was lost, whoever works on a batch holds the lock, and no user
\* can take the batch from under it.
LocksOK ==
    /\ member \in [Sources -> Batches \cup {NoBatch}]
    /\ coordinator \in [Coordinators -> Batches \cup {NoBatch}]
    /\ lockHolder \in Coordinators \cup {NoCoordinator}
    /\ lockLosses \in Nat /\ batchFaults \in Nat
    /\ lockLosses <= batchFaults /\ batchFaults <= CoordinatorFaults
    /\ lockLosses = 0 =>
        \A c \in Coordinators : coordinator[c] # NoBatch =>
            lockHolder = c /\ batch[coordinator[c]].status \in {"building", "registering"}
    /\ ReservationsHold

\* There is no version zero.
LEMMA NothingAtZero ==
    ASSUME NEW vs, Versions(vs)
    PROVE  At(vs, 0) = {} /\ ContentAt(vs, 0) = {}
  BY DEF Versions, RowsOK, Row, At, ContentAt

LEMMA BatchGrows ==
    ASSUME NEW vs, NEW ws, Versions(vs), Versions(ws), Grows(vs, ws),
           NEW b, NEW x \in Batch, BatchSound(vs, x, b)
    PROVE  BatchSound(ws, x, b)
  <1>1. x.order \in AllOrders /\ x.order.base \in Nat
    BY DEF Batch, AllOrders
  <1>2. x.status # "absent" => OrderSound(ws, x.order)
    BY <1>1, GrowsKeeps DEF BatchSound
  <1>3. x.status # "absent" => ContentAt(ws, x.order.base) = ContentAt(vs, x.order.base)
    <2>1. CASE x.order.base = 0
      BY <2>1, NothingAtZero
    <2>2. CASE x.order.base # 0 /\ x.status # "absent"
      BY <1>1, <2>2 DEF Grows, BatchSound, OrderSound, KeepsBase, ContentAt
    <2> QED
      BY <2>1, <2>2
  <1>4. x.status = "published" => HasVersion(ws, b, x.order)
    BY DEF BatchSound, HasVersion, Grows
  <1> QED
    BY <1>2, <1>3, <1>4 DEF BatchSound

\* The version that answers for a batch holds the batch's archive, whoever saved it.
LEMMA AnswerHasVersion ==
    ASSUME PublicationAssumption, NEW vs, Versions(vs), NEW b \in Batches, NEW x, BatchSound(vs, x, b),
           x.status # "absent",
           \E v \in vs : v.request = b /\ Fingerprint(v.order) = Fingerprint(x.order)
    PROVE  HasVersion(vs, b, x.order)
  <1>1. PICK v \in vs : v.request = b /\ Fingerprint(v.order) = Fingerprint(x.order)
    OBVIOUS
  <1>2. v.order.base = x.order.base /\ v.order.samples = x.order.samples
    BY <1>1 DEF Fingerprint
  <1>3. b # FirstRequest
    BY DEF PublicationAssumption, FirstRequest
  <1>4. v.order.frozen \/ v.order.base = 0
    <2> SUFFICES ASSUME ~v.order.frozen, v.order.base # 0 PROVE FALSE
      OBVIOUS
    <2>1. Training(x.order.samples)
      BY <1>1, <1>2, <1>3 DEF Versions, OrdersOK
    <2>2. FirstContent \subseteq x.order.samples
      BY <1>2 DEF BatchSound
    <2> QED
      BY <2>1, <2>2 DEF Training, FirstContent, Sample
  <1> QED
    BY <1>1, <1>2, <1>3, <1>4 DEF Versions, OrdersOK, HasVersion

\* Batches do not mind new versions.
LEMMA BatchesStay ==
    ASSUME Versions(version), Versions(version'), Grows(version, version'), BatchesOK, UNCHANGED batch
    PROVE  BatchesOK'
  <1>1. \A b \in Batches : BatchSound(version', batch[b], b)
    BY BatchGrows DEF BatchesOK
  <1> QED
    BY <1>1 DEF BatchesOK

\* The status of one batch changes.
LEMMA StatusMoves ==
    ASSUME Versions(version), BatchesOK, UNCHANGED version, NEW b \in Batches, batch[b].status # "absent",
           NEW status \in {"failed", "cancelled"} \cup ReservedStatus,
           batch' = [batch EXCEPT ![b].status = status],
           status = "published" => HasVersion(version, b, batch[b].order)
    PROVE  /\ BatchesOK'
           /\ \A d \in Batches : /\ batch'[d].order = batch[d].order /\ batch'[d].sources = batch[d].sources
                                 /\ d # b => batch'[d] = batch[d]
           /\ batch'[b].status = status /\ status # "absent"
  <1>1. status # "absent"
    BY DEF ReservedStatus, ActiveStatus
  <1>2. PICK y : y = [batch[b] EXCEPT !.status = status]
    OBVIOUS
  <1>3. y \in Batch /\ y.status = status /\ y.order = batch[b].order /\ y.sources = batch[b].sources
    BY <1>2 DEF BatchesOK, Batch
  <1>4. batch' = [batch EXCEPT ![b] = y]
    BY <1>2
  <1>5. batch' \in [Batches -> Batch] /\ batch'[b] = y /\ \A d \in Batches : d # b => batch'[d] = batch[d]
    BY <1>3, <1>4 DEF BatchesOK
  <1>6. BatchSound(version, y, b)
    BY <1>1, <1>3 DEF BatchSound, BatchesOK
  <1>7. BatchesOK'
    BY <1>5, <1>6 DEF BatchesOK
  <1> QED
    BY <1>1, <1>3, <1>5, <1>7

-----------------------------------------------------------------------------
(* What users do with batches. *)

Publishing == VersionInv /\ BatchesOK /\ LocksOK /\ CoordinatorsOK

\* A preview freezes an order that is sound.
LEMMA FreezingKeeps ==
    ASSUME PublicationAssumption, Publishing, NEW b \in Batches, batch[b].status = "absent",
           NEW order, NEW sources \in SUBSET Sources,
           OrderSound(version, order), order.request = b, order.frozen,
           order.base # 0 => FirstContent \subseteq order.samples,
           Trained(order.samples \ ContentAt(version, order.base)),
           Frozen(b, order, sources),
           UNCHANGED <<version, call, member, coordinator, lockHolder, lockLosses, batchFaults>>
    PROVE  Publishing'
  <1> PICK y : y = [status |-> "preview", order |-> order, sources |-> sources]
    OBVIOUS
  <1>1. y \in Batch /\ y.status = "preview" /\ y.order = order /\ y.sources = sources
    BY DEF Batch, OrderSound
  <1>2. batch' = [batch EXCEPT ![b] = y] /\ batch \in [Batches -> Batch]
    BY DEF Frozen, Publishing, BatchesOK
  <1>3. batch' \in [Batches -> Batch] /\ batch'[b] = y /\ \A d \in Batches : d # b => batch'[d] = batch[d]
    BY <1>1, <1>2
  <1>4. BatchesOK'
    <2>1. BatchSound(version, y, b)
      BY <1>1 DEF BatchSound
    <2>2. \A d \in Batches : BatchSound(version, batch'[d], d)
      BY <1>3, <2>1 DEF Publishing, BatchesOK
    <2> QED
      BY <1>3, <2>2 DEF BatchesOK
  <1>5. VersionInv'
    BY DEF Publishing, VersionInv, CallsOK, AnswersHonest, Versions
  <1>6. \A c \in Coordinators : coordinator[c] # NoBatch => coordinator[c] \in Batches /\ coordinator[c] # b
    BY DEF Publishing, LocksOK, CoordinatorsOK
  <1>7. CoordinatorsOK'
    <2> SUFFICES ASSUME NEW c \in Coordinators
                 PROVE  /\ coordinator[c] = NoBatch => call[c].pc = "idle"
                        /\ coordinator[c] # NoBatch =>
                             /\ batch'[coordinator[c]].status # "absent"
                             /\ call[c].pc # "idle" => call[c].order = batch'[coordinator[c]].order
      BY DEF CoordinatorsOK
    <2>1. coordinator[c] # NoBatch => batch'[coordinator[c]] = batch[coordinator[c]]
      BY <1>3, <1>6
    <2> QED
      BY <2>1 DEF Publishing, CoordinatorsOK
  <1>8. LocksOK'
    <2>1. ReservationsHold'
      BY <1>1, <1>3 DEF Publishing, LocksOK, ReservationsHold, ReservedStatus, ActiveStatus
    <2>2. lockLosses = 0 =>
            \A c \in Coordinators : coordinator[c] # NoBatch =>
                lockHolder = c /\ batch'[coordinator[c]].status \in {"building", "registering"}
      <3>1. \A c \in Coordinators : coordinator[c] # NoBatch => batch'[coordinator[c]] = batch[coordinator[c]]
        BY <1>3, <1>6
      <3> QED
        BY <3>1 DEF Publishing, LocksOK
    <2> QED
      BY <2>1, <2>2 DEF Publishing, LocksOK
  <1> QED
    BY <1>4, <1>5, <1>7, <1>8 DEF Publishing

\* The content that a preview builds on.
LEMMA BaseIs ==
    ASSUME VersionInv, NEW base \in {0} \cup {v.number : v \in VersionsOf(FirstDataset)}
    PROVE  /\ base \in Nat /\ BaseContent(base) = ContentAt(version, base)
           /\ BaseContent(base) \in SUBSET AllSamples /\ OneSample(BaseContent(base))
           /\ base = 0 => BaseContent(base) = {}
           /\ base # 0 => FirstContent \subseteq BaseContent(base)
           /\ \A content : BaseContent(base) \subseteq content => KeepsBase(version, base, content)
  <1>1. BaseContent(base) = ContentAt(version, base)
    BY FirstDatasetNames DEF BaseContent, ContentAt
  <1>2. base \in Nat
    BY DEF VersionInv, Versions, RowsOK, Row, VersionsOf
  <1>3. CASE base = 0
    <2>1. ContentAt(version, base) = {}
      BY <1>3, NothingAtZero DEF VersionInv
    <2> QED
      BY <1>1, <1>2, <1>3, <2>1 DEF OneSample, KeepsBase
  <1>4. CASE base # 0
    <2>1. PICK v \in version : v.dataset = FirstDataset /\ v.number = base
      BY <1>4 DEF VersionsOf
    <2>2. At(version, base) = {v}
      BY <2>1 DEF VersionInv, Versions, NumbersOK, At
    <2>3. ContentAt(version, base) = v.content
      BY <2>2 DEF ContentAt
    <2>4. v.content \in SUBSET AllSamples /\ OneSample(v.content) /\ FirstContent \subseteq v.content
      BY <2>1 DEF VersionInv, Versions, RowsOK, Row, ContentsOK
    <2> QED
      BY <1>1, <1>2, <1>4, <2>2, <2>3, <2>4 DEF KeepsBase
  <1> QED
    BY <1>3, <1>4

LEMMA PreviewAnnotationsKeeps ==
    ASSUME VersionsAssumption, PublicationAssumption, Publishing, NEW b \in Batches,
           PreviewAnnotations(b), UNCHANGED versionVars
    PROVE  Publishing'
  <1>1. PICK base \in {0} \cup {v.number : v \in VersionsOf(FirstDataset)}, photos \in SUBSET AnnotationPhotos,
             plan \in SplitPlans :
            \E archive \in LabeledArchives(IF base = 0 THEN {} ELSE BaseContent(base), photos, plan) :
              Frozen(b, Order(b, base, TRUE, archive, {}), {Source("annotation", p) : p \in photos})
    BY DEF PreviewAnnotations
  <1>2. PICK content : content = BaseContent(base)
    OBVIOUS
  <1>3. /\ base \in Nat /\ content = ContentAt(version, base)
        /\ content \in SUBSET AllSamples /\ OneSample(content)
        /\ base = 0 => content = {}
        /\ base # 0 => FirstContent \subseteq content
        /\ \A archive : content \subseteq archive => KeepsBase(version, base, archive)
    BY <1>2, BaseIs DEF Publishing
  <1>4. PICK archive \in LabeledArchives(content, photos, plan) :
            Frozen(b, Order(b, base, TRUE, archive, {}), {Source("annotation", p) : p \in photos})
    BY <1>1, <1>2, <1>3
  <1>5. /\ archive \in SUBSET AllSamples /\ OneSample(archive) /\ content \subseteq archive
        /\ Trained(archive \ content)
    BY <1>3, <1>4, LabeledArchiveSound
  <1>6. PICK order : order = Order(b, base, TRUE, archive, {})
    OBVIOUS
  <1>7. /\ order.request = b /\ order.base = base /\ order.frozen = TRUE /\ order.samples = archive
        /\ order.feedback = {} /\ order \in AllOrders
    <2>1. b \in AllRequests
      BY DEF PublicationAssumption, AllRequests
    <2> QED
      BY <1>3, <1>5, <1>6, <2>1 DEF Order, AllOrders
  <1>8. OrderSound(version, order)
    BY <1>3, <1>5, <1>7 DEF OrderSound
  <1>9. {Source("annotation", p) : p \in photos} \in SUBSET Sources
    BY DEF Sources
  <1>10. Frozen(b, order, {Source("annotation", p) : p \in photos})
    BY <1>4, <1>6
  <1>11. batch[b].status = "absent" /\ UNCHANGED <<version, call, member, coordinator, lockHolder, lockLosses, batchFaults>>
    BY DEF PreviewAnnotations, Previewable, versionVars
  <1>12. /\ order.base # 0 => FirstContent \subseteq order.samples
         /\ Trained(order.samples \ ContentAt(version, order.base))
    BY <1>3, <1>5, <1>7
  <1> QED
    BY <1>7, <1>8, <1>9, <1>10, <1>11, <1>12, FreezingKeeps

LEMMA PreviewFeedbackKeeps ==
    ASSUME VersionsAssumption, PublicationAssumption, Publishing, NEW b \in Batches,
           PreviewFeedback(b), UNCHANGED versionVars
    PROVE  Publishing'
  <1>1. PICK base \in {v.number : v \in VersionsOf(FirstDataset)}, photos \in SUBSET FeedbackPhotos :
            /\ Mergeable(BaseContent(base), FeedbackSamples(photos))
            /\ Frozen(b, Order(b, base, TRUE, Merged(BaseContent(base), FeedbackSamples(photos)), photos),
                      {Source("feedback", p) : p \in photos})
    BY DEF PreviewFeedback
  <1>2. PICK content : content = BaseContent(base)
    OBVIOUS
  <1>3. /\ base \in Nat /\ content = ContentAt(version, base)
        /\ content \in SUBSET AllSamples /\ OneSample(content)
        /\ base # 0 => FirstContent \subseteq content
        /\ \A archive : content \subseteq archive => KeepsBase(version, base, archive)
    BY <1>2, BaseIs DEF Publishing
  <1>4. PICK additions : additions = FeedbackSamples(photos)
    OBVIOUS
  <1>5. additions \in SUBSET AllSamples /\ Training(additions)
    BY <1>4, FeedbackSamplesSound
  <1>6. PICK archive : archive = Merged(content, additions)
    OBVIOUS
  <1>7. archive \in SUBSET AllSamples /\ OneSample(archive) /\ content \subseteq archive
    BY <1>1, <1>2, <1>3, <1>4, <1>5, <1>6, MergeSound
  <1>8. Trained(archive \ content)
    BY <1>5, <1>6 DEF Merged, Fresh, Training, Trained
  <1>9. PICK order : order = Order(b, base, TRUE, archive, photos)
    OBVIOUS
  <1>10. /\ order.request = b /\ order.base = base /\ order.frozen = TRUE /\ order.samples = archive
         /\ order.feedback = photos /\ order \in AllOrders
    <2>1. b \in AllRequests
      BY DEF PublicationAssumption, AllRequests
    <2> QED
      BY <1>3, <1>7, <1>9, <2>1 DEF Order, AllOrders
  <1>11. OrderSound(version, order)
    BY <1>3, <1>7, <1>10 DEF OrderSound
  <1>12. {Source("feedback", p) : p \in photos} \in SUBSET Sources
    BY DEF Sources
  <1>13. Frozen(b, order, {Source("feedback", p) : p \in photos})
    BY <1>1, <1>2, <1>4, <1>6, <1>9
  <1>14. batch[b].status = "absent" /\ UNCHANGED <<version, call, member, coordinator, lockHolder, lockLosses, batchFaults>>
    BY DEF PreviewFeedback, Previewable, versionVars
  <1>15. /\ order.base # 0 => FirstContent \subseteq order.samples
         /\ Trained(order.samples \ ContentAt(version, order.base))
    BY <1>3, <1>7, <1>8, <1>10
  <1>16. PICK sources : sources = {Source("feedback", p) : p \in photos}
    OBVIOUS
  <1>17. sources \in SUBSET Sources /\ Frozen(b, order, sources)
    BY <1>12, <1>13, <1>16
  <1> QED
    BY <1>10, <1>11, <1>14, <1>15, <1>17, FreezingKeeps

\* A batch leaves a status in which nobody works on it, or is not reserved yet.
LEMMA UserStatusKeeps ==
    ASSUME PublicationAssumption, Publishing, NEW b \in Batches, batch[b].status \in {"preview", "failed"},
           NEW status \in {"queued", "cancelled"}, batch' = [batch EXCEPT ![b].status = status],
           UNCHANGED <<version, call, coordinator, lockHolder, lockLosses, batchFaults>>,
           member' \in [Sources -> Batches \cup {NoBatch}], ReservationsHold'
    PROVE  Publishing'
  <1>1. /\ BatchesOK'
        /\ \A d \in Batches : /\ batch'[d].order = batch[d].order /\ batch'[d].sources = batch[d].sources
                              /\ d # b => batch'[d] = batch[d]
        /\ batch'[b].status = status /\ status # "absent"
    <2>1. batch[b].status # "absent" /\ status \in {"failed", "cancelled"} \cup ReservedStatus /\ status # "published"
      BY DEF ReservedStatus, ActiveStatus
    <2> QED
      BY <2>1, StatusMoves DEF Publishing, VersionInv
  <1>2. VersionInv'
    BY DEF Publishing, VersionInv, CallsOK, AnswersHonest, Versions
  <1>3. \A c \in Coordinators : coordinator[c] # NoBatch => coordinator[c] \in Batches
    BY DEF Publishing, LocksOK
  <1>4. CoordinatorsOK'
    BY <1>1, <1>3 DEF Publishing, CoordinatorsOK
  <1>5. lockLosses = 0 =>
            \A c \in Coordinators : coordinator[c] # NoBatch =>
                lockHolder = c /\ batch'[coordinator[c]].status \in {"building", "registering"}
    <2> SUFFICES ASSUME lockLosses = 0, NEW c \in Coordinators, coordinator[c] # NoBatch
                 PROVE  lockHolder = c /\ batch'[coordinator[c]].status \in {"building", "registering"}
      OBVIOUS
    <2>1. lockHolder = c /\ batch[coordinator[c]].status \in {"building", "registering"}
      BY DEF Publishing, LocksOK
    <2>2. coordinator[c] # b
      BY <2>1
    <2> QED
      BY <1>1, <1>3, <2>1, <2>2
  <1>6. LocksOK'
    BY <1>5 DEF Publishing, LocksOK
  <1> QED
    BY <1>1, <1>2, <1>4, <1>6 DEF Publishing

LEMMA PublishKeeps ==
    ASSUME PublicationAssumption, Publishing, NEW b \in Batches, Publish(b), UNCHANGED versionVars
    PROVE  Publishing'
  <1>1. /\ batch[b].status \in {"preview", "failed"} /\ batch' = [batch EXCEPT ![b].status = "queued"]
        /\ UNCHANGED <<version, call, coordinator, lockHolder, lockLosses, batchFaults>>
        /\ \A s \in batch[b].sources : member[s] \in {NoBatch, b}
        /\ member' = [s \in Sources |-> IF s \in batch[b].sources /\ member[s] = NoBatch THEN b ELSE member[s]]
    BY DEF Publish, Reservable, versionVars
  <1>2. member \in [Sources -> Batches \cup {NoBatch}] /\ batch \in [Batches -> Batch]
    BY DEF Publishing, LocksOK, BatchesOK
  <1>3. member' \in [Sources -> Batches \cup {NoBatch}]
    BY <1>1, <1>2
  <1>4. \A d \in Batches : /\ batch'[d].sources = batch[d].sources /\ batch[d].sources \subseteq Sources
                           /\ d # b => batch'[d] = batch[d]
    BY <1>1, <1>2 DEF Batch
  <1>5. ReservationsHold'
    <2> SUFFICES ASSUME lockLosses = 0, NEW d \in Batches, batch'[d].status \in ReservedStatus,
                        NEW s \in batch[d].sources
                 PROVE  member'[s] = d
      BY <1>1, <1>4 DEF ReservationsHold
    <2>1. s \in Sources
      BY <1>4
    <2>2. CASE d = b
      BY <1>1, <2>1, <2>2
    <2>3. CASE d # b
      <3>1. member[s] = d
        BY <1>4, <2>3 DEF Publishing, LocksOK, ReservationsHold
      <3>2. d # NoBatch
        BY DEF PublicationAssumption, NoBatch
      <3> QED
        BY <1>1, <2>1, <3>1, <3>2
    <2> QED
      BY <2>2, <2>3
  <1> QED
    BY <1>1, <1>3, <1>5, UserStatusKeeps

LEMMA CancelKeeps ==
    ASSUME PublicationAssumption, Publishing, NEW b \in Batches, Cancel(b), UNCHANGED versionVars
    PROVE  Publishing'
  <1>1. /\ batch[b].status \in {"preview", "failed"} /\ batch' = [batch EXCEPT ![b].status = "cancelled"]
        /\ UNCHANGED <<version, call, coordinator, lockHolder, lockLosses, batchFaults>>
        /\ member' = [s \in Sources |-> IF member[s] = b THEN NoBatch ELSE member[s]]
    BY DEF Cancel, Cancellable, versionVars
  <1>2. member \in [Sources -> Batches \cup {NoBatch}] /\ batch \in [Batches -> Batch]
    BY DEF Publishing, LocksOK, BatchesOK
  <1>3. member' \in [Sources -> Batches \cup {NoBatch}]
    BY <1>1, <1>2
  <1>4. /\ \A d \in Batches : batch[d].sources \subseteq Sources /\ (d # b => batch'[d] = batch[d])
        /\ batch'[b].status = "cancelled"
    BY <1>1, <1>2 DEF Batch
  <1>5. ReservationsHold'
    <2> SUFFICES ASSUME lockLosses = 0, NEW d \in Batches, batch'[d].status \in ReservedStatus,
                        NEW s \in batch'[d].sources
                 PROVE  member'[s] = d
      BY <1>1 DEF ReservationsHold
    <2>1. d # b
      BY <1>4 DEF ReservedStatus, ActiveStatus
    <2>2. member[s] = d /\ s \in Sources
      BY <1>4, <2>1 DEF Publishing, LocksOK, ReservationsHold
    <2> QED
      BY <1>1, <2>1, <2>2
  <1> QED
    BY <1>1, <1>3, <1>5, UserStatusKeeps

LEMMA UserStepKeeps ==
    ASSUME VersionsAssumption, PublicationAssumption, Publishing, NEW b \in Batches, UserStep(b)
    PROVE  Publishing'
  BY PreviewAnnotationsKeeps, PreviewFeedbackKeeps, PublishKeeps, CancelKeeps DEF UserStep

-----------------------------------------------------------------------------
(* What coordinators do. *)

\* The status of the batch that a coordinator works on, or takes up.
LEMMA WorkStatusMoves ==
    ASSUME Publishing, UNCHANGED version, NEW b \in Batches, batch[b].status # "absent",
           NEW status \in {"building", "registering", "failed", "published"},
           batch' = [batch EXCEPT ![b].status = status],
           status = "published" => HasVersion(version, b, batch[b].order),
           lockLosses = 0 => batch[b].status \in ActiveStatus,
           UNCHANGED <<member, lockLosses>>
    PROVE  /\ BatchesOK' /\ ReservationsHold'
           /\ \A d \in Batches : /\ batch'[d].order = batch[d].order
                                 /\ d # b => batch'[d] = batch[d]
           /\ batch'[b].status = status
  <1>1. /\ BatchesOK'
        /\ \A d \in Batches : /\ batch'[d].order = batch[d].order /\ batch'[d].sources = batch[d].sources
                              /\ d # b => batch'[d] = batch[d]
        /\ batch'[b].status = status
    <2>1. status \in {"failed", "cancelled"} \cup ReservedStatus
      BY DEF ReservedStatus, ActiveStatus
    <2> QED
      BY <2>1, StatusMoves DEF Publishing, VersionInv
  <1>2. ReservationsHold'
    <2> SUFFICES ASSUME lockLosses = 0, NEW d \in Batches, batch'[d].status \in ReservedStatus,
                        NEW s \in batch[d].sources
                 PROVE  member[s] = d
      BY <1>1 DEF ReservationsHold
    <2>1. batch[d].status \in ReservedStatus
      BY <1>1 DEF ReservedStatus
    <2> QED
      BY <2>1 DEF Publishing, LocksOK, ReservationsHold
  <1> QED
    BY <1>1, <1>2

LEMMA TakeBatchKeeps ==
    ASSUME PublicationAssumption, Publishing, NEW c \in Coordinators, TakeBatch(c)
    PROVE  Publishing'
  <1>1. PICK b \in Batches :
            /\ batch[b].status \in ActiveStatus /\ batch' = [batch EXCEPT ![b].status = "building"]
            /\ coordinator' = [coordinator EXCEPT ![c] = b]
    <2>1. Waiting \in SUBSET Nat /\ Waiting # {}
      BY DEF TakeBatch, Waiting, PublicationAssumption
    <2>2. Min(Waiting) \in Waiting
      BY <2>1, MinIsThere
    <2> QED
      BY <2>2 DEF TakeBatch, Waiting
  <1>2. /\ coordinator[c] = NoBatch /\ lockHolder = NoCoordinator /\ lockHolder' = c
        /\ UNCHANGED <<version, call, member, lockLosses, batchFaults>>
    BY DEF TakeBatch
  <1>3. /\ BatchesOK' /\ ReservationsHold'
        /\ \A d \in Batches : batch'[d].order = batch[d].order /\ (d # b => batch'[d] = batch[d])
        /\ batch'[b].status = "building"
    <2>1. batch[b].status # "absent"
      BY <1>1 DEF ActiveStatus
    <2> QED
      BY <1>1, <1>2, <2>1, WorkStatusMoves
  <1>4. /\ coordinator' \in [Coordinators -> Batches \cup {NoBatch}] /\ coordinator'[c] = b
        /\ \A d \in Coordinators : d # c => coordinator'[d] = coordinator[d]
        /\ \A d \in Coordinators : coordinator[d] # NoBatch => coordinator[d] \in Batches
    BY <1>1 DEF Publishing, LocksOK
  <1>5. VersionInv'
    BY <1>2 DEF Publishing, VersionInv, CallsOK, AnswersHonest, Versions
  <1>6. CoordinatorsOK'
    <2> SUFFICES ASSUME NEW d \in Coordinators
                 PROVE  /\ coordinator'[d] = NoBatch => call[d].pc = "idle"
                        /\ coordinator'[d] # NoBatch =>
                             /\ batch'[coordinator'[d]].status # "absent"
                             /\ call[d].pc # "idle" => call[d].order = batch'[coordinator'[d]].order
      BY <1>2 DEF CoordinatorsOK
    <2>1. CASE d = c
      BY <1>2, <1>3, <1>4, <2>1 DEF Publishing, CoordinatorsOK
    <2>2. CASE d # c
      BY <1>3, <1>4, <2>2 DEF Publishing, CoordinatorsOK
    <2> QED
      BY <2>1, <2>2
  <1>7. LocksOK'
    <2>1. lockLosses = 0 => \A d \in Coordinators : d # c => coordinator[d] = NoBatch
      BY <1>2 DEF Publishing, LocksOK, PublicationAssumption
    <2>2. lockLosses' = 0 =>
            \A d \in Coordinators : coordinator'[d] # NoBatch =>
                lockHolder' = d /\ batch'[coordinator'[d]].status \in {"building", "registering"}
      BY <1>2, <1>3, <1>4, <2>1
    <2> QED
      BY <1>2, <1>3, <1>4, <2>2 DEF Publishing, LocksOK
  <1> QED
    BY <1>3, <1>5, <1>6, <1>7 DEF Publishing

LEMMA RegisterKeeps ==
    ASSUME VersionsAssumption, PublicationAssumption, Publishing, NEW c \in Coordinators, Register(c)
    PROVE  Publishing'
  <1>1. PICK b \in Batches : b = coordinator[c] /\ coordinator[c] # NoBatch
    BY DEF Register, Publishing, LocksOK
  <1>2. /\ batch' = [batch EXCEPT ![b].status = "registering"] /\ Begin(c, batch[b].order)
        /\ UNCHANGED <<member, coordinator, lockHolder, lockLosses, batchFaults>>
    BY <1>1 DEF Register
  <1>3. batch[b].status # "absent" /\ OrderSound(version, batch[b].order)
    BY <1>1 DEF Publishing, CoordinatorsOK, BatchesOK, BatchSound
  <1>4. c \in Callers
    BY DEF PublicationAssumption
  <1>5. /\ VersionInv' /\ CallMoves(c) /\ UNCHANGED version
        /\ call'[c].pc # "idle" /\ call'[c].order = batch[b].order
    <2>1. PICK order : order = batch[b].order
      OBVIOUS
    <2> QED
      BY <1>2, <1>3, <1>4, <2>1, BeginKeeps DEF Publishing
  <1>6. lockLosses = 0 => batch[b].status \in {"building", "registering"}
    BY <1>1 DEF Publishing, LocksOK
  <1>7. /\ BatchesOK' /\ ReservationsHold'
        /\ \A d \in Batches : batch'[d].order = batch[d].order /\ (d # b => batch'[d] = batch[d])
        /\ batch'[b].status = "registering"
    BY <1>2, <1>3, <1>5, <1>6, WorkStatusMoves DEF ActiveStatus
  <1>8. \A d \in Coordinators : coordinator[d] # NoBatch => coordinator[d] \in Batches
    BY DEF Publishing, LocksOK
  <1>9. CoordinatorsOK'
    <2> SUFFICES ASSUME NEW d \in Coordinators
                 PROVE  /\ coordinator[d] = NoBatch => call'[d].pc = "idle"
                        /\ coordinator[d] # NoBatch =>
                             /\ batch'[coordinator[d]].status # "absent"
                             /\ call'[d].pc # "idle" => call'[d].order = batch'[coordinator[d]].order
      BY <1>2 DEF CoordinatorsOK
    <2>1. CASE d = c
      BY <1>1, <1>5, <1>7, <2>1
    <2>2. CASE d # c
      <3>1. call'[d] = call[d]
        BY <1>5, <2>2 DEF CallMoves, PublicationAssumption
      <3>2. /\ coordinator[d] = NoBatch => call[d].pc = "idle"
            /\ coordinator[d] # NoBatch =>
                 /\ batch[coordinator[d]].status # "absent"
                 /\ call[d].pc # "idle" => call[d].order = batch[coordinator[d]].order
        BY DEF Publishing, CoordinatorsOK
      <3>3. coordinator[d] # NoBatch =>
              /\ batch'[coordinator[d]].order = batch[coordinator[d]].order
              /\ batch'[coordinator[d]].status = batch[coordinator[d]].status \/ coordinator[d] = b
        BY <1>7, <1>8
      <3> QED
        BY <1>7, <3>1, <3>2, <3>3
    <2> QED
      BY <2>1, <2>2
  <1>10. LocksOK'
    <2>1. lockLosses = 0 =>
            \A d \in Coordinators : coordinator[d] # NoBatch =>
                lockHolder = d /\ batch'[coordinator[d]].status \in {"building", "registering"}
      BY <1>7, <1>8 DEF Publishing, LocksOK
    <2> QED
      BY <1>2, <1>7, <2>1 DEF Publishing, LocksOK
  <1> QED
    BY <1>5, <1>7, <1>9, <1>10 DEF Publishing

\* A coordinator lets go of its batch.
LEMMA ReleasedKeeps ==
    ASSUME PublicationAssumption, Publishing, NEW c \in Coordinators, coordinator[c] # NoBatch, Released(c),
           VersionInv', CallMoves(c), call'[c].pc = "idle", BatchesOK', ReservationsHold',
           \A d \in Batches : /\ batch'[d].order = batch[d].order
                              /\ batch[d].status # "absent" => batch'[d].status # "absent",
           UNCHANGED <<member, lockLosses>>, batchFaults' \in Nat, batchFaults <= batchFaults',
           batchFaults' <= CoordinatorFaults
    PROVE  Publishing'
  <1>1. /\ coordinator' \in [Coordinators -> Batches \cup {NoBatch}] /\ coordinator'[c] = NoBatch
        /\ \A d \in Coordinators : d # c => coordinator'[d] = coordinator[d]
        /\ \A d \in Coordinators : coordinator[d] # NoBatch => coordinator[d] \in Batches
        /\ lockHolder' \in Coordinators \cup {NoCoordinator}
    BY DEF Publishing, LocksOK, Released
  <1>2. CoordinatorsOK'
    <2> SUFFICES ASSUME NEW d \in Coordinators
                 PROVE  /\ coordinator'[d] = NoBatch => call'[d].pc = "idle"
                        /\ coordinator'[d] # NoBatch =>
                             /\ batch'[coordinator'[d]].status # "absent"
                             /\ call'[d].pc # "idle" => call'[d].order = batch'[coordinator'[d]].order
      BY DEF CoordinatorsOK
    <2>1. CASE d = c
      BY <1>1, <2>1
    <2>2. CASE d # c
      <3>1. call'[d] = call[d]
        BY <2>2 DEF CallMoves, PublicationAssumption
      <3>2. coordinator'[d] = coordinator[d]
        BY <1>1, <2>2
      <3>3. coordinator[d] = NoBatch => call[d].pc = "idle"
        BY DEF Publishing, CoordinatorsOK
      <3>4. CASE coordinator[d] # NoBatch
        <4>1. PICK b \in Batches : b = coordinator[d]
          BY <1>1, <3>4
        <4>2. batch[b].status # "absent" /\ (call[d].pc # "idle" => call[d].order = batch[b].order)
          BY <3>4, <4>1 DEF Publishing, CoordinatorsOK
        <4>3. batch'[b].status # "absent" /\ (call[d].pc # "idle" => call[d].order = batch'[b].order)
          BY <4>2
        <4> QED
          BY <3>1, <3>2, <3>4, <4>1, <4>3
      <3> QED
        BY <3>1, <3>2, <3>3, <3>4
    <2> QED
      BY <2>1, <2>2
  <1>3. LocksOK'
    <2>1. lockLosses = 0 => \A d \in Coordinators : d # c => coordinator[d] = NoBatch
      BY DEF Publishing, LocksOK
    <2>2. lockLosses' = 0 =>
            \A d \in Coordinators : coordinator'[d] # NoBatch =>
                lockHolder' = d /\ batch'[coordinator'[d]].status \in {"building", "registering"}
      BY <1>1, <2>1
    <2>3. lockLosses' <= batchFaults'
      BY DEF Publishing, LocksOK
    <2> QED
      BY <1>1, <2>2, <2>3 DEF Publishing, LocksOK
  <1> QED
    BY <1>2, <1>3 DEF Publishing

LEMMA ConcludeKeeps ==
    ASSUME PublicationAssumption, Publishing, NEW c \in Coordinators, coordinator[c] # NoBatch,
           NEW result, Conclude(c, result),
           result = "ok" => HasVersion(version, coordinator[c], batch[coordinator[c]].order),
           UNCHANGED version, VersionInv', CallMoves(c), call'[c].pc = "idle",
           UNCHANGED <<member, lockLosses, batchFaults>>
    PROVE  Publishing'
  <1>1. PICK b \in Batches : b = coordinator[c]
    BY DEF Publishing, LocksOK
  <1>2. batch[b].status # "absent" /\ (lockLosses = 0 => batch[b].status \in ActiveStatus)
    BY <1>1 DEF Publishing, CoordinatorsOK, LocksOK, ActiveStatus
  <1>3. /\ BatchesOK' /\ ReservationsHold'
        /\ \A d \in Batches : /\ batch'[d].order = batch[d].order
                              /\ batch[d].status # "absent" => batch'[d].status # "absent"
    <2>1. CASE lockHolder = c
      <3>1. PICK status : status = (IF result = "ok" THEN "published" ELSE "failed")
        OBVIOUS
      <3>2. batch' = [batch EXCEPT ![b].status = status]
        BY <1>1, <2>1, <3>1 DEF Conclude
      <3>3. status \in {"failed", "published"} /\ (status = "published" => HasVersion(version, b, batch[b].order))
        BY <1>1, <3>1
      <3>4. /\ BatchesOK' /\ ReservationsHold'
            /\ \A d \in Batches : batch'[d].order = batch[d].order /\ (d # b => batch'[d] = batch[d])
            /\ batch'[b].status = status
        BY <1>2, <3>2, <3>3, WorkStatusMoves
      <3> QED
        BY <3>3, <3>4
    <2>2. CASE lockHolder # c
      <3>1. batch' = batch
        BY <2>2 DEF Conclude
      <3> QED
        BY <3>1 DEF Publishing, BatchesOK, LocksOK, ReservationsHold
    <2> QED
      BY <2>1, <2>2
  <1>4. /\ batchFaults' \in Nat /\ batchFaults <= batchFaults' /\ batchFaults' <= CoordinatorFaults
    BY DEF Publishing, LocksOK
  <1> QED
    BY <1>3, <1>4, ReleasedKeeps DEF Conclude

LEMMA ConcludedKeeps ==
    ASSUME PublicationAssumption, Publishing, NEW c \in Coordinators, Concluded(c)
    PROVE  Publishing'
  <1>1. PICK b \in Batches : b = coordinator[c] /\ coordinator[c] # NoBatch
    BY DEF Concluded, Publishing, LocksOK
  <1>2. c \in Callers
    BY DEF PublicationAssumption
  <1>3. VersionInv' /\ CallMoves(c) /\ call'[c].pc = "idle"
    BY <1>2, ForgetKeeps DEF Concluded, Publishing
  <1>4. call[c].pc = "ok" => HasVersion(version, b, batch[b].order)
    <2> SUFFICES ASSUME call[c].pc = "ok" PROVE HasVersion(version, b, batch[b].order)
      OBVIOUS
    <2>1. call[c].order = batch[b].order /\ batch[b].status # "absent"
      BY <1>1 DEF Publishing, CoordinatorsOK
    <2>2. \E v \in version : v.request = call[c].order.request /\ Fingerprint(v.order) = Fingerprint(call[c].order)
      BY <1>2 DEF Publishing, VersionInv, CallsOK, AnswersHonest
    <2>3. BatchSound(version, batch[b], b) /\ batch[b].order.request = b
      BY <2>1 DEF Publishing, BatchesOK, BatchSound
    <2>4. PICK x : x = batch[b]
      OBVIOUS
    <2> QED
      BY <2>1, <2>2, <2>3, <2>4, AnswerHasVersion DEF Publishing, VersionInv
  <1> QED
    BY <1>1, <1>3, <1>4, ConcludeKeeps DEF Concluded

LEMMA FetchFailsKeeps ==
    ASSUME PublicationAssumption, Publishing, NEW c \in Coordinators, FetchFails(c)
    PROVE  Publishing'
  <1>1. UNCHANGED <<version, call>> /\ call[c].pc = "idle"
    BY DEF FetchFails
  <1>2. VersionInv' /\ CallMoves(c)
    BY <1>1, SameVersions DEF Publishing, VersionInv, CallsOK, AnswersHonest, CallMoves
  <1> QED
    BY <1>1, <1>2, ConcludeKeeps DEF FetchFails

LEMMA CoordinatorCrashKeeps ==
    ASSUME PublicationAssumption, Publishing, NEW c \in Coordinators, CoordinatorCrash(c)
    PROVE  Publishing'
  <1>1. c \in Callers
    BY DEF PublicationAssumption
  <1>2. VersionInv' /\ CallMoves(c) /\ call'[c].pc = "idle"
    BY <1>1, ForgetKeeps DEF CoordinatorCrash, Publishing
  <1>3. BatchesOK' /\ ReservationsHold'
    BY DEF CoordinatorCrash, Publishing, BatchesOK, LocksOK, ReservationsHold
  <1>4. batchFaults' \in Nat /\ batchFaults <= batchFaults' /\ batchFaults' <= CoordinatorFaults
    BY DEF CoordinatorCrash, Publishing, LocksOK, PublicationAssumption
  <1> QED
    BY <1>2, <1>3, <1>4, ReleasedKeeps DEF CoordinatorCrash

LEMMA LoseLockKeeps ==
    ASSUME PublicationAssumption, Publishing, NEW c \in Coordinators, LoseLock(c)
    PROVE  Publishing'
  <1>1. UNCHANGED <<version, call, batch, member, coordinator>>
    BY DEF LoseLock
  <1>2. VersionInv' /\ BatchesOK' /\ CoordinatorsOK'
    BY <1>1 DEF Publishing, VersionInv, CallsOK, AnswersHonest, Versions, BatchesOK, CoordinatorsOK
  <1>3. lockLosses' \in Nat \ {0} /\ batchFaults' \in Nat /\ lockLosses' <= batchFaults' /\ batchFaults' <= CoordinatorFaults
    BY DEF LoseLock, Publishing, LocksOK, PublicationAssumption
  <1>4. LocksOK'
    BY <1>1, <1>3 DEF LoseLock, Publishing, LocksOK, ReservationsHold
  <1> QED
    BY <1>2, <1>4 DEF Publishing

\* Calls of coordinators and clients, while the batches stay.
LEMMA CallsKeepBatches ==
    ASSUME PublicationAssumption, Publishing, NEW c \in Callers, VersionInv', CallMoves(c),
           c \in Coordinators => /\ call[c].pc # "idle" /\ call'[c].order = call[c].order,
           UNCHANGED publicationVars
    PROVE  Publishing'
  <1>1. UNCHANGED <<batch, member, coordinator, lockHolder, lockLosses, batchFaults>>
    BY DEF publicationVars
  <1>2. BatchesOK'
    BY <1>1, BatchesStay DEF Publishing, VersionInv, CallMoves
  <1>3. LocksOK'
    BY <1>1 DEF Publishing, LocksOK, ReservationsHold
  <1>4. \A d \in Coordinators : d # c => call'[d] = call[d]
    BY DEF CallMoves, PublicationAssumption
  <1>5. CoordinatorsOK'
    BY <1>1, <1>4 DEF Publishing, CoordinatorsOK
  <1> QED
    BY <1>2, <1>3, <1>5 DEF Publishing

LEMMA CoordinatorKeeps ==
    ASSUME VersionsAssumption, PublicationAssumption, Publishing, NEW c \in Coordinators,
           CoordinatorWork(c) \/ CoordinatorFault(c)
    PROVE  Publishing'
  <1>1. CASE CallStep(c) /\ UNCHANGED publicationVars
    <2>1. c \in Callers
      BY DEF PublicationAssumption
    <2> QED
      BY <1>1, <2>1, CallStepKeeps, CallsKeepBatches DEF Publishing
  <1> QED
    BY <1>1, TakeBatchKeeps, RegisterKeeps, ConcludedKeeps, FetchFailsKeeps, CoordinatorCrashKeeps, LoseLockKeeps
       DEF CoordinatorWork, CoordinatorFault

\* What clients ask for when they expand a dataset.
LEMMA ExpandKeeps ==
    ASSUME VersionsAssumption, VersionInv, NEW c \in Callers, Expand(c)
    PROVE  VersionInv' /\ CallMoves(c)
  <1>1. PICK request \in ClientRequests, base \in {v.number : v \in VersionsOf(FirstDataset)},
             samples \in Uploads, feedback \in SUBSET FeedbackPhotos :
            Begin(c, Order(request, base, FALSE, samples, feedback))
    BY DEF Expand
  <1>2. PICK order : order = Order(request, base, FALSE, samples, feedback)
    OBVIOUS
  <1>3. samples \in SUBSET AllSamples /\ Training(samples)
    BY DEF Uploads, Sample, AllSamples, Splits, Training, VersionsAssumption
  <1>4. base \in Nat \ {0}
    BY DEF VersionInv, Versions, RowsOK, Row, VersionsOf
  <1>5. request \in AllRequests
    BY DEF VersionsAssumption, AllRequests
  <1>6. /\ order.base = base /\ order.frozen = FALSE /\ order.samples = samples /\ order \in AllOrders
    BY <1>2, <1>3, <1>4, <1>5 DEF Order, AllOrders
  <1>7. OrderSound(version, order)
    BY <1>3, <1>4, <1>6 DEF OrderSound
  <1> QED
    BY <1>1, <1>2, <1>7, BeginKeeps

LEMMA ClientKeeps ==
    ASSUME VersionsAssumption, PublicationAssumption, ScenesAssumption, Publishing, NEW c \in Clients,
           ClientStep(c) \/ CallStep(c), UNCHANGED publicationVars
    PROVE  Publishing'
  <1>1. c \in Callers /\ c \notin Coordinators
    BY DEF VersionsAssumption, ScenesAssumption
  <1>2. VersionInv' /\ CallMoves(c)
    <2>1. CASE CallStep(c)
      BY <1>1, <2>1, CallStepKeeps DEF Publishing
    <2>2. CASE ClientTold(c)
      BY <1>1, <2>2, ForgetKeeps DEF Publishing, ClientTold
    <2>3. CASE Expand(c)
      BY <1>1, <2>3, ExpandKeeps DEF Publishing
    <2> QED
      BY <2>1, <2>2, <2>3 DEF ClientStep
  <1> QED
    BY <1>1, <1>2, CallsKeepBatches

-----------------------------------------------------------------------------
(* The import queue. *)

\* What an upload asks for: a new dataset with its images.
ImportOrder(order) ==
    /\ order \in AllOrders /\ order.request # FirstRequest
    /\ order.base = 0 /\ ~order.frozen /\ OneSample(order.samples)

Live(row) == row.status = "running" /\ row.lease = "live"

JobSound(vs, row) ==
    /\ row.status # "absent" => ImportOrder(row.order)
    /\ row.status = "succeeded" => HasVersion(vs, row.order.request, row.order)

JobsOK ==
    /\ job \in [ImportJobs -> Job]
    /\ consumer \in [Consumers -> [job : ImportJobs \cup {NoJob}, attempt : Nat]]
    /\ importFaults \in 0..ConsumerFaults
    /\ \A j \in ImportJobs : JobSound(version, job[j])
    /\ \A i, j \in ImportJobs : Live(job[i]) /\ Live(job[j]) => i = j

\* A consumer asks for what its job was uploaded for, and for nothing when it has no job.
ConsumersOK ==
    \A c \in Consumers :
        /\ consumer[c] = NoWork => call[c].pc = "idle"
        /\ consumer[c] # NoWork =>
            /\ consumer[c].job \in ImportJobs /\ job[consumer[c].job].status # "absent"
            /\ call[c].pc # "idle" => call[c].order = job[consumer[c].job].order

Importing == VersionInv /\ JobsOK /\ ConsumersOK

LEMMA ImportOrderSound ==
    ASSUME NEW vs, NEW order, ImportOrder(order)
    PROVE  OrderSound(vs, order)
  BY DEF ImportOrder, OrderSound

\* The version that answers for an upload holds its images, whoever saved it.
LEMMA AnswerHasImport ==
    ASSUME NEW vs, Versions(vs), NEW order, ImportOrder(order),
           \E v \in vs : v.request = order.request /\ Fingerprint(v.order) = Fingerprint(order)
    PROVE  HasVersion(vs, order.request, order)
  <1>1. PICK v \in vs : v.request = order.request /\ Fingerprint(v.order) = Fingerprint(order)
    OBVIOUS
  <1>2. v.order.base = 0 /\ v.order.samples = order.samples
    BY <1>1 DEF Fingerprint, ImportOrder
  <1>3. v.content = v.order.samples
    BY <1>1, <1>2 DEF Versions, OrdersOK, ImportOrder
  <1> QED
    BY <1>1, <1>2, <1>3 DEF HasVersion

\* Jobs do not mind new versions.
LEMMA JobsStay ==
    ASSUME JobsOK, Grows(version, version'), UNCHANGED importVars
    PROVE  JobsOK'
  <1>1. \A j \in ImportJobs : JobSound(version', job[j])
    BY DEF JobsOK, JobSound, HasVersion, Grows
  <1>2. UNCHANGED <<job, consumer, importFaults>>
    BY DEF importVars
  <1> QED
    BY <1>1, <1>2 DEF JobsOK

\* One row of the queue changes, and keeps what was uploaded.
LEMMA JobMoves ==
    ASSUME JobsOK, UNCHANGED version, NEW j \in ImportJobs, NEW y \in Job,
           job' = [job EXCEPT ![j] = y], JobSound(version, y),
           Live(y) => \A i \in ImportJobs : i # j => ~Live(job[i])
    PROVE  /\ job' \in [ImportJobs -> Job] /\ job'[j] = y /\ \A i \in ImportJobs : i # j => job'[i] = job[i]
           /\ \A i \in ImportJobs : JobSound(version', job'[i])
           /\ \A i, k \in ImportJobs : Live(job'[i]) /\ Live(job'[k]) => i = k
  <1>1. job' \in [ImportJobs -> Job] /\ job'[j] = y /\ \A i \in ImportJobs : i # j => job'[i] = job[i]
    BY DEF JobsOK
  <1>2. \A i \in ImportJobs : JobSound(version', job'[i])
    BY <1>1 DEF JobsOK
  <1>3. \A i, k \in ImportJobs : Live(job'[i]) /\ Live(job'[k]) => i = k
    BY <1>1 DEF JobsOK
  <1> QED
    BY <1>1, <1>2, <1>3

LEMMA EnqueueKeeps ==
    ASSUME VersionsAssumption, ImportAssumption, Importing, NEW j \in ImportJobs, Enqueue(j)
    PROVE  Importing'
  <1>1. PICK request \in ImportRequests, photo \in UploadPhotos, label \in Labels :
            /\ MayEnqueue(request)
            /\ job' = [job EXCEPT ![j].status = "queued",
                              ![j].order = Order(request, 0, FALSE, {Sample(photo, label, "train")}, {})]
    BY DEF Enqueue
  <1>2. job[j].status = "absent" /\ UNCHANGED <<consumer, importFaults, version, call>> /\ job[j] \in Job
    BY DEF Enqueue, Importing, JobsOK
  <1>3. PICK order : order = Order(request, 0, FALSE, {Sample(photo, label, "train")}, {})
    OBVIOUS
  <1>4. ImportOrder(order)
    <2>1. request # FirstRequest
      BY <1>1 DEF MayEnqueue, Published, Importing, VersionInv, Versions, RowsOK
    <2>2. Sample(photo, label, "train") \in AllSamples
      BY DEF Sample, AllSamples, Splits, VersionsAssumption
    <2>3. OneSample({Sample(photo, label, "train")})
      BY DEF OneSample
    <2>4. request \in AllRequests
      BY DEF ImportAssumption, AllRequests
    <2> QED
      BY <1>3, <2>1, <2>2, <2>3, <2>4 DEF ImportOrder, Order, AllOrders
  <1>5. PICK y : y = [job[j] EXCEPT !.status = "queued", !.order = order]
    OBVIOUS
  <1>6. y \in Job /\ y.status = "queued" /\ y.order = order
    BY <1>2, <1>4, <1>5 DEF Job, ImportOrder
  <1>7. job' = [job EXCEPT ![j] = y]
    BY <1>1, <1>2, <1>3, <1>5 DEF Importing, JobsOK
  <1>8. JobSound(version, y) /\ ~Live(y)
    BY <1>4, <1>6 DEF JobSound, Live
  <1>9. /\ job' \in [ImportJobs -> Job] /\ job'[j] = y /\ \A i \in ImportJobs : i # j => job'[i] = job[i]
        /\ \A i \in ImportJobs : JobSound(version', job'[i])
        /\ \A i, k \in ImportJobs : Live(job'[i]) /\ Live(job'[k]) => i = k
    BY <1>2, <1>6, <1>7, <1>8, JobMoves DEF Importing
  <1>10. VersionInv'
    BY <1>2 DEF Importing, VersionInv, CallsOK, AnswersHonest, Versions
  <1>11. JobsOK'
    BY <1>2, <1>9 DEF Importing, JobsOK
  <1>12. ConsumersOK'
    BY <1>2, <1>9 DEF Importing, ConsumersOK
  <1> QED
    BY <1>10, <1>11, <1>12 DEF Importing

\* The queue moves on and the consumers stay: orders and uploads are what they were.
LEMMA ConsumersStay ==
    ASSUME Importing, NEW j \in ImportJobs, job'[j].order = job[j].order, job'[j].status # "absent",
           \A i \in ImportJobs : i # j => job'[i] = job[i],
           NEW c \in Consumers, c \in Callers, \A d \in Consumers : d # c => call'[d] = call[d] /\ consumer'[d] = consumer[d],
           consumer'[c] = NoWork => call'[c].pc = "idle",
           consumer'[c] # NoWork =>
                /\ consumer'[c].job \in ImportJobs /\ job'[consumer'[c].job].status # "absent"
                /\ call'[c].pc # "idle" => call'[c].order = job'[consumer'[c].job].order
    PROVE  ConsumersOK'
  <1> SUFFICES ASSUME NEW d \in Consumers
               PROVE  /\ consumer'[d] = NoWork => call'[d].pc = "idle"
                      /\ consumer'[d] # NoWork =>
                            /\ consumer'[d].job \in ImportJobs /\ job'[consumer'[d].job].status # "absent"
                            /\ call'[d].pc # "idle" => call'[d].order = job'[consumer'[d].job].order
    BY DEF ConsumersOK
  <1>1. CASE d = c
    BY <1>1
  <1>2. CASE d # c
    <2>1. call'[d] = call[d] /\ consumer'[d] = consumer[d]
      BY <1>2
    <2>2. consumer[d] = NoWork => call[d].pc = "idle"
      BY DEF Importing, ConsumersOK
    <2>3. CASE consumer[d] # NoWork
      <3>1. PICK i \in ImportJobs : i = consumer[d].job
        BY <2>3 DEF Importing, ConsumersOK
      <3>2. job[i].status # "absent" /\ (call[d].pc # "idle" => call[d].order = job[i].order)
        BY <2>3, <3>1 DEF Importing, ConsumersOK
      <3>3. job'[i].status # "absent" /\ job'[i].order = job[i].order
        BY <3>2
      <3> QED
        BY <2>1, <2>3, <3>1, <3>2, <3>3
    <2> QED
      BY <2>1, <2>2, <2>3
  <1> QED
    BY <1>1, <1>2

LEMMA ClaimJobKeeps ==
    ASSUME ImportAssumption, Importing, NEW c \in Consumers, ClaimJob(c)
    PROVE  Importing'
  <1>1. PICK j \in ImportJobs : j = Min(Claimable) /\ j \in Claimable
    <2>1. Claimable \in SUBSET Nat /\ Claimable # {}
      BY DEF ClaimJob, Claimable, ImportAssumption
    <2>2. Min(Claimable) \in Claimable
      BY <2>1, MinIsThere
    <2> QED
      BY <2>2 DEF Claimable
  <1>2. /\ job' = [job EXCEPT ![j].status = "running", ![j].attempt = @ + 1, ![j].lease = "live"]
        /\ \/ consumer' = [consumer EXCEPT ![c] = [job |-> j, attempt |-> job[j].attempt + 1]] /\ importFaults' = importFaults
           \/ importFaults < ConsumerFaults /\ importFaults' = importFaults + 1 /\ consumer' = consumer
        /\ consumer[c] = NoWork /\ ~ImportRunning /\ UNCHANGED <<version, call>>
    BY <1>1 DEF ClaimJob, ImportFault, NoImportFault, versionVars
  <1>3. PICK attempt \in Nat : attempt = job[j].attempt + 1
    BY DEF Importing, JobsOK, Job
  <1>4. PICK y : y = [job[j] EXCEPT !.status = "running", !.attempt = attempt, !.lease = "live"]
    OBVIOUS
  <1>5. job[j] \in Job /\ job[j].status \in {"queued", "running"}
    BY <1>1 DEF Importing, JobsOK, Claimable
  <1>6. y \in Job /\ y.status = "running" /\ y.order = job[j].order
    BY <1>4, <1>5 DEF Job
  <1>7. job' = [job EXCEPT ![j] = y]
    BY <1>2, <1>3, <1>4 DEF Importing, JobsOK
  <1>8. JobSound(version, y)
    BY <1>5, <1>6 DEF JobSound, Importing, JobsOK
  <1>9. \A i \in ImportJobs : ~Live(job[i])
    BY <1>2 DEF ImportRunning, Live
  <1>10. /\ job' \in [ImportJobs -> Job] /\ job'[j] = y /\ \A i \in ImportJobs : i # j => job'[i] = job[i]
         /\ \A i \in ImportJobs : JobSound(version', job'[i])
         /\ \A i, k \in ImportJobs : Live(job'[i]) /\ Live(job'[k]) => i = k
    BY <1>2, <1>6, <1>7, <1>8, <1>9, JobMoves DEF Importing
  <1>11. VersionInv'
    BY <1>2 DEF Importing, VersionInv, CallsOK, AnswersHonest, Versions
  <1>12. /\ consumer' \in [Consumers -> [job : ImportJobs \cup {NoJob}, attempt : Nat]]
         /\ \A d \in Consumers : d # c => consumer'[d] = consumer[d]
         /\ consumer'[c] = NoWork \/ consumer'[c].job = j
         /\ importFaults' \in 0..ConsumerFaults
    BY <1>2, <1>3 DEF Importing, JobsOK, ImportAssumption
  <1>13. JobsOK'
    BY <1>10, <1>12 DEF JobsOK
  <1>14. call[c].pc = "idle" /\ c \in Callers
    BY <1>2 DEF Importing, ConsumersOK, ImportAssumption
  <1>15. ConsumersOK'
    BY <1>2, <1>6, <1>10, <1>12, <1>14, ConsumersStay
  <1> QED
    BY <1>11, <1>13, <1>15 DEF Importing

LEMMA ImportKeeps ==
    ASSUME ImportAssumption, Importing, NEW c \in Consumers, Import(c)
    PROVE  Importing'
  <1>1. PICK j \in ImportJobs : j = consumer[c].job /\ job[j].status # "absent" /\ consumer[c] # NoWork
    BY DEF Import, Importing, ConsumersOK
  <1>2. PICK order : order = job[j].order
    OBVIOUS
  <1>3. Begin(c, order) /\ UNCHANGED <<job, consumer, importFaults>> /\ c \in Callers
    BY <1>1, <1>2 DEF Import, importVars, ImportAssumption
  <1>4. OrderSound(version, order)
    BY <1>1, <1>2, ImportOrderSound DEF Importing, JobsOK, JobSound
  <1>5. VersionInv' /\ CallMoves(c) /\ call'[c].order = order /\ call'[c].pc # "idle"
    BY <1>3, <1>4, BeginKeeps DEF Importing
  <1>6. JobsOK'
    BY <1>3, <1>5, JobsStay DEF Importing, CallMoves, importVars
  <1>7. \A d \in Consumers : d # c => call'[d] = call[d]
    BY <1>5 DEF CallMoves, ImportAssumption
  <1>8. ConsumersOK'
    BY <1>1, <1>2, <1>3, <1>5, <1>7, ConsumersStay
  <1> QED
    BY <1>5, <1>6, <1>8 DEF Importing

LEMMA ImportCallKeeps ==
    ASSUME VersionsAssumption, ImportAssumption, Importing, NEW c \in Consumers,
           consumer[c] # NoWork, CallStep(c), UNCHANGED importVars
    PROVE  Importing'
  <1>1. c \in Callers /\ UNCHANGED <<job, consumer, importFaults>>
    BY DEF ImportAssumption, importVars
  <1>2. /\ VersionInv' /\ CallMoves(c) /\ call'[c].order = call[c].order
        /\ call'[c].pc # "idle" /\ call[c].pc # "idle"
    BY <1>1, CallStepKeeps DEF Importing
  <1>3. PICK j \in ImportJobs : j = consumer[c].job /\ job[j].status # "absent" /\ call[c].order = job[j].order
    BY <1>2 DEF Importing, ConsumersOK
  <1>4. JobsOK'
    BY <1>2, JobsStay DEF Importing, CallMoves
  <1>5. \A d \in Consumers : d # c => call'[d] = call[d]
    BY <1>2 DEF CallMoves, ImportAssumption
  <1>6. ConsumersOK'
    BY <1>1, <1>2, <1>3, <1>5, ConsumersStay
  <1> QED
    BY <1>2, <1>4, <1>6 DEF Importing

\* A consumer stops: its call ends with it and its job may have got an outcome.
LEMMA StoppedKeeps ==
    ASSUME ImportAssumption, Importing, NEW c \in Consumers, consumer[c] # NoWork, Stopped(c), UNCHANGED version,
           importFaults' \in 0..ConsumerFaults, NEW j \in ImportJobs, job' \in [ImportJobs -> Job],
           job'[j].order = job[j].order, job'[j].status # "absent",
           \A i \in ImportJobs : i # j => job'[i] = job[i],
           \A i \in ImportJobs : JobSound(version, job'[i]),
           \A i, k \in ImportJobs : Live(job'[i]) /\ Live(job'[k]) => i = k
    PROVE  Importing'
  <1>1. c \in Callers
    BY DEF ImportAssumption
  <1>2. VersionInv' /\ CallMoves(c) /\ call'[c].pc = "idle"
    BY <1>1, ForgetKeeps DEF Stopped, Importing
  <1>3. /\ consumer' \in [Consumers -> [job : ImportJobs \cup {NoJob}, attempt : Nat]]
        /\ consumer'[c] = NoWork /\ \A d \in Consumers : d # c => consumer'[d] = consumer[d]
    BY DEF Stopped, Importing, JobsOK, NoWork, ImportAssumption
  <1>4. JobsOK'
    BY <1>3 DEF JobsOK
  <1>5. \A d \in Consumers : d # c => call'[d] = call[d]
    BY <1>2 DEF CallMoves, ImportAssumption
  <1>6. ConsumersOK'
    BY <1>1, <1>2, <1>3, <1>5, ConsumersStay
  <1> QED
    BY <1>2, <1>4, <1>6 DEF Importing

LEMMA UnreportedKeeps ==
    ASSUME ImportAssumption, Importing, NEW c \in Consumers, consumer[c] # NoWork, Stopped(c), UNCHANGED <<version, job>>,
           importFaults' \in 0..ConsumerFaults
    PROVE  Importing'
  <1>1. PICK j \in ImportJobs : job[j].status # "absent"
    BY DEF Importing, ConsumersOK
  <1>2. /\ job' \in [ImportJobs -> Job] /\ \A i \in ImportJobs : JobSound(version, job'[i]) /\ job'[i] = job[i]
        /\ \A i, k \in ImportJobs : Live(job'[i]) /\ Live(job'[k]) => i = k
    BY DEF Importing, JobsOK
  <1> QED
    BY <1>1, <1>2, StoppedKeeps

LEMMA FinishImportKeeps ==
    ASSUME ImportAssumption, Importing, NEW c \in Consumers, FinishImport(c)
    PROVE  Importing'
  <1>1. consumer[c] # NoWork /\ Answered(c) /\ Stopped(c) /\ UNCHANGED version /\ c \in Callers
    BY DEF FinishImport, ImportAssumption
  <1>2. importFaults' \in 0..ConsumerFaults
    BY DEF FinishImport, NoImportFault, ImportFault, Importing, JobsOK, ImportAssumption
  <1>3. CASE job' = job
    BY <1>1, <1>2, <1>3, UnreportedKeeps
  <1>4. CASE job' # job
    <2>1. PICK j \in ImportJobs : /\ j = consumer[c].job /\ job[j].status # "absent"
                                  /\ call[c].pc # "idle" => call[c].order = job[j].order
      BY <1>1 DEF Importing, ConsumersOK
    <2>2. PICK status : status = (IF call[c].pc = "ok" THEN "succeeded" ELSE "failed")
      OBVIOUS
    <2>3. job' = [job EXCEPT ![j].status = status, ![j].lease = "none"]
      BY <1>4, <2>1, <2>2 DEF FinishImport
    <2>4. PICK y : y = [job[j] EXCEPT !.status = status, !.lease = "none"]
      OBVIOUS
    <2>5. status \in {"succeeded", "failed"} /\ job[j] \in Job
      BY <2>2 DEF Importing, JobsOK
    <2>6. y \in Job /\ y.status = status /\ y.lease = "none" /\ y.order = job[j].order
      BY <2>4, <2>5 DEF Job
    <2>7. job' = [job EXCEPT ![j] = y]
      BY <2>3, <2>4 DEF Importing, JobsOK
    <2>8. PICK order : order = job[j].order
      OBVIOUS
    <2>9. ImportOrder(order)
      BY <2>1, <2>8 DEF Importing, JobsOK, JobSound
    <2>10. status = "succeeded" => HasVersion(version, order.request, order)
      <3> SUFFICES ASSUME call[c].pc = "ok" PROVE HasVersion(version, order.request, order)
        BY <2>2
      <3>1. call[c].order = order
        BY <2>1, <2>8
      <3>2. \E v \in version : v.request = call[c].order.request /\ Fingerprint(v.order) = Fingerprint(call[c].order)
        BY <1>1 DEF Importing, VersionInv, CallsOK, AnswersHonest
      <3> QED
        BY <2>9, <3>1, <3>2, AnswerHasImport DEF Importing, VersionInv
    <2>11. JobSound(version, y) /\ ~Live(y)
      BY <2>5, <2>6, <2>8, <2>9, <2>10 DEF JobSound, Live
    <2>12. /\ job' \in [ImportJobs -> Job] /\ job'[j] = y /\ \A i \in ImportJobs : i # j => job'[i] = job[i]
           /\ \A i \in ImportJobs : JobSound(version', job'[i])
           /\ \A i, k \in ImportJobs : Live(job'[i]) /\ Live(job'[k]) => i = k
      BY <1>1, <2>6, <2>7, <2>11, JobMoves DEF Importing
    <2> QED
      BY <1>1, <1>2, <2>5, <2>6, <2>12, StoppedKeeps
  <1> QED
    BY <1>3, <1>4

LEMMA LeaseLapsesKeeps ==
    ASSUME ImportAssumption, Importing, NEW j \in ImportJobs, LeaseLapses(j)
    PROVE  Importing'
  <1>1. /\ job[j].status = "running" /\ job' = [job EXCEPT ![j].lease = "lapsed"]
        /\ UNCHANGED <<consumer, version, call>> /\ job[j] \in Job
    BY DEF LeaseLapses, Importing, JobsOK
  <1>2. PICK y : y = [job[j] EXCEPT !.lease = "lapsed"]
    OBVIOUS
  <1>3. y \in Job /\ y.status = "running" /\ y.lease = "lapsed" /\ y.order = job[j].order
    BY <1>1, <1>2 DEF Job
  <1>4. job' = [job EXCEPT ![j] = y]
    BY <1>1, <1>2 DEF Importing, JobsOK
  <1>5. JobSound(version, y) /\ ~Live(y)
    BY <1>1, <1>3 DEF JobSound, Live, Importing, JobsOK
  <1>6. /\ job' \in [ImportJobs -> Job] /\ job'[j] = y /\ \A i \in ImportJobs : i # j => job'[i] = job[i]
        /\ \A i \in ImportJobs : JobSound(version', job'[i])
        /\ \A i, k \in ImportJobs : Live(job'[i]) /\ Live(job'[k]) => i = k
    BY <1>1, <1>3, <1>4, <1>5, JobMoves DEF Importing
  <1>7. importFaults' \in 0..ConsumerFaults
    BY DEF LeaseLapses, NoImportFault, ImportFault, Importing, JobsOK, ImportAssumption
  <1>8. VersionInv'
    BY <1>1 DEF Importing, VersionInv, CallsOK, AnswersHonest, Versions
  <1>9. JobsOK'
    BY <1>1, <1>6, <1>7 DEF Importing, JobsOK
  <1>10. ConsumersOK'
    <2>1. \A i \in ImportJobs : job'[i].order = job[i].order /\ (job[i].status # "absent" => job'[i].status # "absent")
      BY <1>3, <1>6
    <2> QED
      BY <1>1, <2>1 DEF Importing, ConsumersOK
  <1> QED
    BY <1>8, <1>9, <1>10 DEF Importing

LEMMA ImportsKeep ==
    ASSUME VersionsAssumption, ImportAssumption, Importing,
           \/ \E c \in Consumers : ConsumerStep(c) \/ ConsumerCrash(c)
           \/ \E j \in ImportJobs : LeaseLapses(j) \/ Enqueue(j)
    PROVE  Importing'
  <1>1. ASSUME NEW c \in Consumers, HeartbeatFails(c) \/ ConsumerCrash(c) PROVE Importing'
    <2>1. importFaults' \in 0..ConsumerFaults
      BY <1>1 DEF HeartbeatFails, ConsumerCrash, ImportFault, Importing, JobsOK, ImportAssumption
    <2> QED
      BY <1>1, <2>1, UnreportedKeeps DEF HeartbeatFails, ConsumerCrash
  <1> QED
    BY <1>1, ClaimJobKeeps, ImportKeeps, FinishImportKeeps, ImportCallKeeps, LeaseLapsesKeeps, EnqueueKeeps
       DEF ConsumerStep

\* The result of a job is written by the consumer of its latest attempt (Finish).
LEMMA ImportsFence ==
    ASSUME ImportAssumption, Importing,
           \/ \E c \in Consumers : ConsumerStep(c) \/ ConsumerCrash(c)
           \/ \E j \in ImportJobs : LeaseLapses(j) \/ Enqueue(j),
           NEW i \in ImportJobs, job[i].status = "running", job'[i].status \in {"succeeded", "failed"}
    PROVE  \E c \in Consumers : consumer[c] = [job |-> i, attempt |-> job[i].attempt] /\ consumer'[c] = NoWork
  <1>1. job \in [ImportJobs -> Job]
    BY DEF Importing, JobsOK
  <1>2. ASSUME NEW j \in ImportJobs, LeaseLapses(j) \/ Enqueue(j) PROVE FALSE
    <2>1. CASE LeaseLapses(j)
      <3>1. job' = [job EXCEPT ![j].lease = "lapsed"]
        BY <2>1 DEF LeaseLapses
      <3>2. job'[i].status = job[i].status
        BY <1>1, <3>1 DEF Job
      <3> QED
        BY <3>2
    <2>2. CASE Enqueue(j)
      <3>1. PICK order : job' = [job EXCEPT ![j].status = "queued", ![j].order = order]
        BY <2>2 DEF Enqueue
      <3>2. job'[i].status = job[i].status \/ job'[i].status = "queued"
        BY <1>1, <3>1 DEF Job
      <3> QED
        BY <3>2
    <2> QED
      BY <1>2, <2>1, <2>2
  <1>3. ASSUME NEW c \in Consumers, ClaimJob(c) PROVE FALSE
    <2>1. PICK j : job' = [job EXCEPT ![j].status = "running", ![j].attempt = @ + 1, ![j].lease = "live"]
      BY <1>3 DEF ClaimJob
    <2>2. job'[i].status = "running"
      BY <1>1, <2>1 DEF Job
    <2> QED
      BY <2>2
  <1>4. ASSUME NEW c \in Consumers, Import(c) \/ HeartbeatFails(c) \/ ConsumerCrash(c) \/ UNCHANGED importVars
        PROVE  FALSE
    <2>1. job' = job
      BY <1>4 DEF Import, HeartbeatFails, ConsumerCrash, importVars
    <2> QED
      BY <2>1
  <1>5. ASSUME NEW c \in Consumers, FinishImport(c)
        PROVE  consumer[c] = [job |-> i, attempt |-> job[i].attempt] /\ consumer'[c] = NoWork
    <2>1. job' # job /\ Stopped(c)
      BY <1>5 DEF FinishImport
    <2>2. PICK status : job' = [job EXCEPT ![consumer[c].job].status = status, ![consumer[c].job].lease = "none"]
      BY <1>5, <2>1 DEF FinishImport
    <2>3. HoldsLease(c)
      BY <1>5, <2>1 DEF FinishImport
    <2>4. consumer[c].job = i
      <3> SUFFICES ASSUME consumer[c].job # i PROVE FALSE
        OBVIOUS
      <3>1. job'[i] = job[i]
        BY <1>1, <2>2
      <3> QED
        BY <3>1
    <2>5. consumer[c] = [job |-> i, attempt |-> job[i].attempt]
      BY <2>3, <2>4 DEF HoldsLease, Importing, JobsOK
    <2>6. consumer'[c] = NoWork
      BY <2>1 DEF Stopped, Importing, JobsOK
    <2> QED
      BY <2>5, <2>6
  <1> QED
    BY <1>2, <1>3, <1>4, <1>5 DEF ConsumerStep

-----------------------------------------------------------------------------
(* The annotation tasks. *)

\* A row that was not handed out has cost nothing, and one that was has cost once.
TaskSound(row, asked) ==
    /\ row.claims \in {0, 1}
    /\ row.status \in {"absent", "pending", "queued"} => row.claims = 0
    /\ asked <= row.claims
    /\ row.status = "suggested" => asked = 1 /\ row.answeredBy = row.claims

Predicting(w) == taskWorker[w].kind \in {"predict", "called"}

\* A task that is being predicted was handed out to this worker and to no other.
PredictionsOwned ==
    /\ \A w \in TaskWorkers : Predicting(w) =>
        /\ taskWorker[w].doing \in Tasks /\ task[taskWorker[w].doing].claims = 1
        /\ taskWorker[w].kind = "predict" => calls[taskWorker[w].doing] = 0
        /\ taskWorker[w].kind = "called" => calls[taskWorker[w].doing] = 1
    /\ \A w, x \in TaskWorkers : Predicting(w) /\ Predicting(x) /\ taskWorker[w].doing = taskWorker[x].doing => w = x

\* A suggestion in a file came from a call.
FilesSound(files, asked) ==
    \A w \in TaskWorkers : \A f \in files[w] : f.status = "suggested" => asked[f.task] = 1

TasksInv ==
    /\ TasksTypeOK
    /\ \A t \in Tasks : TaskSound(task[t], calls[t])
    /\ PredictionsOwned
    /\ FilesSound(resultFile, calls)

LabelsKept == \A t \in Tasks : task[t].status = "confirmed" => task'[t] = task[t]

\* A step that hands out nothing and asks nobody.
LEMMA QuietKeeps ==
    ASSUME TasksInv, task' \in [Tasks -> Task], UNCHANGED calls,
           \A t \in Tasks : task'[t].claims = task[t].claims /\ TaskSound(task'[t], calls[t]),
           memory' \in [Tasks -> {"none", "due", "waiting", "delivered"}],
           taskFaults' \in 0..WorkerFaults,
           taskWorker' \in [TaskWorkers -> TaskWorker],
           \A w \in TaskWorkers : taskWorker'[w] = taskWorker[w] \/ taskWorker'[w].kind \in {"idle", "index"},
           resultFile' \in [TaskWorkers -> SUBSET ResultFile], FilesSound(resultFile', calls)
    PROVE  TasksInv'
  <1>1. TasksTypeOK'
    BY DEF TasksInv, TasksTypeOK
  <1>2. \A w \in TaskWorkers : Predicting(w)' => taskWorker'[w] = taskWorker[w] /\ Predicting(w)
    BY DEF Predicting
  <1>3. PredictionsOwned'
    <2>1. ASSUME NEW w \in TaskWorkers, Predicting(w)'
          PROVE  /\ taskWorker'[w].doing \in Tasks /\ task'[taskWorker'[w].doing].claims = 1
                 /\ taskWorker'[w].kind = "predict" => calls'[taskWorker'[w].doing] = 0
                 /\ taskWorker'[w].kind = "called" => calls'[taskWorker'[w].doing] = 1
      <3>1. taskWorker'[w] = taskWorker[w] /\ Predicting(w)
        BY <1>2, <2>1
      <3>2. PICK t \in Tasks : t = taskWorker[w].doing
        BY <3>1 DEF TasksInv, PredictionsOwned
      <3>3. /\ task[t].claims = 1
            /\ taskWorker[w].kind = "predict" => calls[t] = 0
            /\ taskWorker[w].kind = "called" => calls[t] = 1
        BY <3>1, <3>2 DEF TasksInv, PredictionsOwned
      <3>4. task'[t].claims = 1
        BY <3>3
      <3> QED
        BY <3>1, <3>2, <3>3, <3>4
    <2>2. ASSUME NEW w \in TaskWorkers, NEW x \in TaskWorkers, Predicting(w)', Predicting(x)',
                 taskWorker'[w].doing = taskWorker'[x].doing
          PROVE  w = x
      BY <1>2, <2>2 DEF TasksInv, PredictionsOwned
    <2> QED
      BY <2>1, <2>2 DEF PredictionsOwned
  <1> QED
    BY <1>1, <1>3 DEF TasksInv

\* A step that changes rows or the index only.
LEMMA RowsKeep ==
    ASSUME TasksInv, task' \in [Tasks -> Task], UNCHANGED <<calls, taskWorker, resultFile>>,
           \A t \in Tasks : task'[t].claims = task[t].claims /\ TaskSound(task'[t], calls[t]),
           memory' \in [Tasks -> {"none", "due", "waiting", "delivered"}],
           taskFaults' \in 0..WorkerFaults
    PROVE  TasksInv'
  <1>1. taskWorker' \in [TaskWorkers -> TaskWorker] /\ resultFile' \in [TaskWorkers -> SUBSET ResultFile]
    BY DEF TasksInv, TasksTypeOK
  <1>2. FilesSound(resultFile', calls)
    BY DEF TasksInv
  <1> QED
    BY <1>1, <1>2, QuietKeeps

LEMMA UploadKeeps ==
    ASSUME TasksInv, NEW t \in Tasks, Upload(t)
    PROVE  TasksInv' /\ LabelsKept
  <1>1. /\ task[t].status = "absent" /\ task' = [task EXCEPT ![t].status = "pending"]
        /\ UNCHANGED <<memory, taskWorker, resultFile, calls, taskFaults>> /\ task \in [Tasks -> Task]
    BY DEF Upload, Add, TasksInv, TasksTypeOK
  <1>2. \A u \in Tasks : TaskSound(task[u], calls[u])
    BY DEF TasksInv
  <1>3. PICK y : y = [task[t] EXCEPT !.status = "pending"]
    OBVIOUS
  <1>4. y \in Task /\ y.status = "pending" /\ y.claims = task[t].claims
    BY <1>1, <1>3 DEF Task
  <1>5. task' \in [Tasks -> Task] /\ task'[t] = y /\ \A u \in Tasks : u # t => task'[u] = task[u]
    BY <1>1, <1>3, <1>4
  <1>6. TaskSound(y, calls[t])
    BY <1>1, <1>2, <1>4 DEF TaskSound
  <1>7. \A u \in Tasks : task'[u].claims = task[u].claims /\ TaskSound(task'[u], calls[u])
    BY <1>2, <1>4, <1>5, <1>6
  <1>8. TasksInv'
    BY <1>1, <1>5, <1>7, RowsKeep DEF TasksInv, TasksTypeOK
  <1> QED
    BY <1>1, <1>5, <1>8 DEF LabelsKept

LEMMA QueueKeeps ==
    ASSUME TasksInv, NEW ts, Queue(ts)
    PROVE  TasksInv' /\ LabelsKept
  <1>1. /\ task' = [t \in Tasks |-> IF t \in ts /\ task[t].status = "pending"
                                        THEN [task[t] EXCEPT !.status = "queued"] ELSE task[t]]
        /\ UNCHANGED <<memory, taskWorker, resultFile, calls, taskFaults>> /\ task \in [Tasks -> Task]
    BY DEF Queue, Queued, TasksInv, TasksTypeOK
  <1>2. ASSUME NEW t \in Tasks
        PROVE  /\ task'[t] \in Task /\ task'[t].claims = task[t].claims /\ TaskSound(task'[t], calls[t])
               /\ task[t].status = "confirmed" => task'[t] = task[t]
    <2>1. TaskSound(task[t], calls[t]) /\ task[t] \in Task
      BY <1>1 DEF TasksInv
    <2>2. CASE task'[t] = task[t]
      BY <2>1, <2>2
    <2>3. CASE task[t].status = "pending" /\ task'[t] = [task[t] EXCEPT !.status = "queued"]
      <3>1. PICK y : y = [task[t] EXCEPT !.status = "queued"]
        OBVIOUS
      <3>2. y \in Task /\ y.status = "queued" /\ y.claims = task[t].claims
        BY <2>1, <3>1 DEF Task
      <3>3. TaskSound(y, calls[t])
        BY <2>1, <2>3, <3>2 DEF TaskSound
      <3> QED
        BY <2>3, <3>1, <3>2, <3>3
    <2> QED
      BY <1>1, <2>2, <2>3
  <1>3. task' \in [Tasks -> Task]
    BY <1>1, <1>2
  <1>4. TasksInv'
    BY <1>1, <1>2, <1>3, RowsKeep DEF TasksInv, TasksTypeOK
  <1> QED
    BY <1>2, <1>4 DEF LabelsKept

LEMMA ConfirmKeeps ==
    ASSUME TasksInv, NEW t \in Tasks, NEW label \in TaskLabels, Confirm(t, label)
    PROVE  TasksInv' /\ LabelsKept
  <1>1. /\ task[t].status \notin {"absent", "queued", "running", "confirmed"}
        /\ task' = [task EXCEPT ![t].status = "confirmed", ![t].label = label]
        /\ memory' = [memory EXCEPT ![t] = IF @ = "none" THEN "due" ELSE @]
        /\ UNCHANGED <<taskWorker, resultFile, calls, taskFaults>> /\ task \in [Tasks -> Task]
    BY DEF Confirm, Confirmable, TasksInv, TasksTypeOK
  <1>2. \A u \in Tasks : TaskSound(task[u], calls[u])
    BY DEF TasksInv
  <1>3. PICK y : y = [task[t] EXCEPT !.status = "confirmed", !.label = label]
    OBVIOUS
  <1>4. y \in Task /\ y.status = "confirmed" /\ y.claims = task[t].claims
    BY <1>1, <1>3 DEF Task
  <1>5. task' \in [Tasks -> Task] /\ task'[t] = y /\ \A u \in Tasks : u # t => task'[u] = task[u]
    BY <1>1, <1>3, <1>4
  <1>6. TaskSound(y, calls[t])
    BY <1>2, <1>4 DEF TaskSound
  <1>7. \A u \in Tasks : task'[u].claims = task[u].claims /\ TaskSound(task'[u], calls[u])
    BY <1>2, <1>4, <1>5, <1>6
  <1>8. memory' \in [Tasks -> {"none", "due", "waiting", "delivered"}] /\ taskFaults' \in 0..WorkerFaults
    BY <1>1 DEF TasksInv, TasksTypeOK
  <1>9. TasksInv'
    BY <1>1, <1>5, <1>7, <1>8, RowsKeep
  <1> QED
    BY <1>1, <1>5, <1>9 DEF LabelsKept

LEMMA LapseKeeps ==
    ASSUME TasksInv, NEW t \in Tasks, Lapse(t)
    PROVE  TasksInv' /\ LabelsKept
  <1>1. /\ task[t].status = "running" /\ task' = [task EXCEPT ![t].lease = "lapsed"]
        /\ UNCHANGED <<memory, taskWorker, resultFile, calls, taskFaults>> /\ task \in [Tasks -> Task]
    BY DEF Lapse, TasksInv, TasksTypeOK
  <1>2. \A u \in Tasks : TaskSound(task[u], calls[u])
    BY DEF TasksInv
  <1>3. PICK y : y = [task[t] EXCEPT !.lease = "lapsed"]
    OBVIOUS
  <1>4. y \in Task /\ y.status = "running" /\ y.claims = task[t].claims
    BY <1>1, <1>3 DEF Task
  <1>5. task' \in [Tasks -> Task] /\ task'[t] = y /\ \A u \in Tasks : u # t => task'[u] = task[u]
    BY <1>1, <1>3, <1>4
  <1>6. TaskSound(y, calls[t])
    BY <1>2, <1>4 DEF TaskSound
  <1>7. \A u \in Tasks : task'[u].claims = task[u].claims /\ TaskSound(task'[u], calls[u])
    BY <1>2, <1>4, <1>5, <1>6
  <1>8. TasksInv'
    BY <1>1, <1>5, <1>7, RowsKeep DEF TasksInv, TasksTypeOK
  <1> QED
    BY <1>1, <1>5, <1>8 DEF LabelsKept

LEMMA MinutePassesKeeps ==
    ASSUME TasksInv, NEW t \in Tasks, MinutePasses(t)
    PROVE  TasksInv' /\ LabelsKept
  <1>1. UNCHANGED <<task, taskWorker, resultFile, calls, taskFaults>> /\ memory' = [memory EXCEPT ![t] = "due"]
    BY DEF MinutePasses
  <1>2. memory' \in [Tasks -> {"none", "due", "waiting", "delivered"}]
    BY <1>1 DEF TasksInv, TasksTypeOK
  <1>3. \A u \in Tasks : task'[u].claims = task[u].claims /\ TaskSound(task'[u], calls[u])
    BY <1>1 DEF TasksInv
  <1>4. TasksInv'
    BY <1>1, <1>2, <1>3, RowsKeep DEF TasksInv, TasksTypeOK
  <1> QED
    BY <1>1, <1>4 DEF LabelsKept

LEMMA FaultsStay ==
    ASSUME TasksInv, TasksAssumption, NoTaskFault \/ TaskFault
    PROVE  taskFaults' \in 0..WorkerFaults
  BY DEF TasksInv, TasksTypeOK, NoTaskFault, TaskFault, TasksAssumption

\* A result that is delivered, perhaps again (Finish).
LEMMA DeliverKeeps ==
    ASSUME TasksAssumption, TasksInv, NEW w \in TaskWorkers, Deliver(w)
    PROVE  TasksInv' /\ LabelsKept
  <1>1. PICK f \in resultFile[w] :
            /\ Finish(f)
            /\ \/ resultFile' = [resultFile EXCEPT ![w] = @ \ {f}] /\ NoTaskFault
               \/ TaskFault /\ UNCHANGED resultFile
            /\ UNCHANGED <<memory, taskWorker, calls>>
    BY DEF Deliver
  <1>2. /\ task \in [Tasks -> Task] /\ resultFile \in [TaskWorkers -> SUBSET ResultFile]
        /\ memory \in [Tasks -> {"none", "due", "waiting", "delivered"}] /\ taskWorker \in [TaskWorkers -> TaskWorker]
        /\ \A u \in Tasks : TaskSound(task[u], calls[u])
        /\ FilesSound(resultFile, calls)
    BY DEF TasksInv, TasksTypeOK
  <1>3. PICK t \in Tasks : t = f.task /\ f.token \in Nat /\ f.status \in Outcomes
    <2>1. f \in ResultFile
      BY <1>2
    <2> QED
      BY <2>1 DEF ResultFile
  <1>4. f.status = "suggested" => calls[t] = 1
    BY <1>2, <1>3 DEF FilesSound
  <1>5. taskFaults' \in 0..WorkerFaults
    BY <1>1, FaultsStay
  <1>6. resultFile' \in [TaskWorkers -> SUBSET ResultFile] /\ FilesSound(resultFile', calls)
    <2>1. resultFile' \in [TaskWorkers -> SUBSET ResultFile] /\ \A x \in TaskWorkers : resultFile'[x] \subseteq resultFile[x]
      BY <1>1, <1>2
    <2> QED
      BY <1>2, <2>1 DEF FilesSound
  <1>7. /\ task' \in [Tasks -> Task] /\ LabelsKept
        /\ \A u \in Tasks : task'[u].claims = task[u].claims /\ TaskSound(task'[u], calls[u])
    <2>1. CASE task' = task
      BY <1>2, <2>1 DEF LabelsKept
    <2>2. CASE task' # task
      <3>1. /\ task[t].claims = f.token /\ task[t].status = "running"
            /\ task' = [task EXCEPT ![t].status = f.status, ![t].lease = "none", ![t].answeredBy = f.token]
        BY <1>1, <1>3, <2>2 DEF Finish, Accepts
      <3>2. PICK y : y = [task[t] EXCEPT !.status = f.status, !.lease = "none", !.answeredBy = f.token]
        OBVIOUS
      <3>3. y \in Task /\ y.status = f.status /\ y.answeredBy = f.token /\ y.claims = task[t].claims
        <4>1. PICK old, s, k : old = task[t] /\ s = f.status /\ k = f.token
          OBVIOUS
        <4>2. old \in Task /\ s \in Outcomes /\ k \in Nat /\ y = [old EXCEPT !.status = s, !.lease = "none", !.answeredBy = k]
          BY <1>2, <1>3, <3>2, <4>1
        <4>3. y \in Task /\ y.status = s /\ y.answeredBy = k /\ y.claims = old.claims
          BY <4>2 DEF Task, Outcomes
        <4> QED
          BY <4>1, <4>3
      <3>4. task' = [task EXCEPT ![t] = y]
        BY <1>2, <3>1, <3>2
      <3>5. task' \in [Tasks -> Task] /\ task'[t] = y /\ \A u \in Tasks : u # t => task'[u] = task[u]
        <4>1. task \in [Tasks -> Task] /\ y \in Task
          BY <1>2, <3>3
        <4> QED
          BY <3>4, <4>1
      <3>6. TaskSound(y, calls[t])
        BY <1>2, <1>3, <1>4, <3>1, <3>3 DEF TaskSound, Outcomes
      <3> QED
        BY <1>2, <3>1, <3>3, <3>5, <3>6 DEF LabelsKept
    <2> QED
      BY <2>1, <2>2
  <1> QED
    BY <1>1, <1>2, <1>5, <1>6, <1>7, QuietKeeps

\* A worker whose step leaves the rows alone.
LEMMA WorkersKeep ==
    ASSUME TasksInv, UNCHANGED <<task, calls>>, taskFaults' \in 0..WorkerFaults,
           memory' \in [Tasks -> {"none", "due", "waiting", "delivered"}],
           NEW w \in TaskWorkers, NEW x \in TaskWorker, taskWorker' = [taskWorker EXCEPT ![w] = x],
           x.kind \in {"idle", "index"},
           resultFile' \in [TaskWorkers -> SUBSET ResultFile], FilesSound(resultFile', calls)
    PROVE  TasksInv' /\ LabelsKept
  <1>1. /\ taskWorker' \in [TaskWorkers -> TaskWorker]
        /\ \A v \in TaskWorkers : taskWorker'[v] = taskWorker[v] \/ taskWorker'[v].kind \in {"idle", "index"}
    BY DEF TasksInv, TasksTypeOK
  <1>2. /\ task' \in [Tasks -> Task]
        /\ \A t \in Tasks : task'[t].claims = task[t].claims /\ TaskSound(task'[t], calls[t])
    BY DEF TasksInv, TasksTypeOK
  <1>3. TasksInv'
    BY <1>1, <1>2, QuietKeeps
  <1> QED
    BY <1>3 DEF LabelsKept

\* The oldest of some tasks is one of them.
LEMMA OldestIsThere ==
    ASSUME TasksAssumption, NEW due \in SUBSET Tasks, due # {}
    PROVE  (CHOOSE t \in due : \A u \in due : t <= u) \in due
  <1>1. due \in SUBSET Nat
    BY DEF TasksAssumption
  <1>2. \E t \in due : \A u \in due : t <= u
    BY <1>1, LeastNatural
  <1> QED
    BY <1>2

IdleIsWorker == IdleTaskWorker \in TaskWorker /\ IdleTaskWorker.kind = "idle"

LEMMA IdleTyped == IdleIsWorker
  BY DEF IdleIsWorker, IdleTaskWorker, TaskWorker

LEMMA IndexingKeeps ==
    ASSUME TasksAssumption, TasksInv, NEW w \in TaskWorkers,
           AskMemory(w) \/ Index(w) \/ WorkerCrash(w) \/ Record(w)
    PROVE  TasksInv' /\ LabelsKept
  <1>1. /\ resultFile \in [TaskWorkers -> SUBSET ResultFile] /\ FilesSound(resultFile, calls)
        /\ memory \in [Tasks -> {"none", "due", "waiting", "delivered"}] /\ taskWorker \in [TaskWorkers -> TaskWorker]
        /\ taskFaults \in 0..WorkerFaults
    BY DEF TasksInv, TasksTypeOK
  <1>2. CASE AskMemory(w)
    <2>1. MemoryNext \in Tasks
      <3> DEFINE due == {t \in Tasks : task[t].status = "confirmed" /\ memory[t] = "due"}
      <3>1. due # {} /\ MemoryNext = CHOOSE t \in due : \A u \in due : t <= u
        BY <1>2 DEF AskMemory, MemoryNext
      <3> QED
        BY <3>1, OldestIsThere
    <2>2. PICK x : x = [doing |-> MemoryNext, kind |-> "index", token |-> 0]
      OBVIOUS
    <2>3. x \in TaskWorker /\ x.kind = "index"
      BY <2>1, <2>2 DEF TaskWorker
    <2>4. taskWorker' = [taskWorker EXCEPT ![w] = x] /\ UNCHANGED <<task, memory, resultFile, calls, taskFaults>>
      BY <1>2, <2>2 DEF AskMemory
    <2> QED
      BY <1>1, <2>3, <2>4, WorkersKeep
  <1>3. CASE Index(w)
    <2>1. /\ taskWorker' = [taskWorker EXCEPT ![w] = IdleTaskWorker] /\ UNCHANGED <<task, resultFile, calls>>
          /\ NoTaskFault \/ TaskFault
          /\ \/ memory' = memory
             \/ \E ok \in BOOLEAN : memory' = [memory EXCEPT ![taskWorker[w].doing] = Acknowledged(taskWorker[w].doing, ok)]
      BY <1>3 DEF Index
    <2>2. memory' \in [Tasks -> {"none", "due", "waiting", "delivered"}]
      BY <1>1, <2>1 DEF Acknowledged
    <2>3. taskFaults' \in 0..WorkerFaults
      BY <2>1, FaultsStay
    <2> QED
      BY <1>1, <2>1, <2>2, <2>3, WorkersKeep, IdleTyped DEF IdleIsWorker
  <1>4. CASE WorkerCrash(w)
    <2>1. taskFaults' \in 0..WorkerFaults
      BY <1>4, FaultsStay DEF WorkerCrash
    <2> QED
      BY <1>1, <1>4, <2>1, WorkersKeep, IdleTyped DEF IdleIsWorker, WorkerCrash
  <1>5. CASE Record(w)
    <2>1. PICK status \in Outcomes :
            /\ taskWorker[w].kind = "predict" => status # "suggested"
            /\ resultFile' = [resultFile EXCEPT ![w] = @ \cup
                   {[task |-> taskWorker[w].doing, token |-> taskWorker[w].token, status |-> status]}]
      BY <1>5 DEF Record
    <2>2. /\ taskWorker' = [taskWorker EXCEPT ![w] = IdleTaskWorker] /\ UNCHANGED <<task, memory, calls, taskFaults>>
          /\ taskWorker[w].kind \in {"predict", "called"}
      BY <1>5 DEF Record
    <2>3. taskWorker[w].doing \in Tasks /\ (taskWorker[w].kind = "called" => calls[taskWorker[w].doing] = 1)
      BY <2>2 DEF TasksInv, PredictionsOwned, Predicting
    <2>4. PICK f : f = [task |-> taskWorker[w].doing, token |-> taskWorker[w].token, status |-> status]
      OBVIOUS
    <2>5. f \in ResultFile /\ (f.status = "suggested" => calls[f.task] = 1)
      <3>1. f \in ResultFile /\ f.status = status /\ f.task = taskWorker[w].doing
        BY <1>1, <2>3, <2>4 DEF ResultFile, TaskWorker
      <3> QED
        BY <2>1, <2>2, <2>3, <3>1
    <2>6. /\ resultFile' \in [TaskWorkers -> SUBSET ResultFile]
          /\ \A v \in TaskWorkers : resultFile'[v] \subseteq resultFile[v] \cup {f}
      BY <1>1, <2>1, <2>4, <2>5
    <2>7. FilesSound(resultFile', calls)
      BY <1>1, <2>5, <2>6 DEF FilesSound
    <2> QED
      BY <1>1, <2>2, <2>6, <2>7, WorkersKeep, IdleTyped DEF IdleIsWorker
  <1> QED
    BY <1>2, <1>3, <1>4, <1>5

\* The model is asked (Call).
LEMMA CallKeeps ==
    ASSUME TasksInv, NEW w \in TaskWorkers, Call(w)
    PROVE  TasksInv' /\ LabelsKept
  <1>1. /\ taskWorker[w].kind = "predict" /\ taskWorker' = [taskWorker EXCEPT ![w].kind = "called"]
        /\ UNCHANGED <<task, memory, resultFile, taskFaults>>
        /\ task \in [Tasks -> Task] /\ calls \in [Tasks -> Nat] /\ taskWorker \in [TaskWorkers -> TaskWorker]
        /\ resultFile \in [TaskWorkers -> SUBSET ResultFile]
    BY DEF Call, TasksInv, TasksTypeOK
  <1>2. PICK t \in Tasks : t = taskWorker[w].doing /\ task[t].claims = 1 /\ calls[t] = 0
    BY <1>1 DEF TasksInv, PredictionsOwned, Predicting
  <1>3. calls' = [calls EXCEPT ![t] = @ + 1]
    BY <1>2 DEF Call
  <1>4. calls' \in [Tasks -> Nat] /\ calls'[t] = 1 /\ \A u \in Tasks : u # t => calls'[u] = calls[u]
    BY <1>1, <1>2, <1>3
  <1>5. PICK x : x = [taskWorker[w] EXCEPT !.kind = "called"]
    OBVIOUS
  <1>6. x \in TaskWorker /\ x.kind = "called" /\ x.doing = t
    BY <1>1, <1>2, <1>5 DEF TaskWorker
  <1>7. taskWorker' \in [TaskWorkers -> TaskWorker] /\ taskWorker'[w] = x /\ \A v \in TaskWorkers : v # w => taskWorker'[v] = taskWorker[v]
    BY <1>1, <1>5, <1>6
  <1>8. TasksTypeOK'
    BY <1>1, <1>4, <1>7 DEF TasksInv, TasksTypeOK
  <1>9. \A u \in Tasks : TaskSound(task[u], calls'[u])
    <2>1. TaskSound(task[t], 1)
      BY <1>2 DEF TasksInv, TaskSound
    <2> QED
      BY <1>4, <2>1 DEF TasksInv
  \* Nobody else predicts this task.
  <1>10. \A v \in TaskWorkers : v # w /\ Predicting(v) => taskWorker[v].doing # t
    BY <1>1, <1>2 DEF TasksInv, PredictionsOwned, Predicting
  <1>11. PredictionsOwned'
    <2>1. ASSUME NEW v \in TaskWorkers, Predicting(v)'
          PROVE  /\ taskWorker'[v].doing \in Tasks /\ task'[taskWorker'[v].doing].claims = 1
                 /\ taskWorker'[v].kind = "predict" => calls'[taskWorker'[v].doing] = 0
                 /\ taskWorker'[v].kind = "called" => calls'[taskWorker'[v].doing] = 1
      <3>1. CASE v = w
        BY <1>1, <1>2, <1>4, <1>6, <1>7, <3>1
      <3>2. CASE v # w
        <4>1. taskWorker'[v] = taskWorker[v] /\ Predicting(v)
          BY <1>7, <2>1, <3>2 DEF Predicting
        <4>2. PICK u \in Tasks : u = taskWorker[v].doing
          BY <4>1 DEF TasksInv, PredictionsOwned
        <4>3. /\ task[u].claims = 1
              /\ taskWorker[v].kind = "predict" => calls[u] = 0
              /\ taskWorker[v].kind = "called" => calls[u] = 1
          BY <4>1, <4>2 DEF TasksInv, PredictionsOwned
        <4>4. calls'[u] = calls[u]
          BY <1>4, <1>10, <3>2, <4>1, <4>2
        <4> QED
          BY <1>1, <4>1, <4>2, <4>3, <4>4
      <3> QED
        BY <3>1, <3>2
    <2>2. ASSUME NEW v \in TaskWorkers, NEW z \in TaskWorkers, Predicting(v)', Predicting(z)',
                 taskWorker'[v].doing = taskWorker'[z].doing
          PROVE  v = z
      <3>1. \A y \in TaskWorkers : y # w /\ Predicting(y)' => Predicting(y) /\ taskWorker'[y].doing = taskWorker[y].doing
        BY <1>7 DEF Predicting
      <3>2. \A y \in TaskWorkers : y # w /\ Predicting(y)' => taskWorker'[y].doing # taskWorker'[w].doing
        BY <1>6, <1>7, <1>10, <3>1
      <3>3. CASE v # w /\ z # w
        BY <2>2, <3>1, <3>3 DEF TasksInv, PredictionsOwned
      <3> QED
        BY <2>2, <3>2, <3>3
    <2> QED
      BY <2>1, <2>2 DEF PredictionsOwned
  <1>12. FilesSound(resultFile', calls')
    <2> SUFFICES ASSUME NEW v \in TaskWorkers, NEW f \in resultFile[v], f.status = "suggested" PROVE calls'[f.task] = 1
      BY <1>1 DEF FilesSound
    <2>1. f.task \in Tasks /\ calls[f.task] = 1
      BY <1>1 DEF TasksInv, FilesSound, ResultFile
    <2> QED
      BY <1>4, <2>1
  <1>13. TasksInv'
    BY <1>1, <1>8, <1>9, <1>11, <1>12 DEF TasksInv
  <1> QED
    BY <1>1, <1>13 DEF LabelsKept

\* What Claim makes of the rows before it hands out one of them.
LEMMA ExpiredKeeps ==
    ASSUME TasksInv, NEW t \in Tasks
    PROVE  /\ Expired(task[t]) \in Task /\ Expired(task[t]).claims = task[t].claims
           /\ Expired(task[t]).status = "queued" => task[t].status = "queued"
           /\ TaskSound(Expired(task[t]), calls[t])
           /\ task[t].status = "confirmed" => Expired(task[t]) = task[t]
  <1>1. task[t] \in Task /\ TaskSound(task[t], calls[t])
    BY DEF TasksInv, TasksTypeOK
  <1>2. CASE task[t].status = "running" /\ task[t].lease = "lapsed"
    <2>1. PICK y : y = [task[t] EXCEPT !.status = "unknown"]
      OBVIOUS
    <2>2. y \in Task /\ y.status = "unknown" /\ y.claims = task[t].claims
      BY <1>1, <2>1 DEF Task
    <2>3. TaskSound(y, calls[t])
      BY <1>1, <2>2 DEF TaskSound
    <2>4. Expired(task[t]) = y
      BY <1>2, <2>1 DEF Expired
    <2> QED
      BY <1>2, <2>2, <2>3, <2>4
  <1>3. CASE ~(task[t].status = "running" /\ task[t].lease = "lapsed")
    <2>1. Expired(task[t]) = task[t]
      BY <1>3 DEF Expired
    <2> QED
      BY <1>1, <2>1
  <1> QED
    BY <1>2, <1>3

\* A claim that finds nothing to hand out (Claim).
LEMMA ClaimNothingKeeps ==
    ASSUME TasksAssumption, TasksInv, NEW w \in TaskWorkers, AskClaim(w),
           task' = [t \in Tasks |-> Expired(task[t])]
    PROVE  TasksInv' /\ LabelsKept
  <1>1. /\ task' \in [Tasks -> Task] /\ LabelsKept
        /\ \A t \in Tasks : task'[t].claims = task[t].claims /\ TaskSound(task'[t], calls[t])
    BY ExpiredKeeps DEF LabelsKept
  <1>2. \A t \in Tasks : task[t].claims \in Nat
    BY DEF TasksInv, TasksTypeOK, Task
  <1>3. {t \in Tasks : task'[t].claims > task[t].claims} = {}
    <2> SUFFICES ASSUME NEW t \in Tasks, task'[t].claims > task[t].claims PROVE FALSE
      OBVIOUS
    <2>1. task'[t].claims = task[t].claims /\ task[t].claims \in Nat
      BY <1>1, <1>2
    <2> QED
      BY <2>1
  <1>4. /\ taskWorker' = [taskWorker EXCEPT ![w] = IdleTaskWorker] /\ NoTaskFault
        /\ UNCHANGED <<memory, resultFile, calls>>
    BY <1>3 DEF AskClaim
  <1>5. taskFaults' \in 0..WorkerFaults
    BY <1>4, FaultsStay
  <1>6. /\ taskWorker' \in [TaskWorkers -> TaskWorker]
        /\ \A v \in TaskWorkers : taskWorker'[v] = taskWorker[v] \/ taskWorker'[v].kind \in {"idle", "index"}
    BY <1>4, IdleTyped DEF TasksInv, TasksTypeOK, IdleIsWorker
  <1>7. /\ memory' \in [Tasks -> {"none", "due", "waiting", "delivered"}]
        /\ resultFile' \in [TaskWorkers -> SUBSET ResultFile] /\ FilesSound(resultFile', calls) /\ UNCHANGED calls
    BY <1>4 DEF TasksInv, TasksTypeOK
  <1> QED
    BY <1>1, <1>5, <1>6, <1>7, QuietKeeps

\* A task that is queued was not handed out before.
LEMMA QueuedIsNew ==
    ASSUME TasksInv, NEW t \in Tasks, task[t].status = "queued"
    PROVE  task[t].claims = 0 /\ calls[t] = 0
  <1>1. TaskSound(task[t], calls[t]) /\ calls[t] \in Nat
    BY DEF TasksInv, TasksTypeOK
  <1> QED
    BY <1>1 DEF TaskSound

\* A claim that hands out a task that nobody was handed before.
LEMMA ClaimTaskKeeps ==
    ASSUME TasksAssumption, TasksInv, NEW w \in TaskWorkers, AskClaim(w),
           NEW next \in Tasks, task[next].status = "queued",
           NEW y \in Task, y.status = "running", y.claims = 1,
           task' = [t \in Tasks |-> IF t = next THEN y ELSE Expired(task[t])]
    PROVE  TasksInv' /\ LabelsKept
  <1>1. task[next].claims = 0 /\ calls[next] = 0
    BY QueuedIsNew
  <1>2. task'[next] = y /\ \A t \in Tasks : t # next => task'[t] = Expired(task[t])
    OBVIOUS
  <1>3. /\ task' \in [Tasks -> Task]
        /\ \A t \in Tasks : t # next => task'[t].claims = task[t].claims /\ TaskSound(task'[t], calls[t])
    BY <1>2, ExpiredKeeps
  <1>4. TaskSound(y, calls[next])
    <2>1. TaskSound(y, 0)
      BY DEF TaskSound
    <2> QED
      BY <1>1, <2>1
  <1>5. LabelsKept
    BY <1>2, ExpiredKeeps DEF LabelsKept
  <1>6. \A t \in Tasks : task[t].claims \in Nat
    BY DEF TasksInv, TasksTypeOK, Task
  <1>7. {t \in Tasks : task'[t].claims > task[t].claims} = {next}
    <2>1. task'[next].claims > task[next].claims
      BY <1>1, <1>2
    <2>2. \A t \in Tasks : t # next => ~(task'[t].claims > task[t].claims)
      BY <1>3, <1>6
    <2> QED
      BY <2>1, <2>2
  <1>8. PICK x : x = [doing |-> next, kind |-> "predict", token |-> 1]
    OBVIOUS
  <1>9. x \in TaskWorker /\ x.doing = next /\ x.kind = "predict"
    BY <1>8 DEF TaskWorker
  <1>10. /\ taskWorker' = [taskWorker EXCEPT ![w] = x] \/ UNCHANGED taskWorker
         /\ NoTaskFault \/ TaskFault
         /\ UNCHANGED <<memory, resultFile, calls>>
    <2>1. (CHOOSE t \in {next} : TRUE) = next
      OBVIOUS
    <2> QED
      BY <1>2, <1>7, <1>8, <2>1 DEF AskClaim
  <1>11. taskFaults' \in 0..WorkerFaults
    BY <1>10, FaultsStay
  <1>12. taskWorker \in [TaskWorkers -> TaskWorker]
    BY DEF TasksInv, TasksTypeOK
  <1>13. taskWorker' \in [TaskWorkers -> TaskWorker] /\ \A v \in TaskWorkers : taskWorker'[v] = taskWorker[v] \/ (v = w /\ taskWorker'[v] = x)
    BY <1>9, <1>10, <1>12
  <1>14. TasksTypeOK'
    BY <1>3, <1>10, <1>11, <1>13 DEF TasksInv, TasksTypeOK
  <1>15. \A t \in Tasks : TaskSound(task'[t], calls'[t])
    BY <1>2, <1>3, <1>4, <1>10
  \* Nobody predicts the task that is handed out.
  <1>16. \A v \in TaskWorkers : Predicting(v) => taskWorker[v].doing # next
    BY <1>1 DEF TasksInv, PredictionsOwned
  <1>17. ASSUME NEW v \in TaskWorkers, Predicting(v)'
         PROVE  (taskWorker'[v] = x /\ v = w) \/ (taskWorker'[v] = taskWorker[v] /\ Predicting(v))
    BY <1>13, <1>17 DEF Predicting
  <1>18. PredictionsOwned'
    <2>1. ASSUME NEW v \in TaskWorkers, Predicting(v)'
          PROVE  /\ taskWorker'[v].doing \in Tasks /\ task'[taskWorker'[v].doing].claims = 1
                 /\ taskWorker'[v].kind = "predict" => calls'[taskWorker'[v].doing] = 0
                 /\ taskWorker'[v].kind = "called" => calls'[taskWorker'[v].doing] = 1
      <3>1. CASE taskWorker'[v] = x
        BY <1>1, <1>2, <1>9, <1>10, <3>1
      <3>2. CASE taskWorker'[v] = taskWorker[v] /\ Predicting(v)
        <4>1. PICK u \in Tasks : u = taskWorker[v].doing
          BY <3>2 DEF TasksInv, PredictionsOwned
        <4>2. /\ task[u].claims = 1
              /\ taskWorker[v].kind = "predict" => calls[u] = 0
              /\ taskWorker[v].kind = "called" => calls[u] = 1
          BY <3>2, <4>1 DEF TasksInv, PredictionsOwned
        <4>3. task'[u].claims = 1
          BY <1>3, <1>16, <3>2, <4>1, <4>2
        <4> QED
          BY <1>10, <3>2, <4>1, <4>2, <4>3
      <3> QED
        BY <1>17, <2>1, <3>1, <3>2
    <2>2. ASSUME NEW v \in TaskWorkers, NEW z \in TaskWorkers, Predicting(v)', Predicting(z)',
                 taskWorker'[v].doing = taskWorker'[z].doing
          PROVE  v = z
      BY <1>9, <1>16, <1>17, <2>2 DEF TasksInv, PredictionsOwned
    <2> QED
      BY <2>1, <2>2 DEF PredictionsOwned
  <1>19. FilesSound(resultFile', calls')
    BY <1>10 DEF TasksInv
  <1>20. TasksInv'
    BY <1>14, <1>15, <1>18, <1>19 DEF TasksInv
  <1> QED
    BY <1>5, <1>20

LEMMA AskClaimKeeps ==
    ASSUME TasksAssumption, TasksInv, NEW w \in TaskWorkers, AskClaim(w)
    PROVE  TasksInv' /\ LabelsKept
  <1>1. PICK rows : rows = [t \in Tasks |-> Expired(task[t])]
    OBVIOUS
  <1>2. PICK next : next = NextQueued(rows)
    OBVIOUS
  <1>3. next = NoTask \/ (next \in Tasks /\ rows[next].status = "queued")
    <2> DEFINE queued == {t \in Tasks : rows[t].status = "queued"}
    <2>1. next = IF queued = {} THEN NoTask ELSE CHOOSE t \in queued : \A u \in queued : t <= u
      BY <1>2 DEF NextQueued
    <2>2. queued # {} => next \in queued
      BY <2>1, OldestIsThere
    <2> QED
      BY <2>1, <2>2
  <1>4. task' = [t \in Tasks |->
                    IF t = next THEN [rows[t] EXCEPT !.status = "running", !.claims = @ + 1, !.lease = "live"]
                                ELSE rows[t]]
    BY <1>1, <1>2 DEF AskClaim, Claim
  <1>5. CASE next = NoTask
    <2>1. NoTask \notin Tasks
      BY DEF TasksAssumption, NoTask
    <2>2. task' = [t \in Tasks |-> Expired(task[t])]
      BY <1>1, <1>4, <1>5, <2>1
    <2> QED
      BY <2>2, ClaimNothingKeeps
  <1>6. CASE next \in Tasks /\ rows[next].status = "queued"
    <2>1. rows[next] \in Task /\ rows[next].claims = task[next].claims /\ task[next].status = "queued"
      BY <1>1, <1>6, ExpiredKeeps
    <2>2. rows[next].claims = 0
      BY <1>6, <2>1, QueuedIsNew
    <2>3. PICK k : k = rows[next].claims + 1
      OBVIOUS
    <2>4. PICK y : y = [rows[next] EXCEPT !.status = "running", !.claims = k, !.lease = "live"]
      OBVIOUS
    <2>5. k = 1
      BY <2>2, <2>3
    <2>6. y \in Task /\ y.status = "running" /\ y.claims = 1
      BY <2>1, <2>4, <2>5 DEF Task
    <2>7. [rows[next] EXCEPT !.status = "running", !.claims = @ + 1, !.lease = "live"] = y
      BY <2>3, <2>4
    <2>8. task' = [t \in Tasks |-> IF t = next THEN y ELSE Expired(task[t])]
      BY <1>1, <1>4, <2>7
    <2> QED
      BY <1>6, <2>1, <2>6, <2>8, ClaimTaskKeeps
  <1> QED
    BY <1>3, <1>5, <1>6

\* What happens to the tasks, in one place.
TasksMove ==
    \/ \E w \in TaskWorkers : WorkerStep(w) \/ WorkerCrash(w)
    \/ \E t \in Tasks : Lapse(t) \/ MinutePasses(t)
    \/ UserTaskStep

LEMMA TasksKeep ==
    ASSUME TasksAssumption, TasksInv, TasksMove
    PROVE  TasksInv' /\ LabelsKept
  <1>1. ASSUME NEW w \in TaskWorkers, WorkerStep(w) \/ WorkerCrash(w) PROVE TasksInv' /\ LabelsKept
    BY <1>1, DeliverKeeps, AskClaimKeeps, IndexingKeeps, CallKeeps DEF WorkerStep
  <1>2. CASE UserTaskStep
    BY <1>2, UploadKeeps, QueueKeeps, ConfirmKeeps DEF UserTaskStep, QueueAll
  <1> QED
    BY <1>1, <1>2, LapseKeeps, MinutePassesKeeps DEF TasksMove

LEMMA TasksBegin ==
    ASSUME TasksAssumption, TasksInit
    PROVE  TasksInv
  <1>1. /\ NewTask \in Task /\ NewTask.status = "absent" /\ NewTask.claims = 0
        /\ IdleTaskWorker \in TaskWorker /\ IdleTaskWorker.kind = "idle"
    BY DEF NewTask, Task, IdleTaskWorker, TaskWorker
  <1>2. TasksTypeOK
    BY <1>1 DEF TasksInit, TasksTypeOK, TasksAssumption
  <1>3. \A t \in Tasks : TaskSound(task[t], calls[t])
    BY <1>1 DEF TasksInit, TaskSound
  <1>4. PredictionsOwned /\ FilesSound(resultFile, calls)
    BY <1>1 DEF TasksInit, PredictionsOwned, Predicting, FilesSound
  <1> QED
    BY <1>2, <1>3, <1>4 DEF TasksInv

LEMMA TasksPaidOnce ==
    ASSUME TasksInv
    PROVE  PaidOnce
  BY DEF TasksInv, TasksTypeOK, TaskSound, Task, PaidOnce

-----------------------------------------------------------------------------
(* The whole. *)

\* The parts that a scene does not play rest on nothing but the versions.
DataInv ==
    /\ TasksInv /\ VersionInv /\ BatchesOK /\ LocksOK /\ JobsOK
    /\ scene \in {"publishing", "expanding"} => CoordinatorsOK
    /\ scene = "importing" => ConsumersOK

BatchesMove ==
    \/ \E c \in Coordinators : CoordinatorWork(c) \/ CoordinatorFault(c)
    \/ \E b \in Batches : UserStep(b)
    \/ \E c \in Clients : (ClientStep(c) \/ CallStep(c)) /\ UNCHANGED publicationVars

ImportsMove ==
    \/ \E c \in Consumers : ConsumerStep(c) \/ ConsumerCrash(c)
    \/ \E j \in ImportJobs : LeaseLapses(j) \/ Enqueue(j)

\* Only the calls save versions.
LEMMA VersionsGrow ==
    ASSUME VersionsAssumption, PublicationAssumption, ImportAssumption, VersionInv, BatchesMove \/ ImportsMove
    PROVE  Grows(version, version')
  <1>1. CASE UNCHANGED version
    BY <1>1, SameVersions
  <1>2. CASE version' # version
    <2>1. \E c \in Callers : CallStep(c)
      <3>1. ASSUME NEW b \in Batches PROVE ~UserStep(b)
        BY <1>2 DEF UserStep, versionVars
      <3>2. ASSUME NEW c \in Coordinators, CoordinatorWork(c) \/ CoordinatorFault(c) PROVE CallStep(c)
        BY <1>2, <3>2 DEF CoordinatorWork, CoordinatorFault, TakeBatch, Register, Begin, Concluded, FetchFails,
                          CoordinatorCrash, LoseLock
      <3>3. ASSUME NEW c \in Clients, ClientStep(c) PROVE FALSE
        BY <1>2, <3>3 DEF ClientStep, Expand, Begin, ClientTold
      <3>4. ASSUME NEW c \in Consumers, ConsumerStep(c) \/ ConsumerCrash(c) PROVE CallStep(c)
        BY <1>2, <3>4 DEF ConsumerStep, ConsumerCrash, ClaimJob, Import, Begin, HeartbeatFails, FinishImport, versionVars
      <3>5. ASSUME NEW j \in ImportJobs, LeaseLapses(j) \/ Enqueue(j) PROVE FALSE
        BY <1>2, <3>5 DEF LeaseLapses, Enqueue
      <3>6. Coordinators \subseteq Callers /\ Clients \subseteq Callers /\ Consumers \subseteq Callers
        BY DEF VersionsAssumption, PublicationAssumption, ImportAssumption
      <3>7. CASE BatchesMove
        BY <3>1, <3>2, <3>3, <3>6, <3>7 DEF BatchesMove
      <3>8. CASE ImportsMove
        BY <3>4, <3>5, <3>6, <3>8 DEF ImportsMove
      <3> QED
        BY <3>7, <3>8
    <2> QED
      BY <2>1, CallStepKeeps DEF CallMoves
  <1> QED
    BY <1>1, <1>2

LEMMA BatchesKeep ==
    ASSUME VersionsAssumption, PublicationAssumption, ImportAssumption, ScenesAssumption,
           Publishing, BatchesMove, JobsOK, UNCHANGED importVars
    PROVE  Publishing' /\ JobsOK'
  <1>1. Publishing'
    BY UserStepKeeps, CoordinatorKeeps, ClientKeeps DEF BatchesMove
  <1>2. JobsOK'
    BY VersionsGrow, JobsStay DEF Publishing
  <1> QED
    BY <1>1, <1>2

LEMMA JobsKeep ==
    ASSUME VersionsAssumption, PublicationAssumption, ImportAssumption,
           Importing, ImportsMove, BatchesOK, LocksOK, UNCHANGED publicationVars
    PROVE  Importing' /\ BatchesOK' /\ LocksOK'
  <1>1. Importing'
    BY ImportsKeep DEF ImportsMove
  <1>2. UNCHANGED <<batch, member, coordinator, lockHolder, lockLosses, batchFaults>>
    BY DEF publicationVars
  <1>3. BatchesOK'
    BY <1>1, <1>2, VersionsGrow, BatchesStay DEF Importing, VersionInv
  <1>4. LocksOK'
    BY <1>2 DEF LocksOK, ReservationsHold
  <1> QED
    BY <1>1, <1>3, <1>4

\* What rests.
LEMMA TasksRest ==
    ASSUME TasksInv, UNCHANGED taskVars
    PROVE  TasksInv' /\ LabelsKept
  <1>1. UNCHANGED <<task, memory, taskWorker, resultFile, calls, taskFaults>>
    BY DEF taskVars
  <1>2. TasksInv'
    BY <1>1 DEF TasksInv, TasksTypeOK, PredictionsOwned, Predicting
  <1> QED
    BY <1>1, <1>2 DEF LabelsKept

LEMMA VersionsRest ==
    ASSUME VersionInv, BatchesOK, LocksOK, JobsOK, UNCHANGED <<versionVars, publicationVars, importVars>>
    PROVE  /\ VersionInv' /\ BatchesOK' /\ LocksOK' /\ JobsOK'
           /\ (CoordinatorsOK => CoordinatorsOK') /\ (ConsumersOK => ConsumersOK')
  <1>1. /\ UNCHANGED <<version, call, batch, member, coordinator, lockHolder, lockLosses, batchFaults>>
        /\ UNCHANGED <<job, consumer, importFaults>>
    BY DEF versionVars, publicationVars, importVars
  <1>2. VersionInv'
    BY <1>1, SameVersions DEF VersionInv, CallsOK, AnswersHonest
  <1>3. BatchesOK' /\ JobsOK'
    BY <1>1 DEF BatchesOK, JobsOK
  <1>4. LocksOK'
    BY <1>1 DEF LocksOK, ReservationsHold
  <1> QED
    BY <1>1, <1>2, <1>3, <1>4 DEF CoordinatorsOK, ConsumersOK

\* A step of the platform is a step of one part, and the others rest.
LEMMA DataMoves ==
    ASSUME ScenesAssumption, [DataNext]_dataVars
    PROVE  /\ UNCHANGED scene
           /\ \/ TasksMove /\ UNCHANGED <<versionVars, publicationVars, importVars>>
              \/ scene \in {"publishing", "expanding"} /\ BatchesMove /\ UNCHANGED <<taskVars, importVars>>
              \/ scene = "importing" /\ ImportsMove /\ UNCHANGED <<taskVars, publicationVars>>
              \/ UNCHANGED <<taskVars, versionVars, publicationVars, importVars>>
  <1>1. CASE UNCHANGED dataVars
    BY <1>1 DEF dataVars
  <1>2. CASE SystemStep
    <2>1. RivalCoordinators \subseteq Coordinators
      BY DEF ScenesAssumption
    <2> QED
      BY <1>2, <2>1 DEF SystemStep, Annotates, Publishes, Imports, TasksMove, BatchesMove, ImportsMove
  <1>3. CASE OutsideStep
    <2>1. RivalBatches \subseteq Batches
      BY DEF ScenesAssumption
    <2> QED
      BY <1>3, <2>1 DEF OutsideStep, Annotates, Publishes, Imports, TasksMove, BatchesMove, ImportsMove
  <1> QED
    BY <1>1, <1>2, <1>3 DEF DataNext

LEMMA DataKeeps ==
    ASSUME TasksAssumption, VersionsAssumption, PublicationAssumption, ImportAssumption, ScenesAssumption,
           DataInv, [DataNext]_dataVars
    PROVE  DataInv' /\ LabelsKept
  <1>1. UNCHANGED scene
    BY DataMoves
  <1>2. CASE TasksMove /\ UNCHANGED <<versionVars, publicationVars, importVars>>
    BY <1>1, <1>2, TasksKeep, VersionsRest DEF DataInv
  <1>3. CASE scene \in {"publishing", "expanding"} /\ BatchesMove /\ UNCHANGED <<taskVars, importVars>>
    <2>1. Publishing' /\ JobsOK'
      BY <1>3, BatchesKeep DEF DataInv, Publishing
    <2> QED
      BY <1>1, <1>3, <2>1, TasksRest DEF DataInv, Publishing
  <1>4. CASE scene = "importing" /\ ImportsMove /\ UNCHANGED <<taskVars, publicationVars>>
    <2>1. Importing' /\ BatchesOK' /\ LocksOK'
      BY <1>4, JobsKeep DEF DataInv, Importing
    <2> QED
      BY <1>1, <1>4, <2>1, TasksRest DEF DataInv, Importing
  <1>5. CASE UNCHANGED <<taskVars, versionVars, publicationVars, importVars>>
    BY <1>1, <1>5, TasksRest, VersionsRest DEF DataInv
  <1> QED
    BY <1>2, <1>3, <1>4, <1>5, DataMoves

LEMMA DataBegins ==
    ASSUME TasksAssumption, VersionsAssumption, PublicationAssumption, ImportAssumption, DataInit
    PROVE  DataInv
  <1>1. TasksInv /\ VersionInv
    BY TasksBegin, VersionsBegin DEF DataInit
  <1>2. NoOrder \in AllOrders
    BY DEF NoOrder, Order, AllOrders, AllRequests, FirstRequest
  <1>3. BatchesOK
    <2>1. PICK x : x = [status |-> "absent", order |-> NoOrder, sources |-> {}]
      OBVIOUS
    <2>2. x \in Batch /\ x.status = "absent" /\ x.order = NoOrder
      BY <1>2, <2>1 DEF Batch
    <2>3. batch = [b \in Batches |-> x]
      BY <2>1 DEF DataInit, PublicationInit
    <2> QED
      BY <2>2, <2>3 DEF BatchesOK, BatchSound
  <1>4. LocksOK
    BY DEF DataInit, PublicationInit, LocksOK, ReservationsHold, PublicationAssumption, BatchesOK, ReservedStatus, ActiveStatus
  <1>5. JobsOK
    <2>1. PICK x : x = [status |-> "absent", order |-> NoOrder, attempt |-> 0, lease |-> "none"]
      OBVIOUS
    <2>2. x \in Job /\ x.status = "absent"
      BY <1>2, <2>1 DEF Job
    <2>3. job = [j \in ImportJobs |-> x]
      BY <2>1 DEF DataInit, ImportInit
    <2>4. consumer \in [Consumers -> [job : ImportJobs \cup {NoJob}, attempt : Nat]] /\ importFaults \in 0..ConsumerFaults
      BY DEF DataInit, ImportInit, NoWork, ImportAssumption
    <2> QED
      BY <2>2, <2>3, <2>4 DEF JobsOK, JobSound, Live
  <1>6. \A c \in Callers : call[c].pc = "idle"
    BY DEF DataInit, VersionsInit, NoCall
  <1>7. CoordinatorsOK /\ ConsumersOK
    BY <1>6 DEF DataInit, PublicationInit, ImportInit, CoordinatorsOK, ConsumersOK, PublicationAssumption, ImportAssumption
  <1> QED
    BY <1>1, <1>3, <1>4, <1>5, <1>7 DEF DataInv

\* The data side keeps its invariant: versions that stay sound, orders whose base never
\* changes, batches and jobs that find their version, and tasks that are handed out once.
THEOREM DataInvariance == DataSpec => []DataInv
  <1> USE TasksAssumption, VersionsAssumption, PublicationAssumption, ImportAssumption, ScenesAssumption
  <1>1. DataInit => DataInv
    BY DataBegins
  <1>2. DataInv /\ [DataNext]_dataVars => DataInv'
    BY DataKeeps
  <1> QED
    BY <1>1, <1>2, PTL DEF DataSpec

\* Every class that a batch adds images to has one of them to train with (SplitLabels).
LEMMA ClassesTrained ==
    ASSUME DataInv
    PROVE  AddedClassesTrained
  <1> SUFFICES ASSUME NEW b \in Batches
               PROVE  Trained(batch[b].order.samples \ BaseContent(batch[b].order.base))
    BY DEF AddedClassesTrained, Trained
  <1>1. BatchSound(version, batch[b], b)
    BY DEF DataInv, BatchesOK
  <1>2. BaseContent(batch[b].order.base) = ContentAt(version, batch[b].order.base)
    BY FirstDatasetNames DEF BaseContent, ContentAt
  <1>3. CASE batch[b].status = "absent"
    <2>1. batch[b].order.samples = {}
      BY <1>1, <1>3 DEF BatchSound, NoOrder, Order
    <2> QED
      BY <2>1 DEF Trained
  <1>4. CASE batch[b].status # "absent"
    BY <1>1, <1>2, <1>4 DEF BatchSound
  <1> QED
    BY <1>3, <1>4

\* However calls, clients and coordinators overlap, are repeated, crash or lose their lock:
\* the versions of a dataset are numbered without gap, merged on the latest and published
\* once, keep every sample they are evaluated with, and train with what they add.
THEOREM DatasetsAreSound == DataSpec => []DatasetsSound
  <1>1. DataInv => DatasetsSound
    BY VersionInvImplies, ClassesTrained DEF DataInv, DatasetsSound
  <1> QED
    BY <1>1, DataInvariance, PTL

\* Whoever is told that something was published finds exactly that, callers, batches and
\* imports, whoever saved it; and reserved sources belong to one batch as long as no
\* session was lost.
THEOREM OutcomesAreHonest == DataSpec => []OutcomesHonest
  <1>1. ASSUME DataInv PROVE OutcomesHonest
    <2>1. AnswersHonest /\ ReservationsHold
      BY <1>1, VersionInvImplies DEF DataInv, LocksOK
    <2>2. PublishedAsPreviewed
      BY <1>1 DEF DataInv, BatchesOK, BatchSound, HasVersion, PublishedAsPreviewed
    <2>3. ImportsHonest
      BY <1>1 DEF DataInv, JobsOK, JobSound, HasVersion, ImportsHonest
    <2> QED
      BY <2>1, <2>2, <2>3 DEF OutcomesHonest
  <1> QED
    BY <1>1, DataInvariance, PTL

\* The paid model is asked once about a task, whatever crashes, lapses or is delivered
\* again, and a label that a person confirmed is never changed (Claim, Finish, Confirm).
THEOREM TasksAreSound == DataSpec => TasksSound
  <1> USE TasksAssumption, VersionsAssumption, PublicationAssumption, ImportAssumption, ScenesAssumption
  <1>1. DataInv => PaidOnce
    BY TasksPaidOnce DEF DataInv
  <1>2. DataInv /\ [DataNext]_dataVars => [\A t \in Tasks : task[t].status = "confirmed" => task'[t] = task[t]]_taskVars
    BY DataKeeps DEF LabelsKept
  <1> QED
    BY <1>1, <1>2, DataInvariance, PTL DEF DataSpec, TasksSound, ConfirmationKept

\* One import runs at a time, and its result is written by the consumer of its latest
\* attempt, never by one whose lease lapsed (Claim, Finish).
THEOREM ImportsAreFenced == DataSpec => ImportsFenced
  <1> USE TasksAssumption, VersionsAssumption, PublicationAssumption, ImportAssumption, ScenesAssumption
  <1>1. ASSUME DataInv PROVE OneImportRuns
    <2> DEFINE running == {j \in ImportJobs : job[j].status = "running" /\ job[j].lease = "live"}
    <2>1. \A i, j \in running : i = j
      BY <1>1 DEF DataInv, JobsOK, Live
    <2> HIDE DEF running
    <2>2. Cardinality(running) <= 1
      <3>1. CASE running = {}
        BY <3>1, FS_EmptySet
      <3>2. CASE running # {}
        <4>1. PICK j \in running : TRUE
          BY <3>2
        <4>2. running = {j}
          BY <2>1, <4>1
        <4>3. Cardinality({j}) = 1
          BY FS_Singleton, Zenon
        <4> QED
          BY <4>2, <4>3
      <3> QED
        BY <3>1, <3>2
    <2> QED
      BY <2>2 DEF OneImportRuns, running
  <1>2. ASSUME DataInv, [DataNext]_dataVars
        PROVE  [\A j \in ImportJobs : job[j].status = "running" /\ job'[j].status \in {"succeeded", "failed"} =>
                    \E c \in Consumers : /\ consumer[c] = [job |-> j, attempt |-> job[j].attempt]
                                         /\ consumer'[c] = NoWork]_<<job, consumer>>
    <2>1. CASE scene = "importing" /\ ImportsMove
      BY <1>2, <2>1, ImportsFence DEF DataInv, Importing, ImportsMove
    <2>2. CASE UNCHANGED importVars
      BY <2>2 DEF importVars
    <2> QED
      BY <1>2, <2>1, <2>2, DataMoves
  <1> QED
    BY <1>1, <1>2, DataInvariance, PTL DEF DataSpec, ImportsFenced, StaleConsumersFenced

\* Tasks, versions, calls, batches, jobs and those who work on them keep their types, and
\* the faults their bounds.
THEOREM DataTypesCorrect == DataSpec => []DataTypeOK
  <1>1. ASSUME DataInv PROVE DataTypeOK
    <2>1. TasksTypeOK /\ VersionsTypeOK
      BY <1>1, VersionInvImplies DEF DataInv, TasksInv
    <2>2. PublicationTypeOK
      BY <1>1, PublicationAssumption DEF DataInv, BatchesOK, LocksOK, PublicationTypeOK, PublicationAssumption
    <2>3. ImportTypeOK
      BY <1>1 DEF DataInv, JobsOK, ImportTypeOK
    <2> QED
      BY <2>1, <2>2, <2>3 DEF DataTypeOK
  <1> QED
    BY <1>1, DataInvariance, PTL

=============================================================================
