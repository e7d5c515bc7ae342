-------------------------- MODULE ModelServing_proofs --------------------------
(***************************************************************************)
(* Proofs about the models of the platform, for any number of models,      *)
(* precisions, registry calls, predictions, policies and feedback.         *)
(*                                                                         *)
(* Releases: a call remembers the revision that it read, and every write   *)
(* makes a new one; the dataset's lock keeps the number that a publication *)
(* computed current until it is written.  Predictions: the share lock      *)
(* keeps the status that was checked until the commit.  Test errors: the   *)
(* counts of classes and pairs are sums over the same cells of a matrix.   *)
(***************************************************************************)
EXTENDS ModelServing, FiniteSetTheorems, TLAPS

-----------------------------------------------------------------------------
(* The inductive invariant of the registry. *)

\* What a call knows of the row that it works on.
SeenOK(call, row) ==
    /\ call.seen.revision <= row.revision
    /\ call.seen.revision = row.revision =>
          /\ call.seen.status = row.status /\ call.seen.release = row.release
          /\ call.op = "publish" => \A e \in row.exports : e.precision # call.precision
    /\ call.op \in {"publish", "archive"} => call.seen.status # "archived"
    /\ call.op = "stage" => call.seen.status = "candidate"
    /\ call.op = "publish" => call.precision \in Precisions

CallsReady ==
    \A c \in Publishers :
        /\ publisher[c].step # "idle" => publisher[c].model \in Models /\ SeenOK(publisher[c], model[publisher[c].model])
        /\ publisher[c].step = "locked" => publisher[c].op = "publish" /\ datasetLock = c

ExportsPublished ==
    \A m \in Models : model[m].exports # {} => model[m].status \in {"production", "archived"}

\* The released models are finitely many, and their numbers are theirs alone.
ReleasesNumbered ==
    /\ IsFiniteSet(Released)
    /\ \A m \in Released : model[m].release.sequence \in 1..Cardinality(Released)
    /\ \A k \in 1..Cardinality(Released) : \E m \in Released : model[m].release.sequence = k
    /\ \A m, l \in Released : model[m].release.sequence = model[l].release.sequence => m = l
    /\ \A m \in Released : model[m].release.plan = ModelPlan[m]

NumbersFollow ==
    \A m, l \in Released : Follows(m, l) =>
        model[m].release.number = Raised(model[l].release.number, ModelPlan[m] # ModelPlan[l],
                                         TrainedOn[m] # TrainedOn[l])

\* The release that comes next, for the model m.
Fresh(next, m) ==
    /\ next.sequence = Cardinality(Released) + 1
    /\ next.plan = ModelPlan[m]
    /\ \A l \in Released : model[l].release.sequence = Cardinality(Released) =>
          next.number = Raised(model[l].release.number, ModelPlan[m] # ModelPlan[l], TrainedOn[m] # TrainedOn[l])

NextReady ==
    \A c \in Publishers : publisher[c].step = "locked" =>
        IF publisher[c].seen.release.sequence > 0 THEN publisher[c].next = publisher[c].seen.release
        ELSE Fresh(publisher[c].next, publisher[c].model)

RegistryInv ==
    /\ ModelsTypeOK /\ CallsReady /\ ExportsPublished /\ PublishedOnce
    /\ ReleasesNumbered /\ NumbersFollow /\ NextReady

-----------------------------------------------------------------------------
(* Release numbers. *)

\* A raised number is a number.
LEMMA RaisedType ==
    ASSUME NEW number \in Nat \X Nat \X Nat, NEW p \in BOOLEAN, NEW d \in BOOLEAN
    PROVE  Raised(number, p, d) \in Nat \X Nat \X Nat
  BY DEF Raised

\* The last release is the one with the highest number.
LEMMA LatestIsLast ==
    ASSUME ModelsTypeOK, ReleasesNumbered, Released # {}
    PROVE  /\ LatestRelease \in Released
           /\ model[LatestRelease].release.sequence = Cardinality(Released)
  <1> DEFINE n == Cardinality(Released)
  <1>1. n \in Nat \ {0}
    BY FS_CardinalityType, FS_EmptySet DEF ReleasesNumbered
  <1>2. PICK m \in Released : model[m].release.sequence = n
    BY <1>1 DEF ReleasesNumbered
  <1>3. \A k \in Released : model[k].release.sequence \in 1..n
    BY DEF ReleasesNumbered
  <1>4. \A k \in Released : model[k].release.sequence <= model[m].release.sequence
    BY <1>1, <1>2, <1>3
  <1> HIDE DEF n
  <1>5. LatestRelease \in Released /\ \A k \in Released : model[k].release.sequence <= model[LatestRelease].release.sequence
    BY <1>4 DEF LatestRelease
  <1>6. model[LatestRelease].release.sequence = n
    BY <1>1, <1>2, <1>3, <1>5
  <1> QED
    BY <1>5, <1>6 DEF n

\* NextRelease gives an unnumbered model the number that comes next.
LEMMA NextIsFresh ==
    ASSUME ModelsTypeOK, ReleasesNumbered, NEW m \in Models, NEW seen \in Seen, seen.release.sequence = 0
    PROVE  NextRelease(m, seen) \in ReleaseRow /\ Fresh(NextRelease(m, seen), m)
  <1>1. CASE Released = {}
    <2>1. NextRelease(m, seen) = [number |-> <<1, 0, 0>>, sequence |-> 1, plan |-> ModelPlan[m]]
      BY <1>1 DEF NextRelease
    <2>2. Cardinality(Released) = 0
      BY <1>1, FS_EmptySet
    <2> QED
      BY <1>1, <2>1, <2>2 DEF Fresh, ReleaseRow
  <1>2. CASE Released # {}
    <2> DEFINE l == LatestRelease
    <2> DEFINE n == Cardinality(Released)
    <2>1. l \in Released /\ model[l].release.sequence = n
      BY <1>2, LatestIsLast
    <2>2. n \in Nat
      BY FS_CardinalityType DEF ReleasesNumbered
    <2>3. l \in Models /\ model[l].release \in ReleaseRow
      BY <2>1 DEF Released, ModelsTypeOK, ModelRow
    <2>4. model[l].release.plan = ModelPlan[l]
      BY <2>1 DEF ReleasesNumbered
    <2> DEFINE number == Raised(model[l].release.number, ModelPlan[m] # ModelPlan[l], TrainedOn[m] # TrainedOn[l])
    <2>5. NextRelease(m, seen) = [number |-> number, sequence |-> n + 1, plan |-> ModelPlan[m]]
      BY <1>2, <2>1, <2>4 DEF NextRelease
    <2>6. number \in Nat \X Nat \X Nat
      BY <2>3, RaisedType DEF ReleaseRow
    <2>7. \A k \in Released : model[k].release.sequence = n => k = l
      BY <2>1 DEF ReleasesNumbered
    <2> HIDE DEF number, l, n
    <2>8. NextRelease(m, seen) \in ReleaseRow
      BY <2>2, <2>5, <2>6 DEF ReleaseRow
    <2>9. /\ NextRelease(m, seen).sequence = n + 1
          /\ NextRelease(m, seen).plan = ModelPlan[m]
          /\ NextRelease(m, seen).number = number
      BY <2>5
    <2>10. \A k \in Released : model[k].release.sequence = n =>
             number = Raised(model[k].release.number, ModelPlan[m] # ModelPlan[k], TrainedOn[m] # TrainedOn[k])
      BY <2>7 DEF number
    <2> QED
      BY <2>8, <2>9, <2>10 DEF Fresh, n
  <1> QED
    BY <1>1, <1>2

-----------------------------------------------------------------------------
(* A call of the registry, step by step. *)

\* What a call that starts is going to remember.
Remembered(op, m, precision, a) ==
    [IdleCall EXCEPT !.step = "read", !.op = op, !.model = m, !.precision = precision,
                     !.alias = a, !.seen = [status |-> model[m].status, revision |-> model[m].revision,
                                             release |-> model[m].release]]

\* A call that is idle is a call.
LEMMA IdleIsCall == IdleCall \in Call
  BY DEF IdleCall, Call, Seen, Statuses, ReleaseRow, Unreleased

\* Rows have what a call copies from them.
LEMMA RememberedType ==
    ASSUME ModelsTypeOK, NEW m \in Models, NEW op \in {"publish", "stage", "archive", "alias"},
           NEW precision \in Precisions \cup {"none"}, NEW a \in {"none", "champion", "challenger"}
    PROVE  LET call == Remembered(op, m, precision, a) IN
           /\ call \in Call
           /\ call.step = "read" /\ call.op = op /\ call.model = m /\ call.precision = precision
           /\ call.seen.status = model[m].status /\ call.seen.revision = model[m].revision
           /\ call.seen.release = model[m].release
  <1>1. model[m] \in ModelRow
    BY DEF ModelsTypeOK
  <1>2. PICK s : s = [status |-> model[m].status, revision |-> model[m].revision, release |-> model[m].release]
    OBVIOUS
  <1>3. s \in Seen
    BY <1>1, <1>2 DEF ModelRow, Seen
  <1>4. s.status = model[m].status /\ s.revision = model[m].revision /\ s.release = model[m].release
    BY <1>2
  <1>5. Remembered(op, m, precision, a) =
          [step |-> "read", op |-> op, model |-> m, precision |-> precision, alias |-> a, seen |-> s,
           next |-> Unreleased]
    <2>1. Remembered(op, m, precision, a) =
            [IdleCall EXCEPT !.step = "read", !.op = op, !.model = m, !.precision = precision, !.alias = a, !.seen = s]
      BY <1>2 DEF Remembered
    <2>2. PICK i : i = IdleCall.seen
      OBVIOUS
    <2>3. IdleCall = [step |-> "idle", op |-> "none", model |-> NoModel, precision |-> "none",
                      alias |-> "none", seen |-> i, next |-> Unreleased]
      BY <2>2 DEF IdleCall
    <2> HIDE DEF IdleCall
    <2> QED
      BY <2>1, <2>3
  <1>6. Unreleased \in ReleaseRow
    BY DEF Unreleased, ReleaseRow
  <1> QED
    BY <1>3, <1>4, <1>5, <1>6 DEF Call

\* A request of the registry remembers a row, and may be made.
LEMMA RequestRemembers ==
    ASSUME NEW c \in Publishers, RegistryRequest(c)
    PROVE  /\ publisher[c].step = "idle"
           /\ UNCHANGED <<model, alias, datasetLock, shareLock>>
           /\ \E m \in Models, op \in {"publish", "stage", "archive", "alias"},
                 precision \in Precisions \cup {"none"}, a \in {"none", "champion", "challenger"} :
                 /\ publisher' = [publisher EXCEPT ![c] = Remembered(op, m, precision, a)]
                 /\ op = "publish" => precision \in Precisions /\ Publishable(model[m], precision)
                 /\ op = "archive" => model[m].status # "archived"
                 /\ op = "stage" => model[m].status = "candidate"
  <1>1. ASSUME NEW m \in Models, NEW p \in Formats[m], PublishPrecision(c, m, p)
        PROVE  /\ p \in Precisions /\ Publishable(model[m], p) /\ Begin(c, "publish", m, p, "none")
    BY <1>1, CallsAssumption DEF PublishPrecision
  <1>2. ASSUME NEW m \in Models, Promote(c, m)
        PROVE  model[m].status = "candidate" /\ Begin(c, "stage", m, "none", "none")
    BY <1>2 DEF Promote
  <1>3. ASSUME NEW m \in Models, Archive(c, m)
        PROVE  model[m].status # "archived" /\ Begin(c, "archive", m, "none", "none")
    BY <1>3 DEF Archive
  <1>4. ASSUME NEW m \in Models, NEW a \in {"champion", "challenger"}, SetAlias(c, a, m)
        PROVE  Begin(c, "alias", m, "none", a)
    BY <1>4 DEF SetAlias
  <1>5. PICK m \in Models, op \in {"publish", "stage", "archive", "alias"},
             precision \in Precisions \cup {"none"}, a \in {"none", "champion", "challenger"} :
             /\ Begin(c, op, m, precision, a)
             /\ op = "publish" => precision \in Precisions /\ Publishable(model[m], precision)
             /\ op = "archive" => model[m].status # "archived"
             /\ op = "stage" => model[m].status = "candidate"
    BY <1>1, <1>2, <1>3, <1>4 DEF RegistryRequest
  <1>6. /\ publisher[c].step = "idle"
        /\ UNCHANGED <<model, alias, datasetLock, shareLock>>
        /\ publisher' = [publisher EXCEPT ![c] = Remembered(op, m, precision, a)]
    BY <1>5 DEF Begin, Remembered
  <1> QED
    BY <1>5, <1>6

\* Rows, aliases, calls and locks keep their types.
LEMMA ModelsTypeRequest ==
    ASSUME ModelsTypeOK, NEW c \in Publishers, RegistryRequest(c)
    PROVE  ModelsTypeOK'
  <1>1. PICK m \in Models, op \in {"publish", "stage", "archive", "alias"},
             precision \in Precisions \cup {"none"}, a \in {"none", "champion", "challenger"} :
             publisher' = [publisher EXCEPT ![c] = Remembered(op, m, precision, a)]
    BY RequestRemembers
  <1>2. PICK call \in Call : call = Remembered(op, m, precision, a)
    BY RememberedType
  <1>3. publisher' \in [Publishers -> Call]
    BY <1>1, <1>2 DEF ModelsTypeOK
  <1> QED
    BY <1>3, RequestRemembers DEF ModelsTypeOK

LEMMA ModelsTypeWork ==
    ASSUME ModelsTypeOK, CallsReady, ReleasesNumbered, NEW c \in Publishers, RegistryWork(c)
    PROVE  ModelsTypeOK'
  <1> DEFINE call == publisher[c]
  <1>1. call \in Call /\ (call.step # "idle" => call.model \in Models)
    BY DEF ModelsTypeOK, CallsReady
  <1>2. [publisher EXCEPT ![c] = IdleCall] \in [Publishers -> Call]
    BY IdleIsCall DEF ModelsTypeOK
  <1>3. CASE ExportFails(c)
    BY <1>2, <1>3 DEF ExportFails, Finished, ModelsTypeOK
  <1>4. CASE LockForRelease(c)
    <2>1. call.step = "read" /\ call.model \in Models /\ call.seen \in Seen
      BY <1>1, <1>4 DEF LockForRelease, Call
    <2>2. PICK next : next = NextRelease(call.model, call.seen)
      OBVIOUS
    <2>3. next \in ReleaseRow
      <3>1. CASE call.seen.release.sequence > 0
        BY <2>1, <2>2, <3>1 DEF NextRelease, Seen
      <3>2. CASE ~ (call.seen.release.sequence > 0)
        <4>1. call.seen.release.sequence = 0
          BY <2>1, <3>2 DEF Seen, ReleaseRow
        <4> QED
          BY <2>1, <2>2, <4>1, NextIsFresh
      <3> QED
        BY <3>1, <3>2
    <2>4. publisher' = [publisher EXCEPT ![c].step = "locked", ![c].next = next]
      BY <1>4, <2>2 DEF LockForRelease
    <2>5. publisher' \in [Publishers -> Call]
      BY <1>1, <2>3, <2>4 DEF ModelsTypeOK, Call
    <2> QED
      BY <1>4, <2>5 DEF LockForRelease, ModelsTypeOK
  <1>5. CASE CompletePublication(c)
    <2>1. call.model \in Models /\ call.op = "publish" /\ call.step = "locked"
      BY <1>1, <1>5 DEF CompletePublication, CallsReady
    <2>2. call.precision \in Precisions /\ call.next \in ReleaseRow
      BY <1>1, <2>1 DEF CallsReady, SeenOK, Call
    <2>3. PICK m \in Models : m = call.model
      BY <2>1
    <2>4. model[m] \in ModelRow
      BY DEF ModelsTypeOK
    <2>5. PICK row : row = [status |-> "production", revision |-> model[m].revision + 1, release |-> call.next,
                            exports |-> model[m].exports \cup {[precision |-> call.precision, of |-> model[m].revision]}]
      OBVIOUS
    <2>6. row \in ModelRow
      BY <2>2, <2>4, <2>5 DEF ModelRow, Statuses
    <2>7. model' = [model EXCEPT ![m] = row] \/ model' = model
      BY <1>5, <2>3, <2>5 DEF CompletePublication
    <2>8. model' \in [Models -> ModelRow]
      BY <2>6, <2>7 DEF ModelsTypeOK
    <2> QED
      BY <1>2, <1>5, <2>8 DEF CompletePublication, Finished, ModelsTypeOK
  <1>6. CASE Transition(c)
    <2>1. PICK m \in Models : m = call.model
      BY <1>1, <1>6 DEF Transition
    <2>2. PICK target \in {"staging", "archived"} :
             model' = [model EXCEPT ![m].status = target, ![m].revision = @ + 1] \/ model' = model
      BY <1>6, <2>1 DEF Transition
    <2>3. model[m] \in ModelRow
      BY DEF ModelsTypeOK
    <2>4. PICK k \in Nat : k = model[m].revision + 1
      BY <2>3 DEF ModelRow
    <2>5. PICK row : row = [model[m] EXCEPT !.status = target, !.revision = k]
      OBVIOUS
    <2>6. row \in ModelRow
      BY <2>3, <2>5 DEF ModelRow, Statuses
    <2>7. model' = [model EXCEPT ![m] = row] \/ model' = model
      BY <2>2, <2>4, <2>5 DEF ModelsTypeOK
    <2>8. model' \in [Models -> ModelRow]
      BY <2>6, <2>7 DEF ModelsTypeOK
    <2> QED
      BY <1>2, <1>6, <2>8 DEF Transition, Finished, ModelsTypeOK
  <1>7. CASE WriteAlias(c)
    <2>1. call.op = "alias" /\ call.model \in Models
      BY <1>1, <1>7 DEF WriteAlias
    <2>2. alias' \in [{"champion", "challenger"} -> Models \cup {NoModel}]
      BY <1>7, <2>1 DEF WriteAlias, ModelsTypeOK
    <2> QED
      BY <1>2, <1>7, <2>2 DEF WriteAlias, Finished, ModelsTypeOK
  <1> QED
    BY <1>3, <1>4, <1>5, <1>6, <1>7 DEF RegistryWork

-----------------------------------------------------------------------------
(* The invariant is kept by steps that leave the rows alone. *)

\* The number that a call computed, as long as the last release is the last.
NextOK(call) ==
    IF call.seen.release.sequence > 0 THEN call.next = call.seen.release ELSE Fresh(call.next, call.model)

\* One call changes; the others keep their knowledge, and whoever has computed a number its lock.
LEMMA CallStep ==
    ASSUME RegistryInv, ModelsTypeOK', UNCHANGED model, NEW c \in Publishers, NEW call \in Call,
           publisher' = [publisher EXCEPT ![c] = call],
           call.step # "idle" => call.model \in Models /\ SeenOK(call, model[call.model]),
           call.step = "locked" => call.op = "publish" /\ datasetLock' = c /\ NextOK(call),
           \A d \in Publishers : d # c /\ publisher[d].step = "locked" => datasetLock' = d
    PROVE  RegistryInv'
  <1>1. publisher'[c] = call /\ \A d \in Publishers : d # c => publisher'[d] = publisher[d]
    BY DEF RegistryInv, ModelsTypeOK
  <1>2. CallsReady'
    BY <1>1 DEF RegistryInv, CallsReady, SeenOK
  <1>4. Released' = Released
    BY DEF Released
  <1>3. (ExportsPublished /\ PublishedOnce /\ ReleasesNumbered /\ NumbersFollow)'
    <2>1. (ExportsPublished /\ PublishedOnce)'
      BY DEF RegistryInv, ExportsPublished, PublishedOnce
    <2>2. ReleasesNumbered'
      BY <1>4 DEF RegistryInv, ReleasesNumbered
    <2>3. NumbersFollow'
      BY <1>4 DEF RegistryInv, NumbersFollow, Follows
    <2> QED
      BY <2>1, <2>2, <2>3
  <1>5. ASSUME NEW d \in Publishers, NEW x, x = publisher'[d], x.step = "locked"
        PROVE  IF x.seen.release.sequence > 0 THEN x.next = x.seen.release ELSE Fresh(x.next, x.model)'
    <2>2. IF x.seen.release.sequence > 0 THEN x.next = x.seen.release ELSE Fresh(x.next, x.model)
      <3>1. CASE d = c
        BY <1>1, <1>5, <3>1 DEF NextOK
      <3>2. CASE d # c
        BY <1>1, <1>5, <3>2 DEF RegistryInv, NextReady
      <3> QED
        BY <3>1, <3>2
    <2>3. Fresh(x.next, x.model) => Fresh(x.next, x.model)'
      BY <1>4 DEF Fresh
    <2> QED
      BY <2>2, <2>3
  <1>6. NextReady'
    BY <1>5 DEF NextReady, Fresh
  <1> QED
    BY <1>2, <1>3, <1>6 DEF RegistryInv

\* A call that ends knows nothing that could be wrong.
LEMMA CallEnds ==
    ASSUME RegistryInv, ModelsTypeOK', UNCHANGED model, NEW c \in Publishers, Finished(c),
           publisher[c].step = "locked" \/ UNCHANGED datasetLock
    PROVE  RegistryInv'
  <1>1. IdleCall \in Call /\ IdleCall.step = "idle"
    BY IdleIsCall DEF IdleCall
  <1>2. publisher' = [publisher EXCEPT ![c] = IdleCall]
    BY DEF Finished
  <1>3. ASSUME NEW d \in Publishers, d # c, publisher[d].step = "locked" PROVE datasetLock' = d
    BY <1>3 DEF RegistryInv, CallsReady
  <1> HIDE DEF IdleCall
  <1> QED
    BY <1>1, <1>2, <1>3, CallStep

\* A request reads its row.
LEMMA RequestKeeps ==
    ASSUME RegistryInv, NEW c \in Publishers, RegistryRequest(c)
    PROVE  RegistryInv'
  <1>1. PICK m \in Models, op \in {"publish", "stage", "archive", "alias"},
             precision \in Precisions \cup {"none"}, a \in {"none", "champion", "challenger"} :
             /\ publisher' = [publisher EXCEPT ![c] = Remembered(op, m, precision, a)]
             /\ op = "publish" => precision \in Precisions /\ Publishable(model[m], precision)
             /\ op = "archive" => model[m].status # "archived"
             /\ op = "stage" => model[m].status = "candidate"
    BY RequestRemembers
  <1>2. ModelsTypeOK /\ ModelsTypeOK'
    BY ModelsTypeRequest DEF RegistryInv
  <1>3. PICK call : call = Remembered(op, m, precision, a)
    OBVIOUS
  <1>4. /\ call \in Call
        /\ call.step = "read" /\ call.op = op /\ call.model = m /\ call.precision = precision
        /\ call.seen.status = model[m].status /\ call.seen.revision = model[m].revision
        /\ call.seen.release = model[m].release
    BY <1>2, <1>3, RememberedType
  <1>5. publisher' = [publisher EXCEPT ![c] = call]
    BY <1>1, <1>3
  <1>6. model[m] \in ModelRow /\ (model[m].exports # {} => model[m].status \in {"production", "archived"})
    BY <1>2 DEF RegistryInv, ModelsTypeOK, ExportsPublished
  <1>7. op = "publish" => model[m].status # "archived" /\ \A e \in model[m].exports : e.precision # precision
    BY <1>1, <1>6 DEF Publishable
  <1>8. SeenOK(call, model[m])
    BY <1>1, <1>4, <1>6, <1>7 DEF SeenOK, ModelRow
  <1>9. UNCHANGED model /\ UNCHANGED datasetLock
    BY RequestRemembers
  <1>10. ASSUME NEW d \in Publishers, d # c, publisher[d].step = "locked" PROVE datasetLock' = d
    BY <1>9, <1>10 DEF RegistryInv, CallsReady
  <1> QED
    BY <1>2, <1>4, <1>5, <1>8, <1>9, <1>10, CallStep

\* A publication computes its number under the dataset's lock.
LEMMA LockKeeps ==
    ASSUME RegistryInv, NEW c \in Publishers, LockForRelease(c)
    PROVE  RegistryInv'
  <1> DEFINE call == publisher[c]
  <1>1. ModelsTypeOK /\ ModelsTypeOK' /\ ReleasesNumbered /\ CallsReady
    BY ModelsTypeWork DEF RegistryInv, RegistryWork
  <1>2. call \in Call /\ call.step = "read" /\ call.op = "publish" /\ call.model \in Models
        /\ SeenOK(call, model[call.model])
    BY <1>1 DEF LockForRelease, CallsReady, ModelsTypeOK
  <1>3. PICK next : next = NextRelease(call.model, call.seen)
    OBVIOUS
  <1>4. PICK x : x = [call EXCEPT !.step = "locked", !.next = next]
    OBVIOUS
  <1>5. /\ x.step = "locked" /\ x.op = "publish" /\ x.model = call.model /\ x.seen = call.seen
        /\ x.precision = call.precision /\ x.next = next
    BY <1>2, <1>4 DEF Call
  <1>6. publisher' = [publisher EXCEPT ![c] = x]
    BY <1>1, <1>3, <1>4 DEF LockForRelease, ModelsTypeOK
  <1>7. x \in Call
    <2>1. publisher'[c] = x
      BY <1>1, <1>6 DEF ModelsTypeOK
    <2> QED
      BY <1>1, <2>1 DEF ModelsTypeOK
  <1>8. SeenOK(x, model[x.model])
    BY <1>2, <1>5 DEF SeenOK
  <1>9. NextOK(x)
    <2>1. CASE call.seen.release.sequence > 0
      BY <1>3, <1>5, <2>1 DEF NextOK, NextRelease
    <2>2. CASE ~ (call.seen.release.sequence > 0)
      <3>1. call.seen.release.sequence = 0 /\ call.seen \in Seen
        BY <1>2, <2>2 DEF Call, Seen, ReleaseRow
      <3>2. Fresh(next, call.model)
        BY <1>1, <1>2, <1>3, <3>1, NextIsFresh
      <3> QED
        BY <1>5, <2>2, <3>2 DEF NextOK
    <2> QED
      BY <2>1, <2>2
  <1>10. UNCHANGED model /\ datasetLock = NoCall /\ datasetLock' = c
    BY DEF LockForRelease
  <1>11. ASSUME NEW d \in Publishers, publisher[d].step = "locked" PROVE FALSE
    BY <1>1, <1>10, <1>11, CallsAssumption DEF CallsReady
  <1> HIDE DEF call
  <1> QED
    BY <1>1, <1>2, <1>5, <1>6, <1>7, <1>8, <1>9, <1>10, <1>11, CallStep

-----------------------------------------------------------------------------
(* The invariant is kept by steps that write a row. *)

\* Whoever read the row before knows an earlier revision.
LEMMA RowWritten ==
    ASSUME RegistryInv, ModelsTypeOK', NEW c \in Publishers, Finished(c), NEW m \in Models, NEW row \in ModelRow,
           model' = [model EXCEPT ![m] = row], row.revision = model[m].revision + 1,
           publisher[c].step = "locked" \/ UNCHANGED datasetLock
    PROVE  CallsReady'
  <1>1. IdleCall.step = "idle"
    BY DEF IdleCall
  <1>2. publisher'[c].step = "idle" /\ \A d \in Publishers : d # c => publisher'[d] = publisher[d]
    BY <1>1 DEF RegistryInv, ModelsTypeOK, Finished
  <1>3. ASSUME NEW d \in Publishers, d # c, publisher[d].step # "idle"
        PROVE  /\ publisher[d].model \in Models /\ SeenOK(publisher[d], model'[publisher[d].model])
               /\ publisher[d].step = "locked" => publisher[d].op = "publish" /\ datasetLock' = d
    <2>1. PICK x \in Call : x = publisher[d]
      BY DEF RegistryInv, ModelsTypeOK
    <2>2. x.model \in Models /\ SeenOK(x, model[x.model])
      BY <1>3, <2>1 DEF RegistryInv, CallsReady
    <2>3. publisher[d].step = "locked" => publisher[d].op = "publish" /\ datasetLock' = d
      BY <1>3 DEF RegistryInv, CallsReady
    <2>4. SeenOK(x, model'[x.model])
      <3>1. CASE x.model # m
        BY <2>2, <3>1 DEF RegistryInv, ModelsTypeOK
      <3>2. CASE x.model = m
        <4>1. model'[m] = row /\ model[m] \in ModelRow
          BY DEF RegistryInv, ModelsTypeOK
        <4>2. x.seen.revision < row.revision /\ x.seen.revision \in Nat /\ row.revision \in Nat
          BY <2>2, <3>2, <4>1 DEF SeenOK, Call, Seen, ModelRow
        <4> QED
          BY <2>2, <3>2, <4>1, <4>2 DEF SeenOK
      <3> QED
        BY <3>1, <3>2
    <2> QED
      BY <2>1, <2>2, <2>3, <2>4
  <1> QED
    BY <1>2, <1>3 DEF CallsReady, SeenOK

\* A status changes: releases and files stay.
LEMMA TransitionKeeps ==
    ASSUME RegistryInv, NEW c \in Publishers, Transition(c)
    PROVE  RegistryInv'
  <1> DEFINE call == publisher[c]
  <1>1. ModelsTypeOK /\ ModelsTypeOK'
    BY ModelsTypeWork DEF RegistryInv, RegistryWork
  <1>2. call.step = "read" /\ call.op \in {"stage", "archive"} /\ Finished(c) /\ UNCHANGED datasetLock
    BY DEF Transition
  <1>3. PICK m \in Models : m = call.model
    BY <1>2 DEF RegistryInv, CallsReady
  <1>4. CASE model' = model
    BY <1>1, <1>2, <1>4, CallEnds
  <1>5. CASE model' # model
    <2>1. PICK target \in {"staging", "archived"} :
             /\ model' = [model EXCEPT ![m].status = target, ![m].revision = @ + 1]
             /\ target = (IF call.op = "stage" THEN "staging" ELSE "archived")
             /\ model[m].status = call.seen.status
      BY <1>3, <1>5 DEF Transition
    <2>2. model[m] \in ModelRow
      BY <1>1 DEF ModelsTypeOK
    <2>3. PICK k \in Nat : k = model[m].revision + 1
      BY <2>2 DEF ModelRow
    <2>4. PICK row : row = [model[m] EXCEPT !.status = target, !.revision = k]
      OBVIOUS
    <2>5. /\ row \in ModelRow /\ row.revision = model[m].revision + 1 /\ row.status = target
          /\ row.release = model[m].release /\ row.exports = model[m].exports
      BY <2>2, <2>3, <2>4 DEF ModelRow, Statuses
    <2>6. model' = [model EXCEPT ![m] = row]
      BY <1>1, <2>1, <2>3, <2>4 DEF ModelsTypeOK
    <2>7. CallsReady'
      BY <1>1, <1>2, <2>5, <2>6, RowWritten
    <2>8. \A n \in Models : model'[n].release = model[n].release /\ model'[n].exports = model[n].exports
      BY <1>1, <2>5, <2>6 DEF ModelsTypeOK
    <2>9. Released' = Released
      BY <2>8 DEF Released
    <2>10. PublishedOnce'
      BY <2>8 DEF RegistryInv, PublishedOnce
    <2>11. ReleasesNumbered'
      <3>1. Released \subseteq Models
        BY DEF Released
      <3> QED
        BY <2>8, <2>9, <3>1 DEF RegistryInv, ReleasesNumbered
    <2>12. NumbersFollow'
      <3>1. Released \subseteq Models
        BY DEF Released
      <3> QED
        BY <2>8, <2>9, <3>1 DEF RegistryInv, NumbersFollow, Follows
    <2>13. ExportsPublished'
      <3>1. SeenOK(call, model[m])
        BY <1>2, <1>3 DEF RegistryInv, CallsReady
      <3>2. call.op = "stage" => model[m].status = "candidate"
        BY <2>1, <3>1 DEF SeenOK
      <3>3. model[m].exports # {} => target = "archived"
        BY <1>2, <2>1, <3>2 DEF RegistryInv, ExportsPublished
      <3>4. \A n \in Models : n # m => model'[n] = model[n]
        BY <1>1, <2>6 DEF ModelsTypeOK
      <3>5. model'[m] = row
        BY <1>1, <2>6 DEF ModelsTypeOK
      <3> QED
        BY <2>5, <3>3, <3>4, <3>5 DEF RegistryInv, ExportsPublished
    <2>14. NextReady'
      <3>1. ASSUME NEW d \in Publishers, NEW x, x = publisher'[d], x.step = "locked"
            PROVE  IF x.seen.release.sequence > 0 THEN x.next = x.seen.release ELSE Fresh(x.next, x.model)'
        <4>1. d # c /\ x = publisher[d]
          BY <1>1, <1>2, <3>1 DEF Finished, IdleCall, ModelsTypeOK
        <4>2. IF x.seen.release.sequence > 0 THEN x.next = x.seen.release ELSE Fresh(x.next, x.model)
          BY <3>1, <4>1 DEF RegistryInv, NextReady
        <4>3. Released \subseteq Models
          BY DEF Released
        <4>4. Fresh(x.next, x.model) => Fresh(x.next, x.model)'
          BY <2>8, <2>9, <4>3 DEF Fresh
        <4> QED
          BY <4>2, <4>4
      <3> QED
        BY <3>1 DEF NextReady, Fresh
    <2> QED
      BY <1>1, <2>7, <2>10, <2>11, <2>12, <2>13, <2>14 DEF RegistryInv
  <1> QED
    BY <1>4, <1>5

\* A model that has its number is published again: the number is the one it has.
LEMMA RepublishedReleases ==
    ASSUME RegistryInv, ModelsTypeOK', NEW m \in Models, NEW row, model' = [model EXCEPT ![m] = row],
           row.release = model[m].release
    PROVE  ReleasesNumbered' /\ NumbersFollow'
  <1>1. \A n \in Models : model'[n].release = model[n].release
    BY DEF RegistryInv, ModelsTypeOK
  <1>2. Released' = Released /\ Released \subseteq Models
    BY <1>1 DEF Released
  <1> QED
    BY <1>1, <1>2 DEF RegistryInv, ReleasesNumbered, NumbersFollow, Follows

\* A model gets its number, which is the next one.
LEMMA FirstReleased ==
    ASSUME RegistryInv, ModelsTypeOK', NEW m \in Models, NEW row \in ModelRow, model' = [model EXCEPT ![m] = row],
           model[m].release.sequence = 0, Fresh(row.release, m)
    PROVE  ReleasesNumbered' /\ NumbersFollow'
  <1> DEFINE n == Cardinality(Released)
  <1> DEFINE seq(k) == model[k].release.sequence
  <1>1. IsFiniteSet(Released) /\ n \in Nat
    BY FS_CardinalityType DEF RegistryInv, ReleasesNumbered
  <1>2. m \notin Released /\ Released \subseteq Models
    BY DEF Released
  <1>3. model'[m] = row /\ \A k \in Models : k # m => model'[k] = model[k]
    BY DEF RegistryInv, ModelsTypeOK
  <1>4. row.release.sequence = n + 1 /\ row.release.plan = ModelPlan[m]
    BY DEF Fresh
  <1>5. Released' = Released \cup {m}
    BY <1>1, <1>2, <1>3, <1>4 DEF Released
  <1>6. IsFiniteSet(Released') /\ Cardinality(Released') = n + 1
    BY <1>1, <1>2, <1>5, FS_AddElement
  <1>7. \A k \in Released : seq(k) \in 1..n /\ model'[k] = model[k] /\ k # m
    BY <1>2, <1>3 DEF RegistryInv, ReleasesNumbered
  <1>8. /\ \A k \in 1..n : \E l \in Released : seq(l) = k
        /\ \A k, l \in Released : seq(k) = seq(l) => k = l
        /\ \A k \in Released : model[k].release.plan = ModelPlan[k]
    BY DEF RegistryInv, ReleasesNumbered
  <1> HIDE DEF n
  <1>9. ReleasesNumbered'
    <2>1. \A k \in Released' : model'[k].release.sequence \in 1..(n + 1)
      BY <1>1, <1>3, <1>4, <1>5, <1>7
    <2>2. \A k \in 1..(n + 1) : \E l \in Released' : model'[l].release.sequence = k
      <3>1. TAKE k \in 1..(n + 1)
      <3>2. CASE k = n + 1
        BY <1>3, <1>4, <1>5, <3>2
      <3>3. CASE k # n + 1
        <4>1. PICK l \in Released : seq(l) = k
          BY <1>1, <1>8, <3>3
        <4> QED
          BY <1>5, <1>7, <4>1
      <3> QED
        BY <3>2, <3>3
    <2>3. \A k, l \in Released' : model'[k].release.sequence = model'[l].release.sequence => k = l
      <3>1. TAKE k, l \in Released'
      <3>2. \A j \in Released : model'[j].release.sequence # n + 1
        BY <1>1, <1>7
      <3> QED
        BY <1>3, <1>4, <1>5, <1>7, <1>8, <3>2
    <2>4. \A k \in Released' : model'[k].release.plan = ModelPlan[k]
      BY <1>3, <1>4, <1>5, <1>7, <1>8
    <2> QED
      BY <1>6, <2>1, <2>2, <2>3, <2>4 DEF ReleasesNumbered
  <1>10. ASSUME NEW k \in Released', NEW l \in Released',
                model'[k].release.sequence = model'[l].release.sequence + 1
         PROVE  model'[k].release.number = Raised(model'[l].release.number, ModelPlan[k] # ModelPlan[l],
                                                  TrainedOn[k] # TrainedOn[l])
    <2>1. l # m
      BY <1>1, <1>3, <1>4, <1>5, <1>7, <1>10
    <2>2. l \in Released /\ model'[l] = model[l]
      BY <1>5, <1>7, <2>1
    <2>3. CASE k = m
      <3>1. seq(l) = n
        BY <1>1, <1>3, <1>4, <1>7, <1>10, <2>2, <2>3
      <3>2. row.release.number = Raised(model[l].release.number, ModelPlan[m] # ModelPlan[l],
                                        TrainedOn[m] # TrainedOn[l])
        BY <2>2, <3>1 DEF Fresh, n
      <3> QED
        BY <1>3, <2>2, <2>3, <3>2
    <2>4. CASE k # m
      <3>1. k \in Released /\ model'[k] = model[k]
        BY <1>5, <1>7, <2>4
      <3> QED
        BY <1>10, <2>2, <3>1 DEF RegistryInv, NumbersFollow, Follows
    <2> QED
      BY <2>3, <2>4
  <1>11. NumbersFollow'
    BY <1>10 DEF NumbersFollow, Follows
  <1> QED
    BY <1>9, <1>11

\* A publication is written: nobody else has a number in the meantime, and no file twice.
LEMMA CompleteKeeps ==
    ASSUME RegistryInv, NEW c \in Publishers, CompletePublication(c)
    PROVE  RegistryInv'
  <1> DEFINE call == publisher[c]
  <1>1. ModelsTypeOK /\ ModelsTypeOK'
    BY ModelsTypeWork DEF RegistryInv, RegistryWork
  <1>2. call \in Call /\ call.step = "locked" /\ call.op = "publish" /\ datasetLock = c /\ Finished(c)
    BY <1>1 DEF CompletePublication, RegistryInv, CallsReady, ModelsTypeOK
  <1>3. PICK m \in Models : m = call.model
    BY <1>2 DEF RegistryInv, CallsReady
  <1>4. CASE ~ Unchanged(m, call.seen)
    <2>1. model' = model
      BY <1>3, <1>4 DEF CompletePublication
    <2> QED
      BY <1>1, <1>2, <2>1, CallEnds
  <1>5. CASE Unchanged(m, call.seen)
    <2>1. SeenOK(call, model[m]) /\ model[m] \in ModelRow
      BY <1>1, <1>2, <1>3 DEF RegistryInv, CallsReady, ModelsTypeOK
    <2>2. /\ call.seen.release = model[m].release
          /\ \A e \in model[m].exports : e.precision # call.precision
          /\ call.precision \in Precisions
      BY <1>2, <1>5, <2>1 DEF SeenOK, Unchanged
    <2>3. PICK new : new = [precision |-> call.precision, of |-> model[m].revision]
      OBVIOUS
    <2>4. PICK row : row = [status |-> "production", revision |-> model[m].revision + 1, release |-> call.next,
                            exports |-> model[m].exports \cup {new}]
      OBVIOUS
    <2>5. /\ row.status = "production" /\ row.revision = model[m].revision + 1 /\ row.release = call.next
          /\ row.exports = model[m].exports \cup {new} /\ new.precision = call.precision
      BY <2>3, <2>4
    <2>6. row \in ModelRow
      <3>1. call.next \in ReleaseRow
        BY <1>2 DEF Call
      <3> QED
        BY <2>1, <2>2, <2>3, <2>4, <3>1 DEF ModelRow, Statuses
    <2>7. model' = [model EXCEPT ![m] = row]
      BY <1>3, <1>5, <2>3, <2>4 DEF CompletePublication
    <2>8. model'[m] = row /\ \A k \in Models : k # m => model'[k] = model[k]
      BY <1>1, <2>7 DEF ModelsTypeOK
    <2>9. CallsReady'
      BY <1>1, <1>2, <2>5, <2>6, <2>7, RowWritten
    <2>10. ExportsPublished'
      BY <2>5, <2>8 DEF RegistryInv, ExportsPublished
    <2>11. PublishedOnce'
      <3>1. \A e, f \in row.exports : e.precision = f.precision => e = f
        BY <2>2, <2>5 DEF RegistryInv, PublishedOnce
      <3> QED
        BY <2>8, <3>1 DEF RegistryInv, PublishedOnce
    <2>12. ReleasesNumbered' /\ NumbersFollow'
      <3>1. IF call.seen.release.sequence > 0 THEN call.next = call.seen.release ELSE Fresh(call.next, m)
        BY <1>2, <1>3 DEF RegistryInv, NextReady
      <3>2. CASE call.seen.release.sequence > 0
        <4>1. row.release = model[m].release
          BY <2>2, <2>5, <3>1, <3>2
        <4> QED
          BY <1>1, <2>7, <4>1, RepublishedReleases
      <3>3. CASE ~ (call.seen.release.sequence > 0)
        <4>1. model[m].release.sequence = 0
          BY <2>1, <2>2, <3>3 DEF ModelRow, ReleaseRow
        <4>2. Fresh(row.release, m)
          BY <2>5, <3>1, <3>3
        <4> QED
          BY <1>1, <2>6, <2>7, <4>1, <4>2, FirstReleased
      <3> QED
        BY <3>2, <3>3
    <2>13. NextReady'
      <3>1. ASSUME NEW d \in Publishers PROVE publisher'[d].step # "locked"
        <4>1. CASE d = c
          BY <1>1, <1>2, <4>1 DEF Finished, IdleCall, ModelsTypeOK
        <4>2. CASE d # c
          <5>1. publisher'[d] = publisher[d]
            BY <1>1, <1>2, <4>2 DEF Finished, ModelsTypeOK
          <5> QED
            BY <1>2, <4>2, <5>1 DEF RegistryInv, CallsReady
        <4> QED
          BY <4>1, <4>2
      <3> QED
        BY <3>1 DEF NextReady
    <2> QED
      BY <1>1, <2>9, <2>10, <2>11, <2>12, <2>13 DEF RegistryInv
  <1> QED
    BY <1>4, <1>5

\* Whatever the registry does.
LEMMA RegistryKeeps == RegistryInv /\ RegistryStep => RegistryInv'
  <1> SUFFICES ASSUME RegistryInv, NEW c \in Publishers, RegistryRequest(c) \/ RegistryWork(c)
               PROVE  RegistryInv'
    BY DEF RegistryStep
  <1>1. CASE RegistryRequest(c)
    BY <1>1, RequestKeeps
  <1>2. CASE RegistryWork(c)
    <2>1. ModelsTypeOK'
      BY <1>2, ModelsTypeWork DEF RegistryInv
    <2>2. CASE ExportFails(c)
      BY <2>1, <2>2, CallEnds DEF ExportFails
    <2>3. CASE LockForRelease(c)
      BY <2>3, LockKeeps
    <2>4. CASE CompletePublication(c)
      BY <2>4, CompleteKeeps
    <2>5. CASE Transition(c)
      BY <2>5, TransitionKeeps
    <2>6. CASE WriteAlias(c)
      BY <2>1, <2>6, CallEnds DEF WriteAlias
    <2> QED
      BY <1>2, <2>2, <2>3, <2>4, <2>5, <2>6 DEF RegistryWork
  <1> QED
    BY <1>1, <1>2

\* What the invariant says of release numbers.
LEMMA NumbersAreOrdered == RegistryInv => ReleasesSound
  <1> SUFFICES ASSUME RegistryInv PROVE ReleasesSound
    OBVIOUS
  <1>1. {model[m].release.sequence : m \in Released} = 1..Cardinality(Released)
    BY DEF RegistryInv, ReleasesNumbered
  <1>2. \A m, l \in Released : Follows(m, l) =>
           model[m].release.number = Raised(model[l].release.number, ModelPlan[m] # ModelPlan[l],
                                            TrainedOn[m] # TrainedOn[l])
    BY DEF RegistryInv, NumbersFollow
  <1>3. ReleasesOrdered
    BY ONLY <1>1, <1>2 DEF ReleasesOrdered
  <1> QED
    BY <1>3 DEF RegistryInv, ReleasesSound

-----------------------------------------------------------------------------
(* What no step of the registry does. *)

\* An archived row stays, and an alias is given to a row that deserves it.
StaleRefused ==
    /\ \A m \in Models : model[m].status = "archived" => model'[m] = model[m]
    /\ \A a \in {"champion", "challenger"} :
          alias'[a] # alias[a] => alias'[a] \in Models /\ AliasAllowed(a, model[alias'[a]])

LEMMA RegistryRefuses == RegistryInv /\ RegistryStep => StaleRefused
  <1> SUFFICES ASSUME RegistryInv, NEW c \in Publishers, RegistryRequest(c) \/ RegistryWork(c)
               PROVE  StaleRefused
    BY DEF RegistryStep
  <1> DEFINE call == publisher[c]
  <1>1. ModelsTypeOK /\ CallsReady
    BY DEF RegistryInv
  <1>2. CASE RegistryRequest(c)
    BY <1>2, RequestRemembers DEF StaleRefused
  <1>3. CASE ExportFails(c) \/ LockForRelease(c)
    BY <1>3 DEF ExportFails, LockForRelease, StaleRefused
  <1>4. CASE CompletePublication(c)
    <2>1. SeenOK(call, model[call.model]) /\ call.op = "publish" /\ call.model \in Models
      BY <1>1, <1>4 DEF CompletePublication, CallsReady
    <2>2. Unchanged(call.model, call.seen) => model[call.model].status # "archived"
      BY <2>1 DEF SeenOK, Unchanged
    <2>3. \A m \in Models : m # call.model => model'[m] = model[m]
      BY <1>1, <1>4 DEF CompletePublication, ModelsTypeOK
    <2>4. ~ Unchanged(call.model, call.seen) => model' = model
      BY <1>4 DEF CompletePublication
    <2>5. UNCHANGED alias
      BY <1>4 DEF CompletePublication
    <2> QED
      BY <2>1, <2>2, <2>3, <2>4, <2>5 DEF StaleRefused
  <1>5. CASE Transition(c)
    <2>1. SeenOK(call, model[call.model]) /\ call.op \in {"stage", "archive"} /\ call.model \in Models
      BY <1>1, <1>5 DEF Transition, CallsReady
    <2>2. model[call.model].status = call.seen.status => model[call.model].status # "archived"
      BY <2>1 DEF SeenOK
    <2>3. \A m \in Models : m # call.model => model'[m] = model[m]
      BY <1>1, <1>5 DEF Transition, ModelsTypeOK
    <2>4. model[call.model].status # call.seen.status => model' = model
      BY <1>5 DEF Transition
    <2>5. UNCHANGED alias
      BY <1>5 DEF Transition
    <2> QED
      BY <2>1, <2>2, <2>3, <2>4, <2>5 DEF StaleRefused
  <1>6. CASE WriteAlias(c)
    <2>1. call \in Call /\ call.model \in Models /\ UNCHANGED model
      BY <1>1, <1>6 DEF WriteAlias, CallsReady, ModelsTypeOK
    <2>2. alias' = alias \/ (StillAllowed(call.alias, call.model) /\ alias' = [alias EXCEPT ![call.alias] = call.model])
      BY <1>6 DEF WriteAlias
    <2> QED
      BY <1>1, <2>1, <2>2 DEF StaleRefused, StillAllowed, ModelsTypeOK
  <1> QED
    BY <1>2, <1>3, <1>4, <1>5, <1>6 DEF RegistryWork

-----------------------------------------------------------------------------
(* The search for a threshold, for any feedback. *)

\* Naturals have a least one: descending intervals end.
LEMMA LeastNatural ==
    ASSUME NEW S \in SUBSET Nat, S # {}
    PROVE  \E m \in S : \A k \in S : m <= k
  <1> DEFINE R == {ss \in Nat \X Nat : ss[1] < ss[2]}
  <1>1. IsWellFoundedOn(R, Nat)
    BY NatLessThanWellFounded, Zenon DEF OpToRel
  <1> HIDE DEF R
  <1>2. PICK m \in S : \A k \in S : <<k, m>> \notin R
    BY <1>1, WFMin
  <1>3. \A k \in S : ~ (k < m)
    BY <1>2 DEF R
  <1> QED
    BY <1>2, <1>3

\* Naturals below a bound have a greatest one.
LEMMA GreatestNatural ==
    ASSUME NEW S \in SUBSET Nat, S # {}, NEW n \in Nat, \A k \in S : k <= n
    PROVE  \E m \in S : \A k \in S : k <= m
  <1> DEFINE T == {b \in Nat : \A k \in S : k <= b}
  <1>1. T \in SUBSET Nat /\ T # {}
    OBVIOUS
  <1>2. PICK b \in T : \A c \in T : b <= c
    BY <1>1, LeastNatural
  <1>3. b \in S
    <2> SUFFICES ASSUME b \notin S PROVE FALSE
      OBVIOUS
    <2>1. \A k \in S : k \in Nat /\ k < b
      BY <1>2
    <2>2. b \in Nat \ {0}
      <3>1. PICK k \in S : TRUE
        OBVIOUS
      <3> QED
        BY <1>2, <2>1, <3>1
    <2>3. b - 1 \in T
      BY <2>1, <2>2
    <2> QED
      BY <1>2, <2>2, <2>3
  <1> QED
    BY <1>2, <1>3

AtMost(k, samples) == {x \in samples : x.score <= k}
Below(k, samples) == {x \in samples : x.score < k}

\* The i-th of the sorted scores has i samples up to it, and fewer before it.
LEMMA SortedScore ==
    ASSUME NEW samples \in SUBSET Sample, IsFiniteSet(samples), NEW i \in 1..Cardinality(samples)
    PROVE  LET s == SortedScores(samples)[i] IN
           /\ s \in 0..TopScore
           /\ Cardinality(AtMost(s, samples)) >= i
           /\ Cardinality(Below(s, samples)) < i
  <1> DEFINE K == {k \in 0..TopScore : Cardinality(AtMost(k, samples)) >= i}
  <1>1. TopScore \in Nat /\ \A x \in samples : x.score \in 0..TopScore
    BY PoliciesAssumption DEF Sample
  <1>2. AtMost(TopScore, samples) = samples
    BY <1>1 DEF AtMost
  <1>3. TopScore \in K
    BY <1>1, <1>2, FS_CardinalityType
  <1>4. PICK k \in K : \A j \in K : k <= j
    <2>1. K \in SUBSET Nat /\ K # {}
      BY <1>1, <1>3
    <2> HIDE DEF K
    <2> QED
      BY <2>1, LeastNatural
  <1>5. Cardinality(Below(k, samples)) < i
    <2>1. CASE k = 0
      <3>1. Below(k, samples) = {}
        BY <1>1, <2>1 DEF Below
      <3> QED
        BY <3>1, FS_EmptySet
    <2>2. CASE k # 0
      <3>1. k - 1 \in 0..TopScore /\ k - 1 \notin K
        BY <1>1, <1>4, <2>2
      <3>2. Below(k, samples) = AtMost(k - 1, samples)
        BY <1>1, <1>4 DEF Below, AtMost
      <3>3. Cardinality(AtMost(k - 1, samples)) \in Nat
        BY FS_Subset, FS_CardinalityType DEF AtMost
      <3>4. i \in Nat
        BY FS_CardinalityType
      <3> QED
        BY <3>1, <3>2, <3>3, <3>4
    <2> QED
      BY <2>1, <2>2
  <1>6. SortedScores(samples)[i] =
          CHOOSE j \in 0..TopScore : Cardinality(AtMost(j, samples)) >= i /\ Cardinality(Below(j, samples)) < i
    BY DEF SortedScores, AtMost, Below
  <1>7. \E j \in 0..TopScore : Cardinality(AtMost(j, samples)) >= i /\ Cardinality(Below(j, samples)) < i
    BY <1>4, <1>5
  <1> QED
    BY <1>6, <1>7

\* The scores are sorted.
LEMMA ScoresAscend ==
    ASSUME NEW samples \in SUBSET Sample, IsFiniteSet(samples), NEW i \in 1..Cardinality(samples),
           i + 1 \in 1..Cardinality(samples)
    PROVE  SortedScores(samples)[i] <= SortedScores(samples)[i + 1]
  <1>1. PICK a : a = SortedScores(samples)[i]
    OBVIOUS
  <1>2. PICK b : b = SortedScores(samples)[i + 1]
    OBVIOUS
  <1>3. /\ a \in 0..TopScore /\ Cardinality(Below(a, samples)) < i
        /\ b \in 0..TopScore /\ Cardinality(AtMost(b, samples)) >= i + 1
    BY <1>1, <1>2, SortedScore
  <1>4. IsFiniteSet(Below(a, samples)) /\ IsFiniteSet(AtMost(b, samples)) /\ i \in Nat /\ TopScore \in Nat
    BY FS_Subset, FS_CardinalityType, PoliciesAssumption DEF Below, AtMost
  <1>5. \A x \in samples : x.score \in 0..TopScore
    BY DEF Sample
  <1>6. ASSUME a > b PROVE FALSE
    <2>1. AtMost(b, samples) \subseteq Below(a, samples)
      BY <1>3, <1>4, <1>5, <1>6 DEF AtMost, Below
    <2>2. Cardinality(AtMost(b, samples)) <= Cardinality(Below(a, samples))
      BY <1>4, <2>1, FS_Subset
    <2>3. Cardinality(AtMost(b, samples)) \in Nat /\ Cardinality(Below(a, samples)) \in Nat
      BY <1>4, FS_CardinalityType
    <2> QED
      BY <1>3, <1>4, <2>2, <2>3
  <1> QED
    BY <1>1, <1>2, <1>3, <1>4, <1>6

\* Integers, divided with a remainder.
LEMMA DivRem ==
    ASSUME NEW a \in Nat, NEW d \in Nat \ {0}
    PROVE  /\ a \div d \in Nat
           /\ (a \div d) * d <= a
           /\ a < (a \div d) * d + d
  OBVIOUS

\* Each point of the grid lies between two neighbours among count scores.
LEMMA GridPosition ==
    ASSUME NEW last \in Nat, NEW gaps \in Nat \ {0}, NEW i \in 0..gaps, NEW lo, lo = (i * last) \div gaps,
           NEW over, over = i * last - lo * gaps
    PROVE  /\ lo \in 0..last /\ over \in 0..(gaps - 1)
           /\ over # 0 => lo + 1 \in 0..last
  <1> DEFINE rank == i * last
  <1>1. rank \in Nat /\ rank <= gaps * last
    <2>1. i \in Nat /\ i <= gaps
      OBVIOUS
    <2>2. ASSUME NEW x \in Nat, NEW y \in Nat, NEW z \in Nat, x <= y PROVE x * z \in Nat /\ x * z <= y * z
      BY <2>2
    <2> QED
      BY <2>1, <2>2
  <1> HIDE DEF rank
  <1>2. rank \div gaps \in Nat /\ (rank \div gaps) * gaps <= rank /\ rank < (rank \div gaps) * gaps + gaps
    BY <1>1, DivRem
  <1>3. lo \in Nat /\ lo * gaps <= rank /\ rank < lo * gaps + gaps /\ over = rank - lo * gaps
    BY <1>2 DEF rank
  <1>4. over \in 0..(gaps - 1)
    <2>1. PICK p \in Nat : p = lo * gaps
      BY <1>3
    <2> QED
      BY <1>1, <1>3, <2>1
  <1>5. lo <= last
    <2>1. ASSUME lo >= last + 1 PROVE FALSE
      <3>1. lo * gaps >= (last + 1) * gaps
        BY <1>3, <2>1
      <3>2. (last + 1) * gaps = gaps * last + gaps
        OBVIOUS
      <3>3. PICK p \in Nat : p = lo * gaps
        BY <1>3
      <3>4. PICK q \in Nat : q = gaps * last
        OBVIOUS
      <3> QED
        BY <1>1, <1>3, <3>1, <3>2, <3>3, <3>4
    <2> QED
      BY <1>3, <2>1
  <1>6. ASSUME lo = last PROVE over = 0
    <2>1. over = rank - last * gaps /\ rank <= last * gaps
      BY <1>1, <1>3, <1>6
    <2>2. PICK p \in Nat : p = last * gaps
      OBVIOUS
    <2> QED
      BY <1>1, <1>4, <2>1, <2>2
  <1> QED
    BY <1>3, <1>4, <1>5, <1>6

\* The grid is so fine that it has a point strictly between any two neighbours.
LEMMA GridReaches ==
    ASSUME NEW last \in Nat, NEW gaps \in Nat \ {0}, last < gaps, NEW k \in 1..last
    PROVE  \E i \in 0..gaps : (k - 1) * gaps < i * last /\ i * last < k * gaps
  <1> DEFINE i == (k * gaps - 1) \div last
  <1>1. PICK p \in Nat \ {0} : p = k * gaps
    OBVIOUS
  <1>2. last \in Nat \ {0} /\ p - 1 \in Nat
    BY <1>1
  <1>3. i \in Nat /\ i * last <= p - 1 /\ p - 1 < i * last + last
    <2>1. i = (p - 1) \div last
      BY <1>1
    <2> HIDE DEF i
    <2>2. (p - 1) \div last \in Nat /\ ((p - 1) \div last) * last <= p - 1
          /\ p - 1 < ((p - 1) \div last) * last + last
      BY <1>2, DivRem
    <2> QED
      BY <2>1, <2>2
  <1> HIDE DEF i
  <1>4. PICK q \in Nat : q = i * last
    BY <1>3
  <1>5. i <= gaps
    <2>1. ASSUME i >= gaps + 1 PROVE FALSE
      <3>1. i * last >= (gaps + 1) * last
        BY <1>3, <2>1
      <3>2. k * gaps <= last * gaps
        OBVIOUS
      <3>3. (gaps + 1) * last = last * gaps + last
        OBVIOUS
      <3>4. PICK r \in Nat : r = last * gaps
        OBVIOUS
      <3> QED
        BY <1>1, <1>2, <1>3, <1>4, <3>1, <3>2, <3>3, <3>4
    <2> QED
      BY <1>3, <2>1
  <1>6. (k - 1) * gaps = p - gaps
    BY <1>1
  <1>7. (k - 1) * gaps < i * last /\ i * last < k * gaps
    BY <1>1, <1>3, <1>4, <1>6
  <1> QED
    BY <1>3, <1>5, <1>7

\* Where such a point lies.
LEMMA GridLands ==
    ASSUME NEW last \in Nat, NEW gaps \in Nat \ {0}, NEW k \in 1..last, NEW i \in 0..gaps,
           (k - 1) * gaps < i * last, i * last < k * gaps,
           NEW lo, lo = (i * last) \div gaps, NEW over, over = i * last - lo * gaps
    PROVE  over \in 1..(gaps - 1) /\ lo + 1 = k
  <1>1. PICK rank \in Nat : rank = i * last
    OBVIOUS
  <1>2. lo \in 0..last /\ over \in 0..(gaps - 1)
    BY GridPosition
  <1>3. over = rank - lo * gaps
    BY <1>1
  <1>4. lo < k
    <2>1. ASSUME lo >= k PROVE FALSE
      <3>1. lo * gaps >= k * gaps
        BY <1>2, <2>1
      <3>2. PICK p \in Nat : p = lo * gaps
        BY <1>2
      <3>3. PICK q \in Nat : q = k * gaps
        OBVIOUS
      <3> QED
        BY <1>1, <1>2, <1>3, <3>1, <3>2, <3>3
    <2> QED
      BY <1>2, <2>1
  <1>5. lo >= k - 1
    <2>1. ASSUME lo <= k - 2 PROVE FALSE
      <3>1. lo * gaps <= (k - 2) * gaps
        BY <1>2, <2>1
      <3>2. (k - 2) * gaps = (k - 1) * gaps - gaps
        OBVIOUS
      <3>3. PICK p \in Nat : p = lo * gaps
        BY <1>2
      <3>4. PICK q \in Int : q = (k - 1) * gaps
        OBVIOUS
      <3> QED
        BY <1>1, <1>2, <1>3, <3>1, <3>2, <3>3, <3>4
    <2> QED
      BY <1>2, <2>1
  <1>6. lo = k - 1
    BY <1>2, <1>4, <1>5
  <1>7. over > 0
    <2>1. over = rank - (k - 1) * gaps /\ rank > (k - 1) * gaps
      BY <1>1, <1>3, <1>6
    <2>2. PICK q \in Int : q = (k - 1) * gaps
      OBVIOUS
    <2> QED
      BY <1>1, <2>1, <2>2
  <1> QED
    BY <1>2, <1>6, <1>7

\* The scores are scores.
LEMMA ScoresType ==
    ASSUME NEW samples \in SUBSET Sample, IsFiniteSet(samples)
    PROVE  SortedScores(samples) \in [1..Cardinality(samples) -> 0..TopScore]
  <1>1. \A i \in 1..Cardinality(samples) : SortedScores(samples)[i] \in 0..TopScore
    BY SortedScore
  <1> DEFINE score(i) == CHOOSE k \in 0..TopScore :
                            /\ Cardinality({x \in samples : x.score <= k}) >= i
                            /\ Cardinality({x \in samples : x.score < k}) < i
  <1>2. SortedScores(samples) = [i \in 1..Cardinality(samples) |-> score(i)]
    BY DEF SortedScores
  <1> HIDE DEF score
  <1> QED
    BY <1>1, <1>2

\* How many gaps there are between points.
LEMMA Gaps ==
    ASSUME NEW count \in Nat \ {0}
    PROVE  /\ GridSize(count) - 1 \in Nat \ {0}
           /\ count + 2 <= GridPoints => count - 1 < GridSize(count) - 1
  BY PoliciesAssumption DEF GridSize

\* Rounding a fraction to a number of steps moves it by half a step at most.
LEMMA RoundedNear ==
    ASSUME NEW num \in Nat, NEW den \in Nat \ {0}
    PROVE  /\ Rounded(num, den) \in Nat
           /\ 2 * (Rounded(num, den) * den) <= 2 * (num * Steps) + den
           /\ 2 * (num * Steps) < 2 * (Rounded(num, den) * den) + den
  <1>1. PICK m \in Nat : m = num * Steps
    BY PoliciesAssumption
  <1>2. PICK e \in Nat \ {0} : e = 2 * den
    OBVIOUS
  <1>3. PICK n \in Nat : n = 2 * m + den
    BY <1>1
  <1>4. Rounded(num, den) = n \div e
    <2>1. 2 * num * Steps = 2 * m
      BY <1>1, PoliciesAssumption
    <2> QED
      BY <1>2, <1>3, <2>1 DEF Rounded
  <1>5. PICK r : r = Rounded(num, den)
    OBVIOUS
  <1>6. r \in Nat /\ r * e <= n /\ n < r * e + e
    BY <1>2, <1>4, <1>5, DivRem
  <1>7. PICK w \in Nat : w = r * den
    BY <1>6
  <1>8. r * e = 2 * w
    BY <1>2, <1>6, <1>7
  <1>9. 2 * w <= 2 * m + den /\ 2 * m < 2 * w + den
    BY <1>1, <1>2, <1>3, <1>6, <1>7, <1>8
  <1> QED
    BY <1>1, <1>5, <1>6, <1>7, <1>9

LEMMA RoundedType ==
    ASSUME NEW num \in Nat, NEW den \in Nat \ {0} PROVE Rounded(num, den) \in Nat
  BY RoundedNear

\* What the search tries are thresholds.
LEMMA CandidatesType ==
    ASSUME NEW samples \in SUBSET Sample, IsFiniteSet(samples), samples # {}
    PROVE  Candidates(samples) \subseteq Threshold
  <1> DEFINE count == Cardinality(samples)
  <1> DEFINE s == SortedScores(samples)
  <1> DEFINE gaps == GridSize(count) - 1
  <1>1. count \in Nat \ {0}
    BY FS_CardinalityType, FS_EmptySet
  <1>2. gaps \in Nat \ {0} /\ TopScore \in Nat \ {0}
    BY <1>1, Gaps, PoliciesAssumption
  <1>3. s \in [1..count -> 0..TopScore]
    BY ScoresType
  <1>4. \A i \in 1..count : i + 1 \in 1..count => s[i] <= s[i + 1]
    BY ScoresAscend
  <1>5. Candidates(samples) = {0, Steps} \cup {GridPoint(s, count, i) : i \in 0..gaps}
    BY DEF Candidates
  <1> HIDE DEF s, gaps, count
  <1>6. ASSUME NEW i \in 0..gaps PROVE GridPoint(s, count, i) \in Threshold
    <2>1. PICK lo : lo = (i * (count - 1)) \div gaps
      OBVIOUS
    <2>2. PICK over : over = i * (count - 1) - lo * gaps
      OBVIOUS
    <2>3. lo \in 0..(count - 1) /\ over \in 0..(gaps - 1) /\ (over # 0 => lo + 1 \in 0..(count - 1))
      <3>1. PICK last \in Nat : last = count - 1
        BY <1>1
      <3>2. lo = (i * last) \div gaps /\ over = i * last - lo * gaps
        BY <2>1, <2>2, <3>1
      <3> QED
        BY <1>2, <3>1, <3>2, GridPosition
    <2>4. GridPoint(s, count, i) =
            Rounded(s[lo + 1] * gaps + (s[(IF over = 0 THEN lo ELSE lo + 1) + 1] - s[lo + 1]) * over, TopScore * gaps)
      <3>1. gaps = GridSize(count) - 1
        BY DEF gaps
      <3> QED
        BY ONLY <2>1, <2>2, <3>1 DEF GridPoint
    <2>5. s[lo + 1] \in Nat
      BY <1>1, <1>2, <1>3, <2>3
    <2>6. PICK d \in Nat : d * over = (s[(IF over = 0 THEN lo ELSE lo + 1) + 1] - s[lo + 1]) * over
      <3>1. CASE over = 0
        <4>1. 0 * over = (s[lo + 1] - s[lo + 1]) * over
          BY <2>5, <3>1
        <4> QED
          BY <3>1, <4>1
      <3>2. CASE over # 0
        <4>1. lo + 1 \in 1..count /\ lo + 2 \in 1..count
          BY <1>1, <2>3, <3>2
        <4>2. s[lo + 1] <= s[lo + 2] /\ s[lo + 2] \in Nat
          <5>1. (lo + 1) + 1 = lo + 2
            BY <2>3
          <5> QED
            BY <1>2, <1>3, <1>4, <4>1, <5>1
        <4>3. s[lo + 2] - s[lo + 1] \in Nat
          BY <2>5, <4>2
        <4>4. (lo + 1) + 1 = lo + 2
          BY <2>3
        <4> QED
          BY <3>2, <4>3, <4>4
      <3> QED
        BY <3>1, <3>2
    <2>7. PICK num \in Nat : num = s[lo + 1] * gaps + d * over
      BY <1>2, <2>3, <2>5
    <2>8. PICK den \in Nat \ {0} : den = TopScore * gaps
      BY <1>2
    <2>9. GridPoint(s, count, i) = Rounded(num, den)
      BY <2>4, <2>6, <2>7, <2>8
    <2> QED
      BY <2>9, RoundedType DEF Threshold
  <1>7. 0 \in Threshold /\ Steps \in Threshold
    BY PoliciesAssumption DEF Threshold
  <1> QED
    BY <1>5, <1>6, <1>7

\* A sorted score is the score of a sample.
LEMMA ScoreTaken ==
    ASSUME NEW samples \in SUBSET Sample, IsFiniteSet(samples), NEW i \in 1..Cardinality(samples)
    PROVE  \E x \in samples : x.score = SortedScores(samples)[i]
  <1>1. PICK a : a = SortedScores(samples)[i]
    OBVIOUS
  <1>2. a \in 0..TopScore /\ Cardinality(AtMost(a, samples)) >= i /\ Cardinality(Below(a, samples)) < i
    BY <1>1, SortedScore
  <1>3. Cardinality(AtMost(a, samples)) \in Nat /\ Cardinality(Below(a, samples)) \in Nat /\ i \in Nat
    BY FS_Subset, FS_CardinalityType DEF AtMost, Below
  <1>4. AtMost(a, samples) # Below(a, samples)
    BY <1>2, <1>3
  <1>5. \A x \in samples : x.score \in 0..TopScore
    BY DEF Sample
  <1>6. TopScore \in Nat
    BY PoliciesAssumption
  <1>7. PICK x \in samples : (x.score <= a) # (x.score < a)
    BY <1>4 DEF AtMost, Below
  <1>8. x.score = a
    BY <1>2, <1>5, <1>6, <1>7
  <1> QED
    BY <1>1, <1>8

\* The k samples below a threshold, if there are others, are those below the next score and
\* those up to the k-th.
LEMMA ScoresAround ==
    ASSUME NEW samples \in SUBSET Sample, IsFiniteSet(samples), NEW t \in 0..TopScore,
           NEW k, k = Cardinality(Below(t, samples)), samples \ Below(t, samples) # {}
    PROVE  /\ k \in 0..(Cardinality(samples) - 1)
           /\ Below(SortedScores(samples)[k + 1], samples) = Below(t, samples)
           /\ k # 0 => AtMost(SortedScores(samples)[k], samples) = Below(t, samples)
  <1> DEFINE count == Cardinality(samples)
  <1>1. \A x \in samples : x.score \in 0..TopScore
    BY DEF Sample
  <1>2. count \in Nat /\ k \in Nat /\ IsFiniteSet(Below(t, samples)) /\ TopScore \in Nat
    BY FS_Subset, FS_CardinalityType, PoliciesAssumption DEF Below
  <1>3. k < count
    <2>1. k <= count /\ (k = count => samples = Below(t, samples))
      BY FS_Subset DEF Below
    <2> QED
      BY <1>2, <2>1
  <1>4. PICK b : b = SortedScores(samples)[k + 1]
    OBVIOUS
  <1>5. b \in 0..TopScore /\ Cardinality(AtMost(b, samples)) >= k + 1 /\ Cardinality(Below(b, samples)) < k + 1
    BY <1>2, <1>3, <1>4, SortedScore
  <1>6. b >= t
    <2>1. ASSUME b < t PROVE FALSE
      <3>1. AtMost(b, samples) \subseteq Below(t, samples)
        BY <1>1, <1>2, <1>5, <2>1 DEF AtMost, Below
      <3>2. Cardinality(AtMost(b, samples)) <= k /\ IsFiniteSet(AtMost(b, samples))
        BY <1>2, <3>1, FS_Subset
      <3>3. Cardinality(AtMost(b, samples)) \in Nat
        BY <3>2, FS_CardinalityType
      <3> QED
        BY <1>2, <1>5, <3>2, <3>3
    <2> QED
      BY <1>2, <1>5, <2>1
  <1>7. Below(b, samples) = Below(t, samples)
    <2>1. Below(t, samples) \subseteq Below(b, samples)
      BY <1>1, <1>2, <1>5, <1>6 DEF Below
    <2>2. IsFiniteSet(Below(b, samples)) /\ Cardinality(Below(b, samples)) \in Nat
      BY FS_Subset, FS_CardinalityType DEF Below
    <2>3. k <= Cardinality(Below(b, samples)) /\ (k = Cardinality(Below(b, samples)) => Below(b, samples) = Below(t, samples))
      BY <2>1, <2>2, FS_Subset
    <2> QED
      BY <1>2, <1>5, <2>2, <2>3
  <1>8. ASSUME k # 0 PROVE AtMost(SortedScores(samples)[k], samples) = Below(t, samples)
    <2>1. PICK a : a = SortedScores(samples)[k]
      OBVIOUS
    <2>2. a \in 0..TopScore /\ Cardinality(AtMost(a, samples)) >= k /\ Cardinality(Below(a, samples)) < k
      <3>1. k \in 1..count
        BY <1>2, <1>3, <1>8
      <3> QED
        BY <2>1, <3>1, SortedScore
    <2>3. a < t
      <3>1. ASSUME a >= t PROVE FALSE
        <4>1. Below(t, samples) \subseteq Below(a, samples)
          BY <1>1, <1>2, <2>2, <3>1 DEF Below
        <4>2. IsFiniteSet(Below(a, samples)) /\ Cardinality(Below(a, samples)) \in Nat
          BY FS_Subset, FS_CardinalityType DEF Below
        <4>3. k <= Cardinality(Below(a, samples))
          BY <4>1, <4>2, FS_Subset
        <4> QED
          BY <1>2, <2>2, <4>2, <4>3
      <3> QED
        BY <1>2, <2>2, <3>1
    <2>4. AtMost(a, samples) \subseteq Below(t, samples)
      BY <1>1, <1>2, <2>2, <2>3 DEF AtMost, Below
    <2>5. IsFiniteSet(AtMost(a, samples)) /\ Cardinality(AtMost(a, samples)) <= k
          /\ (Cardinality(AtMost(a, samples)) = k => AtMost(a, samples) = Below(t, samples))
      BY <1>2, <2>4, FS_Subset
    <2>6. Cardinality(AtMost(a, samples)) \in Nat
      BY <2>5, FS_CardinalityType
    <2> QED
      BY <1>2, <2>1, <2>2, <2>5, <2>6
  <1> QED
    BY <1>2, <1>3, <1>4, <1>7, <1>8

\* A point between two scores that are far enough apart stays between them, or reaches the
\* second, when it is rounded.
LEMMA RoundedBetween ==
    ASSUME NEW a \in Nat, NEW d \in Nat \ {0}, NEW gaps \in Nat \ {0}, NEW over \in 1..(gaps - 1),
           2 * (d * Steps) >= gaps * TopScore,
           NEW tau, tau = Rounded(a * gaps + d * over, TopScore * gaps)
    PROVE  tau \in Nat /\ a * Steps < tau * TopScore /\ tau * TopScore <= (a + d) * Steps
  <1>1. TopScore \in Nat \ {0} /\ Steps \in Nat \ {0}
    BY PoliciesAssumption
  <1>2. PICK den \in Nat \ {0} : den = TopScore * gaps
    BY <1>1
  <1>3. PICK num \in Nat : num = a * gaps + d * over
    <2>1. over \in Nat
      OBVIOUS
    <2> QED
      BY <2>1
  <1>4. tau \in Nat /\ 2 * (tau * den) <= 2 * (num * Steps) + den /\ 2 * (num * Steps) < 2 * (tau * den) + den
    BY <1>2, <1>3, RoundedNear
  <1>5. a * gaps + d <= num /\ num + d <= (a + d) * gaps
    <2>1. d * over >= d /\ d * over + d <= d * gaps
      <3>1. over >= 1 /\ over + 1 <= gaps /\ over \in Nat
        OBVIOUS
      <3>2. d * over >= d * 1
        BY <3>1
      <3>3. d * (over + 1) <= d * gaps
        BY <3>1
      <3>4. d * (over + 1) = d * over + d /\ d * 1 = d
        BY <3>1
      <3> QED
        BY <3>2, <3>3, <3>4
    <2>2. (a + d) * gaps = a * gaps + d * gaps
      OBVIOUS
    <2>3. PICK p \in Nat : p = a * gaps
      OBVIOUS
    <2>4. PICK q \in Nat : q = d * gaps
      OBVIOUS
    <2>5. PICK r \in Nat : r = d * over
      <3>1. over \in Nat
        OBVIOUS
      <3> QED
        BY <3>1
    <2> QED
      BY <1>3, <2>1, <2>2, <2>3, <2>4, <2>5
  <1>6. PICK w \in Nat : w = d * Steps
    BY <1>1
  <1>7. PICK v \in Nat : v = a * Steps
    BY <1>1
  <1>8. PICK u \in Nat : u = (a + d) * Steps
    BY <1>1
  <1>9. PICK t \in Nat : t = tau * TopScore
    BY <1>1, <1>4
  <1>10. PICK n \in Nat : n = num * Steps
    BY <1>1
  <1>11. v * gaps + w <= n /\ n + w <= u * gaps
    <2>1. ASSUME NEW x \in Nat, NEW y \in Nat, x <= y PROVE x * Steps <= y * Steps
      BY <1>1, <2>1
    <2>2. a * gaps + d \in Nat /\ num + d \in Nat /\ (a + d) * gaps \in Nat
      OBVIOUS
    <2>3. (a * gaps + d) * Steps <= num * Steps /\ (num + d) * Steps <= ((a + d) * gaps) * Steps
      BY <1>5, <2>1, <2>2
    <2>4. (a * gaps + d) * Steps = v * gaps + w
      BY <1>1, <1>6, <1>7
    <2>5. (num + d) * Steps = n + w
      BY <1>1, <1>6, <1>10
    <2>6. ((a + d) * gaps) * Steps = u * gaps
      <3>1. PICK b \in Nat : b = a + d
        OBVIOUS
      <3>2. (b * gaps) * Steps = (b * Steps) * gaps
        BY <1>1
      <3> QED
        BY <1>8, <3>1, <3>2
    <2> QED
      BY <1>10, <2>3, <2>4, <2>5, <2>6
  <1>12. tau * den = t * gaps
    BY <1>1, <1>2, <1>4, <1>9
  <1>13. den <= 2 * w
    <2>1. gaps * TopScore = TopScore * gaps
      BY <1>1
    <2> QED
      BY <1>2, <1>6, <2>1
  <1>14. v * gaps < t * gaps /\ t * gaps <= u * gaps
    <2>1. PICK x \in Nat : x = v * gaps
      OBVIOUS
    <2>2. PICK y \in Nat : y = t * gaps
      OBVIOUS
    <2>3. PICK z \in Nat : z = u * gaps
      OBVIOUS
    <2>4. 2 * y <= 2 * n + den /\ 2 * n < 2 * y + den /\ x + w <= n /\ n + w <= z
      BY <1>4, <1>10, <1>11, <1>12, <2>1, <2>2, <2>3
    <2> QED
      BY <1>13, <2>1, <2>2, <2>3, <2>4
  <1>15. v < t /\ t <= u
    <2>1. v >= t => v * gaps >= t * gaps
      OBVIOUS
    <2>2. t >= u + 1 => t * gaps >= (u + 1) * gaps
      OBVIOUS
    <2>3. (u + 1) * gaps = u * gaps + gaps
      OBVIOUS
    <2>4. PICK x \in Nat : x = v * gaps
      OBVIOUS
    <2>5. PICK y \in Nat : y = t * gaps
      OBVIOUS
    <2>6. PICK z \in Nat : z = u * gaps
      OBVIOUS
    <2> QED
      BY <1>14, <2>1, <2>2, <2>3, <2>4, <2>5, <2>6
  <1> QED
    BY <1>4, <1>7, <1>8, <1>9, <1>15

\* Such a threshold accepts the scores from the second upwards.
LEMMA AcceptedBetween ==
    ASSUME NEW a \in Nat, NEW b \in Nat, NEW tau \in Nat, a * Steps < tau * TopScore, tau * TopScore <= b * Steps,
           NEW x \in Nat, x <= a \/ x >= b
    PROVE  Accepts(tau, x) <=> x >= b
  <1>1. TopScore \in Nat \ {0} /\ Steps \in Nat \ {0}
    BY PoliciesAssumption
  <1>2. PICK t \in Nat : t = tau * TopScore
    BY <1>1
  <1>3. x <= a => x * Steps <= a * Steps
    BY <1>1
  <1>4. x >= b => x * Steps >= b * Steps
    BY <1>1
  <1>5. a * Steps \in Nat /\ b * Steps \in Nat /\ x * Steps \in Nat
    BY <1>1
  <1>6. a < b
    <2>1. a >= b => a * Steps >= b * Steps
      BY <1>1
    <2> QED
      BY <1>2, <1>5, <2>1
  <1>7. Accepts(tau, x) <=> x * Steps >= t
    BY <1>2 DEF Accepts
  <1> QED
    BY <1>2, <1>3, <1>4, <1>5, <1>6, <1>7

\* The grid has a point for every cut that leaves anything.
LEMMA GridHasPoint ==
    ASSUME NEW samples \in SUBSET Sample, IsFiniteSet(samples), NEW t \in 0..TopScore,
           samples \ Below(t, samples) # {}, GridSeparates(samples)
    PROVE  \E tau \in Candidates(samples) : AcceptedBy(tau, samples) = samples \ Below(t, samples)
  <1> DEFINE count == Cardinality(samples)
  <1> DEFINE s == SortedScores(samples)
  <1>1. PICK k : k = Cardinality(Below(t, samples))
    OBVIOUS
  <1>2. /\ k \in 0..(count - 1)
        /\ Below(s[k + 1], samples) = Below(t, samples)
        /\ k # 0 => AtMost(s[k], samples) = Below(t, samples)
    BY <1>1, ScoresAround
  <1>3. count \in Nat \ {0} /\ s \in [1..count -> 0..TopScore] /\ TopScore \in Nat \ {0} /\ Steps \in Nat \ {0}
    BY <1>2, FS_CardinalityType, ScoresType, PoliciesAssumption
  <1>4. \A x \in samples : x.score \in Nat
    BY <1>3 DEF Sample
  <1>5. CASE k = 0
    <2>1. IsFiniteSet(Below(t, samples))
      BY FS_Subset DEF Below
    <2>2. Below(t, samples) = {}
      BY <1>1, <1>5, <2>1, FS_EmptySet
    <2>3. \A x \in samples : Accepts(0, x.score)
      <3>1. \A n \in Nat : Accepts(0, n)
        BY <1>3 DEF Accepts
      <3> QED
        BY <1>4, <3>1
    <2>4. AcceptedBy(0, samples) = samples \ Below(t, samples)
      BY <2>2, <2>3 DEF AcceptedBy
    <2>5. 0 \in Candidates(samples)
      BY DEF Candidates
    <2> QED
      BY <2>4, <2>5
  <1>6. CASE k # 0
    <2>1. PICK last \in Nat : last = count - 1
      BY <1>3
    <2>2. PICK gaps \in Nat \ {0} : gaps = GridSize(count) - 1
      BY <1>3, Gaps
    <2>3. count + 2 <= GridPoints /\ last < gaps /\ gaps = count + 1
      <3>1. count + 2 <= GridPoints
        BY DEF GridSeparates
      <3>2. GridPoints \in Nat
        BY PoliciesAssumption
      <3>3. GridSize(count) = count + 2
        BY <1>3, <3>1, <3>2 DEF GridSize
      <3> HIDE DEF count
      <3> QED
        BY <1>3, <2>1, <2>2, <3>1, <3>3
    <2>4. k \in 1..last /\ k \in 1..count /\ k + 1 \in 1..count
      BY <1>2, <1>3, <1>6, <2>1
    <2>5. PICK i \in 0..gaps : (k - 1) * gaps < i * last /\ i * last < k * gaps
      BY <2>3, <2>4, GridReaches
    <2>6. PICK lo : lo = (i * last) \div gaps
      OBVIOUS
    <2>7. PICK over : over = i * last - lo * gaps
      OBVIOUS
    <2>8. over \in 1..(gaps - 1) /\ lo + 1 = k
      BY ONLY <2>4, <2>5, <2>6, <2>7, GridLands
    <2>9. PICK a \in 0..TopScore : a = s[k]
      BY <1>3, <2>4
    <2>10. PICK b \in 0..TopScore : b = s[k + 1]
      BY <1>3, <2>4
    <2>11. AtMost(a, samples) = Below(b, samples)
      BY <1>2, <1>6, <2>9, <2>10
    <2>12. a < b
      <3>1. Cardinality(AtMost(b, samples)) >= k + 1
        BY <2>4, <2>10, SortedScore
      <3>2. Cardinality(AtMost(a, samples)) = k /\ k \in Nat
        BY <1>1, <1>2, <1>6, <2>9, <2>4
      <3>3. a # b
        BY <3>1, <3>2
      <3>4. a <= b
        BY <2>4, <2>9, <2>10, ScoresAscend
      <3> QED
        BY <1>3, <3>3, <3>4
    <2>13. PICK d \in Nat \ {0} : d = b - a /\ b = a + d
      <3>1. b - a \in Nat \ {0} /\ b = a + (b - a)
        BY <1>3, <2>12
      <3> QED
        BY <3>1
    <2>14. 2 * (d * Steps) >= gaps * TopScore
      <3>1. PICK x \in samples : x.score = a
        BY <2>4, <2>9, ScoreTaken
      <3>2. PICK y \in samples : y.score = b
        BY <2>4, <2>10, ScoreTaken
      <3>3. 2 * (b - a) * Steps >= (count + 1) * TopScore
        BY <2>12, <3>1, <3>2 DEF GridSeparates
      <3>4. 2 * d * Steps = 2 * (d * Steps)
        BY <1>3
      <3> HIDE DEF count
      <3> QED
        BY <2>3, <2>13, <3>3, <3>4
    <2>15. PICK tau : tau = Rounded(a * gaps + d * over, TopScore * gaps)
      OBVIOUS
    <2>16. tau = GridPoint(s, count, i)
      <3>1. over # 0 /\ (lo + 1) + 1 = k + 1
        BY <2>4, <2>8
      <3> HIDE DEF s, count
      <3>2. GridPoint(s, count, i) =
              Rounded(s[lo + 1] * gaps + (s[(IF over = 0 THEN lo ELSE lo + 1) + 1] - s[lo + 1]) * over, TopScore * gaps)
        <4>1. lo = (i * (count - 1)) \div gaps /\ over = i * (count - 1) - lo * gaps
          BY ONLY <2>1, <2>6, <2>7
        <4> QED
          BY ONLY <2>2, <4>1 DEF GridPoint
      <3>3. s[(IF over = 0 THEN lo ELSE lo + 1) + 1] = b /\ s[lo + 1] = a
        BY <2>8, <2>9, <2>10, <3>1
      <3> QED
        BY <2>13, <2>15, <3>2, <3>3
    <2>17. tau \in Candidates(samples)
      BY <2>2, <2>16 DEF Candidates
    <2>18. tau \in Nat /\ a * Steps < tau * TopScore /\ tau * TopScore <= b * Steps
      <3>1. a \in Nat
        BY <1>3
      <3>2. tau \in Nat /\ a * Steps < tau * TopScore /\ tau * TopScore <= (a + d) * Steps
        BY <2>8, <2>14, <2>15, <3>1, RoundedBetween
      <3> QED
        BY <2>13, <3>2
    <2>19. ASSUME NEW x \in samples PROVE Accepts(tau, x.score) <=> ~ (x.score < b)
      <3>1. PICK v \in Nat : v = x.score
        BY <1>4
      <3>2. v <= a \/ v >= b
        BY <1>3, <2>11, <3>1 DEF AtMost, Below
      <3>3. a \in Nat /\ b \in Nat
        BY <1>3
      <3>4. Accepts(tau, v) <=> v >= b
        BY <2>18, <3>2, <3>3, AcceptedBetween
      <3> QED
        BY <3>1, <3>3, <3>4
    <2>20. AcceptedBy(tau, samples) = samples \ Below(b, samples)
      BY <2>19 DEF AcceptedBy, Below
    <2> QED
      BY <1>2, <2>10, <2>17, <2>20
  <1> QED
    BY <1>5, <1>6

\* What a threshold at a score would accept.
CutAt(t, samples) == {x \in samples : x.score >= t}

\* The search finds a threshold that accepts as much as any such cut.
LEMMA ChosenIsBest ==
    ASSUME NEW samples \in SUBSET Sample, IsFiniteSet(samples), Proposable(samples)
    PROVE  /\ Chosen(samples) \in Threshold
           /\ GridSeparates(samples) =>
                 \A t \in 0..TopScore : KeepsTarget(CutAt(t, samples)) =>
                    Cardinality(CutAt(t, samples)) <= Cardinality(AcceptedBy(Chosen(samples), samples))
  <1> DEFINE good == {tau \in Candidates(samples) : WithinTarget(tau, samples)}
  <1> DEFINE size(tau) == Cardinality(AcceptedBy(tau, samples))
  <1> DEFINE sizes == {size(tau) : tau \in good}
  <1>1. good # {} /\ samples # {}
    BY DEF Proposable
  <1>2. \A tau : size(tau) \in Nat /\ size(tau) <= Cardinality(samples)
    <2>1. ASSUME NEW tau PROVE IsFiniteSet(AcceptedBy(tau, samples)) /\ size(tau) <= Cardinality(samples)
      <3>1. AcceptedBy(tau, samples) \in SUBSET samples
        BY DEF AcceptedBy
      <3> QED
        BY <3>1, FS_Subset
    <2>2. ASSUME NEW tau PROVE size(tau) \in Nat
      BY <2>1, FS_CardinalityType
    <2> QED
      BY <2>1, <2>2
  <1>3. Cardinality(samples) \in Nat
    BY FS_CardinalityType
  <1>4. PICK most \in sizes : \A n \in sizes : n <= most
    <2>1. sizes \in SUBSET Nat /\ sizes # {} /\ \A n \in sizes : n <= Cardinality(samples)
      BY <1>1, <1>2
    <2> HIDE DEF sizes
    <2> QED
      BY <1>3, <2>1, GreatestNatural
  <1>5. \E tau \in good : \A other \in good : size(other) <= size(tau)
    <2>1. PICK tau \in good : size(tau) = most
      BY <1>4
    <2> QED
      BY <1>4, <2>1
  <1>6. Chosen(samples) = CHOOSE tau \in good : \A other \in good : size(other) <= size(tau)
    BY DEF Chosen
  <1> HIDE DEF good, size, sizes
  <1>7. Chosen(samples) \in good /\ \A other \in good : size(other) <= size(Chosen(samples))
    BY <1>5, <1>6
  <1>8. Chosen(samples) \in Threshold
    BY <1>1, <1>7, CandidatesType DEF good
  <1>9. ASSUME GridSeparates(samples), NEW t \in 0..TopScore, KeepsTarget(CutAt(t, samples))
        PROVE  Cardinality(CutAt(t, samples)) <= size(Chosen(samples))
    <2>1. CutAt(t, samples) = samples \ Below(t, samples)
      <3>1. \A x \in samples : x.score \in Nat /\ t \in Nat
        BY PoliciesAssumption DEF Sample
      <3> QED
        BY <3>1 DEF CutAt, Below
    <2>2. CASE CutAt(t, samples) = {}
      <3>1. Cardinality(CutAt(t, samples)) = 0
        BY <2>2, FS_EmptySet
      <3> QED
        BY <1>2, <3>1
    <2>3. CASE CutAt(t, samples) # {}
      <3>1. PICK tau \in Candidates(samples) : AcceptedBy(tau, samples) = CutAt(t, samples)
        BY <1>9, <2>1, <2>3, GridHasPoint
      <3>2. WithinTarget(tau, samples)
        BY <1>9, <3>1 DEF WithinTarget
      <3>3. tau \in good /\ size(tau) = Cardinality(CutAt(t, samples))
        BY <3>1, <3>2 DEF good, size
      <3> QED
        BY <1>7, <3>3
    <2> QED
      BY <2>2, <2>3
  <1> QED
    BY <1>8, <1>9 DEF size

-----------------------------------------------------------------------------
(* Predictions, reviews and policies: types. *)

\* The feedback that a proposal may read is a finite set of samples.
Begun == {e \in Inferences : event[e].step # "idle"}

LEMMA FeedbackType ==
    ASSUME PoliciesTypeOK, IsFiniteSet(Begun), NEW m
    PROVE  Feedback(m) \in SUBSET Sample /\ IsFiniteSet(Feedback(m))
  <1> DEFINE E == {x \in Inferences : event[x].model = m /\ event[x].step = "recorded"
                                        /\ reviewItem[x].outcome \in {"right label", "wrong label"}}
  <1> DEFINE sample(e) == [event |-> e, score |-> event[e].score, correct |-> reviewItem[e].outcome = "right label"]
  <1> DEFINE f == [e \in E |-> sample(e)]
  <1>1. E \in SUBSET Begun
    BY DEF Begun
  <1>2. IsFiniteSet(E)
    BY <1>1, FS_Subset
  <1>3. Feedback(m) = {sample(e) : e \in E}
    BY DEF Feedback
  <1>4. f \in Surjection(E, Feedback(m))
    <2> HIDE DEF E, sample
    <2> QED
      BY <1>3 DEF Surjection
  <1>5. IsFiniteSet(Feedback(m))
    <2> HIDE DEF f, E
    <2> QED
      BY <1>2, <1>4, FS_Surjection
  <1>6. ASSUME NEW e \in E PROVE sample(e) \in Sample
    <2>1. event[e].score \in 0..TopScore
      BY DEF PoliciesTypeOK, Event
    <2>2. (reviewItem[e].outcome = "right label") \in BOOLEAN
      OBVIOUS
    <2>3. PICK ok \in BOOLEAN : ok = (reviewItem[e].outcome = "right label")
      BY <2>2
    <2>4. sample(e) = [event |-> e, score |-> event[e].score, correct |-> ok]
      BY <2>3, Zenon
    <2>5. [event |-> e, score |-> event[e].score, correct |-> ok] \in Sample
      BY <2>1 DEF Sample
    <2> QED
      BY <2>4, <2>5
  <1> HIDE DEF E, sample
  <1>7. Feedback(m) \subseteq Sample
    BY <1>3, <1>6
  <1> QED
    BY <1>5, <1>7

\* What a prediction reads is a policy or none.
LEMMA ActivePolicyType ==
    ASSUME NEW m
    PROVE  /\ ActivePolicy(m) \in Policies \cup {NoPolicy}
           /\ ActivePolicy(m) \in Policies => policy[ActivePolicy(m)].status = "active"
  <1> DEFINE active == {p \in Policies : policy[p].status = "active" /\ policy[p].model = m}
  <1>1. CASE active = {}
    <2>1. ActivePolicy(m) = NoPolicy
      BY <1>1 DEF ActivePolicy
    <2> QED
      BY <2>1, PoliciesAssumption
  <1>2. CASE active # {}
    <2>1. ActivePolicy(m) = CHOOSE p \in active : TRUE
      BY <1>2 DEF ActivePolicy
    <2>2. ActivePolicy(m) \in active
      BY <1>2, <2>1
    <2> QED
      BY <2>2
  <1> QED
    BY <1>1, <1>2

\* A prediction's row keeps its type.
LEMMA InferenceTypes ==
    ASSUME PoliciesTypeOK, NEW e \in Inferences, InferenceWork(e)
    PROVE  PoliciesTypeOK'
  <1>1. PICK x \in Event : x = event[e]
    BY DEF PoliciesTypeOK
  <1>2. ASSUME NEW y \in Event, event' = [event EXCEPT ![e] = y], UNCHANGED <<policy, proposal, shadow, reviewItem>>
        PROVE  PoliciesTypeOK'
    BY <1>2 DEF PoliciesTypeOK
  <1>3. CASE ReadPolicy(e)
    <2>1. PICK p \in Policies \cup {NoPolicy} : p = ActivePolicy(event[e].model)
      BY ActivePolicyType
    <2>2. PICK y : y = [x EXCEPT !.step = "decided", !.applied = p]
      OBVIOUS
    <2>3. y \in Event
      BY <2>2 DEF Event
    <2>4. event' = [event EXCEPT ![e] = y]
      BY <1>1, <1>3, <2>1, <2>2 DEF ReadPolicy, PoliciesTypeOK
    <2> QED
      BY <1>2, <1>3, <2>3, <2>4 DEF ReadPolicy
  <1>4. ASSUME NEW score \in 0..TopScore, NEW decision \in {"accept", "abstain"}, Predict(e, score, decision)
        PROVE  PoliciesTypeOK'
    <2>1. PICK y : y = [x EXCEPT !.step = "predicted", !.score = score, !.decision = decision]
      OBVIOUS
    <2>2. y \in Event
      BY <2>1 DEF Event
    <2>3. event' = [event EXCEPT ![e] = y]
      BY <1>1, <1>4, <2>1 DEF Predict, PoliciesTypeOK
    <2> QED
      BY <1>2, <1>4, <2>2, <2>3 DEF Predict
  <1>5. ASSUME NEW step \in {"refused", "recorded"} PROVE [x EXCEPT !.step = step] \in Event
    BY DEF Event
  <1>6. CASE PredictionFails(e)
    <2>1. event' = [event EXCEPT ![e] = [x EXCEPT !.step = "refused"]]
      BY <1>1, <1>6 DEF PredictionFails, PoliciesTypeOK
    <2> QED
      BY <1>2, <1>5, <1>6, <2>1 DEF PredictionFails
  <1>7. CASE Insert(e)
    <2>1. PICK ps \in SUBSET Policies : ps = Shadowing(x.model)
      BY DEF Shadowing
    <2>2. PICK y : y = [x EXCEPT !.step = "inserted", !.shadows = ps]
      OBVIOUS
    <2>3. y \in Event
      BY <2>2 DEF Event
    <2>4. event' = [event EXCEPT ![e] = y] \/ event' = [event EXCEPT ![e] = [x EXCEPT !.step = "refused"]]
      BY <1>1, <1>7, <2>1, <2>2 DEF Insert, PoliciesTypeOK
    <2> QED
      BY <1>2, <1>5, <1>7, <2>3, <2>4 DEF Insert
  <1>8. CASE Commit(e)
    <2>1. event' = [event EXCEPT ![e] = [x EXCEPT !.step = "recorded"]]
      BY <1>1, <1>8 DEF Commit, PoliciesTypeOK
    <2>2. event' \in [Inferences -> Event]
      BY <1>5, <2>1 DEF PoliciesTypeOK
    <2>3. shadow' \in [Policies \X Inferences -> Nat]
      BY <1>8 DEF Commit, PoliciesTypeOK
    <2>4. reviewItem' \in [Inferences -> ReviewItem]
      BY <1>8 DEF Commit, PoliciesTypeOK, ReviewItem
    <2> QED
      BY <1>8, <2>2, <2>3, <2>4 DEF Commit, PoliciesTypeOK
  <1> QED
    BY <1>3, <1>4, <1>6, <1>7, <1>8 DEF InferenceWork

\* A policy that supersedes another is one of the policies.
LEMMA SupersededType ==
    ASSUME PoliciesTypeOK, NEW p \in Policies
    PROVE  Superseded(p) \in [Policies -> Policy]
  BY DEF PoliciesTypeOK, Superseded, Policy

LEMMA PolicyTypes ==
    ASSUME PoliciesTypeOK, IsFiniteSet(Begun), PolicyStep
    PROVE  PoliciesTypeOK'
  <1>1. ASSUME NEW e \in Inferences, InferenceWork(e) PROVE PoliciesTypeOK'
    BY <1>1, InferenceTypes
  <1>2. ASSUME NEW e \in Inferences, NEW m \in Models, NEW asked \in BOOLEAN, Resolve(e, m, asked)
        PROVE  PoliciesTypeOK'
    <2>1. PICK x \in Event : x = event[e]
      BY DEF PoliciesTypeOK
    <2>2. PICK y : y = [x EXCEPT !.step = "resolved", !.model = m, !.asked = asked]
      OBVIOUS
    <2>3. y \in Event
      BY <2>2 DEF Event
    <2>4. event' = [event EXCEPT ![e] = y]
      BY <1>2, <2>1, <2>2 DEF Resolve, PoliciesTypeOK
    <2> QED
      BY <1>2, <2>3, <2>4 DEF Resolve, PoliciesTypeOK
  <1>3. ASSUME NEW e \in Inferences, NEW outcome \in Outcomes, Submit(e, outcome) PROVE PoliciesTypeOK'
    BY <1>3 DEF Submit, PoliciesTypeOK, ReviewItem
  <1>4. ASSUME NEW e \in Inferences, AskAssistance(e) \/ SaveAssistance(e) PROVE PoliciesTypeOK'
    <2>1. reviewItem \in [Inferences -> ReviewItem]
      BY DEF PoliciesTypeOK
    <2>2. CASE AskAssistance(e)
      <3>1. reviewItem' \in [Inferences -> ReviewItem]
        BY ONLY <2>1, <2>2 DEF AskAssistance, ReviewItem
      <3> QED
        BY <2>2, <3>1 DEF AskAssistance, PoliciesTypeOK
    <2>3. CASE SaveAssistance(e)
      <3>1. reviewItem' \in [Inferences -> ReviewItem]
        BY ONLY <2>1, <2>3 DEF SaveAssistance, ReviewItem
      <3> QED
        BY <2>3, <3>1 DEF SaveAssistance, PoliciesTypeOK
    <2> QED
      BY <1>4, <2>2, <2>3
  <1>5. ASSUME NEW p \in Policies, NEW m \in Models, BeginProposal(p, m) PROVE PoliciesTypeOK'
    <2>1. Feedback(m) \in SUBSET Sample /\ Chosen(Feedback(m)) \in Threshold
      BY <1>5, FeedbackType, ChosenIsBest DEF BeginProposal
    <2>2. PICK samples \in SUBSET Sample : samples = Feedback(m)
      BY <2>1
    <2>3. PICK tau \in Threshold : tau = Chosen(Feedback(m))
      BY <2>1
    <2>4. PICK events \in SUBSET Inferences : events = {e \in Inferences : event[e].model = m /\ event[e].step = "recorded"}
      OBVIOUS
    <2>5. PICK pol : pol = [status |-> "shadow", model |-> m, tau |-> tau, samples |-> samples]
      OBVIOUS
    <2>6. pol \in Policy
      BY <2>5 DEF Policy
    <2>7. proposal' = [proposal EXCEPT ![p] = [open |-> TRUE, policy |-> pol, events |-> events]]
      BY <1>5, <2>2, <2>3, <2>4, <2>5 DEF BeginProposal
    <2>8. [open |-> TRUE, policy |-> pol, events |-> events] \in Proposal
      BY <2>6 DEF Proposal
    <2>9. proposal' \in [Policies -> Proposal]
      BY <2>7, <2>8 DEF PoliciesTypeOK
    <2> QED
      BY <1>5, <2>9 DEF BeginProposal, PoliciesTypeOK
  <1>6. ASSUME NEW p \in Policies, CommitProposal(p) PROVE PoliciesTypeOK'
    <2>1. policy' \in [Policies -> Policy]
      BY <1>6 DEF CommitProposal, PoliciesTypeOK, Proposal
    <2>2. shadow' \in [Policies \X Inferences -> Nat]
      BY <1>6 DEF CommitProposal, PoliciesTypeOK
    <2>3. NoProposal \in Proposal
      BY DEF NoProposal, NewPolicy, Proposal, Policy, Threshold
    <2>4. proposal' \in [Policies -> Proposal]
      BY <1>6, <2>3 DEF CommitProposal, PoliciesTypeOK
    <2> QED
      BY <1>6, <2>1, <2>2, <2>4 DEF CommitProposal, PoliciesTypeOK
  <1>7. ASSUME NEW p \in Policies, Activate(p) PROVE PoliciesTypeOK'
    <2>1. PICK s \in [Policies -> Policy] : s = Superseded(p)
      BY SupersededType
    <2>2. policy' = [s EXCEPT ![p].status = "active"]
      BY <1>7, <2>1 DEF Activate
    <2>3. policy' \in [Policies -> Policy]
      BY <2>2 DEF Policy
    <2> QED
      BY <1>7, <2>3 DEF Activate, PoliciesTypeOK
  <1>8. ASSUME NEW p \in Policies, Deactivate(p) PROVE PoliciesTypeOK'
    <2>1. policy' \in [Policies -> Policy]
      BY <1>8 DEF Deactivate, PoliciesTypeOK, Policy
    <2> QED
      BY <1>8, <2>1 DEF Deactivate, PoliciesTypeOK
  <1> QED
    BY <1>1, <1>2, <1>3, <1>4, <1>5, <1>6, <1>7, <1>8 DEF PolicyStep

-----------------------------------------------------------------------------
(* Predictions, reviews and policies: the inductive invariant. *)

\* A policy found by the search; what it was found from stays with it.
Best(pol) ==
    GridSeparates(pol.samples) =>
        \A t \in 0..TopScore : KeepsTarget(CutAt(t, pol.samples)) =>
            Cardinality(CutAt(t, pol.samples)) <= Cardinality(AcceptedBy(pol.tau, pol.samples))

PoliciesBest == \A p \in Policies : policy[p].status # "absent" => Best(policy[p])

\* A proposal is about a policy that is not there yet, and about what is recorded.
ProposalsReady ==
    \A p \in Policies : proposal[p].open =>
        /\ policy[p].status = "absent"
        /\ proposal[p].policy.status = "shadow" /\ Best(proposal[p].policy)
        /\ \A e \in proposal[p].events : event[e].step = "recorded"

\* While a prediction is inserted it holds its version, which is in production.
SharesHeld ==
    \A e \in Inferences : event[e].step = "inserted" =>
        /\ event[e].model \in Models
        /\ e \in shareLock[event[e].model]
        /\ model[event[e].model].status = "production"

\* A policy decides in the shadow or itself, and never goes back to the shadow.
EventsReady ==
    \A e \in Inferences :
        /\ event[e].step # "idle" => event[e].model \in Models
        /\ event[e].step \notin {"inserted", "recorded"} => event[e].shadows = {}
        /\ \A p \in Policies : event[e].applied = p =>
              policy[p].status \notin {"absent", "shadow"} /\ p \notin event[e].shadows
        /\ \A p \in event[e].shadows : policy[p].status # "absent"

ReviewsReady == \A e \in Inferences : reviewItem[e].status # "none" => event[e].step = "recorded"

ShadowsReady ==
    \A p \in Policies, e \in Inferences :
        /\ shadow[<<p, e>>] <= 1
        /\ shadow[<<p, e>>] # 0 =>
              event[e].step = "recorded" /\ policy[p].status # "absent" /\ event[e].applied # p

ReviewInv ==
    /\ PoliciesTypeOK /\ IsFiniteSet(Begun)
    /\ OneActivePolicy /\ PoliciesBest /\ ProposalsReady
    /\ SharesHeld /\ EventsReady /\ ReviewsReady /\ ShadowsReady

\* What a policy learned from does not change with its status.
LEMMA BestKept ==
    ASSUME NEW p \in Policy, NEW status
    PROVE  Best(p) <=> Best([p EXCEPT !.status = status])
  <1>1. PICK q : q = [p EXCEPT !.status = status]
    OBVIOUS
  <1>2. q.samples = p.samples /\ q.tau = p.tau
    BY <1>1 DEF Policy
  <1> QED
    BY <1>1, <1>2 DEF Best

\* The registry leaves predictions alone, and the version that one of them holds.
LEMMA RegistryWaits ==
    ASSUME RegistryInv, RegistryStep
    PROVE  /\ UNCHANGED shareLock
           /\ \A m \in Models : shareLock[m] # {} => model'[m] = model[m]
  <1>1. PICK c \in Publishers : RegistryRequest(c) \/ RegistryWork(c)
    BY DEF RegistryStep
  <1>2. CASE RegistryRequest(c)
    BY <1>1, <1>2, RequestRemembers
  <1>3. CASE ExportFails(c) \/ LockForRelease(c) \/ WriteAlias(c)
    BY <1>3 DEF ExportFails, LockForRelease, WriteAlias
  <1>4. CASE CompletePublication(c)
    <2>1. \A m \in Models : m # publisher[c].model => model'[m] = model[m]
      BY <1>4 DEF CompletePublication, RegistryInv, ModelsTypeOK
    <2> QED
      BY <1>4, <2>1 DEF CompletePublication, Writable
  <1>5. CASE Transition(c)
    <2>1. \A m \in Models : m # publisher[c].model => model'[m] = model[m]
      BY <1>5 DEF Transition, RegistryInv, ModelsTypeOK
    <2> QED
      BY <1>5, <2>1 DEF Transition, Writable
  <1> QED
    BY <1>1, <1>2, <1>3, <1>4, <1>5 DEF RegistryWork

LEMMA RegistryKeepsReviews ==
    ASSUME RegistryInv, ReviewInv, RegistryStep, UNCHANGED policyVars
    PROVE  ReviewInv'
  <1> USE DEF policyVars
  <1>1. SharesHeld'
    <2>1. ASSUME NEW e \in Inferences, event[e].step = "inserted"
          PROVE  /\ event[e].model \in Models /\ e \in shareLock'[event[e].model]
                 /\ model'[event[e].model].status = "production"
      <3>1. PICK m \in Models : m = event[e].model
        BY <2>1 DEF ReviewInv, SharesHeld
      <3>2. e \in shareLock[m] /\ model[m].status = "production"
        BY <2>1, <3>1 DEF ReviewInv, SharesHeld
      <3> QED
        BY <3>1, <3>2, RegistryWaits
    <2> QED
      BY <2>1 DEF SharesHeld
  <1>2. (PoliciesTypeOK /\ IsFiniteSet(Begun))'
    BY DEF ReviewInv, PoliciesTypeOK, Begun
  <1>3. (OneActivePolicy /\ PoliciesBest /\ ProposalsReady)'
    BY DEF ReviewInv, OneActivePolicy, PoliciesBest, ProposalsReady, Best
  <1>4. (EventsReady /\ ReviewsReady /\ ShadowsReady)'
    BY DEF ReviewInv, EventsReady, ReviewsReady, ShadowsReady
  <1> QED
    BY <1>1, <1>2, <1>3, <1>4 DEF ReviewInv

-----------------------------------------------------------------------------
(* A prediction, step by step. *)

\* An event that was begun stays so.
LEMMA BegunKept ==
    ASSUME IsFiniteSet(Begun), NEW e \in Inferences, \A d \in Inferences : d # e => event'[d] = event[d]
    PROVE  IsFiniteSet(Begun')
  <1>1. Begun' \in SUBSET (Begun \cup {e})
    BY DEF Begun
  <1>2. IsFiniteSet(Begun \cup {e})
    BY FS_AddElement
  <1> QED
    BY <1>1, <1>2, FS_Subset

\* A step of a prediction before its commit.
LEMMA EventStep ==
    ASSUME ReviewInv, PoliciesTypeOK', NEW e \in Inferences, NEW y \in Event,
           event' = [event EXCEPT ![e] = y], event[e].step # "recorded", y.step # "recorded",
           UNCHANGED <<model, policy, proposal, shadow, reviewItem>>,
           \A d \in Inferences, m \in Models : d # e /\ d \in shareLock[m] => d \in shareLock'[m],
           y.step = "inserted" => /\ e \in shareLock'[y.model] /\ model[y.model].status = "production",
           y.step # "idle" => y.model \in Models,
           y.step # "inserted" => y.shadows = {},
           \A p \in Policies : y.applied = p => policy[p].status \notin {"absent", "shadow"} /\ p \notin y.shadows,
           \A p \in y.shadows : policy[p].status # "absent"
    PROVE  ReviewInv'
  <1>1. event'[e] = y /\ \A d \in Inferences : d # e => event'[d] = event[d]
    BY DEF ReviewInv, PoliciesTypeOK
  <1>2. IsFiniteSet(Begun')
    BY <1>1, BegunKept DEF ReviewInv
  <1>3. (OneActivePolicy /\ PoliciesBest)'
    BY DEF ReviewInv, OneActivePolicy, PoliciesBest, Best
  <1>4. ProposalsReady'
    <2>1. \A d \in Inferences : event[d].step = "recorded" => event'[d].step = "recorded"
      BY <1>1
    <2>2. \A p \in Policies : proposal[p].events \subseteq Inferences
      BY DEF ReviewInv, PoliciesTypeOK, Proposal
    <2> QED
      BY <2>1, <2>2 DEF ReviewInv, ProposalsReady, Best
  <1>5. SharesHeld'
    <2>1. ASSUME NEW d \in Inferences, NEW x, x = event'[d], x.step = "inserted"
          PROVE  x.model \in Models /\ d \in shareLock'[x.model] /\ model[x.model].status = "production"
      BY <1>1, <2>1 DEF ReviewInv, SharesHeld
    <2> QED
      BY <2>1 DEF SharesHeld
  <1>6. EventsReady'
    BY <1>1 DEF ReviewInv, EventsReady
  <1>7. ReviewsReady'
    BY <1>1 DEF ReviewInv, ReviewsReady
  <1>8. ShadowsReady'
    <2>1. ASSUME NEW p \in Policies, NEW d \in Inferences
          PROVE  /\ shadow[<<p, d>>] <= 1
                 /\ shadow[<<p, d>>] # 0 =>
                       event'[d].step = "recorded" /\ policy[p].status # "absent" /\ event'[d].applied # p
      <3>1. /\ shadow[<<p, d>>] <= 1
            /\ shadow[<<p, d>>] # 0 =>
                  event[d].step = "recorded" /\ policy[p].status # "absent" /\ event[d].applied # p
        BY DEF ReviewInv, ShadowsReady
      <3> QED
        BY <1>1, <3>1
    <2> QED
      BY <2>1 DEF ShadowsReady
  <1> QED
    BY <1>2, <1>3, <1>4, <1>5, <1>6, <1>7, <1>8 DEF ReviewInv

\* What a prediction that has not begun its transaction may do with its row.
LEMMA WorkerSteps ==
    ASSUME ReviewInv, PoliciesTypeOK', NEW e \in Inferences, NEW y \in Event,
           event' = [event EXCEPT ![e] = y], event[e].step \notin {"recorded", "inserted"},
           y.step \notin {"recorded", "inserted"},
           UNCHANGED <<modelVars, policy, proposal, shadow, reviewItem>>,
           y.step # "idle" => y.model \in Models,
           y.shadows = event[e].shadows,
           \A p \in Policies : y.applied = p => event[e].applied = p \/ policy[p].status = "active"
    PROVE  ReviewInv'
  <1>1. y.shadows = {}
    BY DEF ReviewInv, EventsReady
  <1>2. \A p \in Policies : y.applied = p => policy[p].status \notin {"absent", "shadow"}
    BY DEF ReviewInv, EventsReady
  <1>3. UNCHANGED <<model, shareLock>>
    BY DEF modelVars
  <1> QED
    BY <1>1, <1>2, <1>3, EventStep

LEMMA ResolveKeeps ==
    ASSUME ReviewInv, PoliciesTypeOK', NEW e \in Inferences, NEW m \in Models, NEW asked \in BOOLEAN,
           Resolve(e, m, asked)
    PROVE  ReviewInv'
  <1>1. PICK x \in Event : x = event[e]
    BY DEF ReviewInv, PoliciesTypeOK
  <1>2. PICK y : y = [x EXCEPT !.step = "resolved", !.model = m, !.asked = asked]
    OBVIOUS
  <1>3. y \in Event /\ y.step = "resolved" /\ y.model = m /\ y.shadows = x.shadows /\ y.applied = x.applied
    BY <1>2 DEF Event
  <1>4. event' = [event EXCEPT ![e] = y]
    BY <1>1, <1>2 DEF Resolve, ReviewInv, PoliciesTypeOK
  <1>5. event[e].step = "idle" /\ UNCHANGED <<modelVars, policy, proposal, shadow, reviewItem>>
    BY DEF Resolve
  <1> QED
    BY <1>1, <1>3, <1>4, <1>5, WorkerSteps

LEMMA InferenceKeeps ==
    ASSUME ReviewInv, PoliciesTypeOK', ModelsTypeOK, NEW e \in Inferences,
           ReadPolicy(e) \/ (\E score \in 0..TopScore, decision \in {"accept", "abstain"} : Predict(e, score, decision))
             \/ PredictionFails(e) \/ Insert(e)
    PROVE  ReviewInv'
  <1>1. PICK x \in Event : x = event[e]
    BY DEF ReviewInv, PoliciesTypeOK
  <1>2. x.step # "idle" => x.model \in Models
    BY <1>1 DEF ReviewInv, EventsReady
  <1>3. CASE ReadPolicy(e)
    <2>1. PICK p \in Policies \cup {NoPolicy} :
             p = ActivePolicy(event[e].model) /\ (p \in Policies => policy[p].status = "active")
      BY ActivePolicyType
    <2>2. PICK y : y = [x EXCEPT !.step = "decided", !.applied = p]
      OBVIOUS
    <2>3. y \in Event /\ y.step = "decided" /\ y.model = x.model /\ y.shadows = x.shadows /\ y.applied = p
      BY <2>2 DEF Event
    <2>4. event' = [event EXCEPT ![e] = y]
      BY <1>1, <1>3, <2>1, <2>2 DEF ReadPolicy, ReviewInv, PoliciesTypeOK
    <2>5. event[e].step = "resolved" /\ UNCHANGED <<modelVars, policy, proposal, shadow, reviewItem>>
      BY <1>3 DEF ReadPolicy
    <2>6. /\ y.step \notin {"idle", "recorded", "inserted"} /\ y.model \in Models
          /\ event[e].step \notin {"recorded", "inserted"} /\ y.shadows = event[e].shadows
      BY <1>1, <1>2, <2>3, <2>5
    <2>7. \A q \in Policies : y.applied = q => policy[q].status = "active"
      BY <2>1, <2>3
    <2> QED
      BY <2>3, <2>4, <2>5, <2>6, <2>7, WorkerSteps
  <1>4. ASSUME NEW score \in 0..TopScore, NEW decision \in {"accept", "abstain"}, Predict(e, score, decision)
        PROVE  ReviewInv'
    <2>1. PICK y : y = [x EXCEPT !.step = "predicted", !.score = score, !.decision = decision]
      OBVIOUS
    <2>2. y \in Event /\ y.step = "predicted" /\ y.model = x.model /\ y.shadows = x.shadows /\ y.applied = x.applied
      BY <2>1 DEF Event
    <2>3. event' = [event EXCEPT ![e] = y]
      BY <1>1, <1>4, <2>1 DEF Predict, ReviewInv, PoliciesTypeOK
    <2>4. event[e].step = "decided" /\ UNCHANGED <<modelVars, policy, proposal, shadow, reviewItem>>
      BY <1>4 DEF Predict
    <2> QED
      BY <1>1, <1>2, <2>2, <2>3, <2>4, WorkerSteps
  <1>5. PICK z : z = [x EXCEPT !.step = "refused"]
    OBVIOUS
  <1>6. z \in Event /\ z.step = "refused" /\ z.model = x.model /\ z.shadows = x.shadows /\ z.applied = x.applied
    BY <1>5 DEF Event
  <1>7. CASE PredictionFails(e)
    <2>1. event' = [event EXCEPT ![e] = z]
      BY <1>1, <1>5, <1>7 DEF PredictionFails, ReviewInv, PoliciesTypeOK
    <2>2. event[e].step \in {"resolved", "decided", "predicted"} /\ UNCHANGED <<modelVars, policy, proposal, shadow, reviewItem>>
      BY <1>7 DEF PredictionFails
    <2> QED
      BY <1>1, <1>2, <1>6, <2>1, <2>2, WorkerSteps
  <1>8. CASE Insert(e)
    <2>1. x.step = "predicted" /\ UNCHANGED <<model, alias, publisher, datasetLock, policy, proposal, shadow, reviewItem>>
      BY <1>1, <1>8 DEF Insert
    <2>2. PICK m \in Models : m = x.model
      BY <1>2, <2>1
    <2>3. CASE model[m].status # "production"
      <3>1. event' = [event EXCEPT ![e] = z] /\ UNCHANGED shareLock
        BY <1>1, <1>5, <1>8, <2>2, <2>3 DEF Insert, ReviewInv, PoliciesTypeOK
      <3> QED
        BY <1>1, <1>2, <1>6, <2>1, <3>1, WorkerSteps DEF modelVars
    <2>4. CASE model[m].status = "production"
      <3>1. PICK ps : ps = Shadowing(m)
        OBVIOUS
      <3>2. PICK y : y = [x EXCEPT !.step = "inserted", !.shadows = ps]
        OBVIOUS
      <3>3. ps \in SUBSET Policies /\ \A p \in ps : policy[p].status = "shadow"
        BY <3>1 DEF Shadowing
      <3>4. y \in Event /\ y.step = "inserted" /\ y.model = m /\ y.shadows = ps /\ y.applied = x.applied
        BY <2>2, <3>2, <3>3 DEF Event
      <3>5. event' = [event EXCEPT ![e] = y] /\ shareLock' = [shareLock EXCEPT ![m] = @ \cup {e}]
        BY <1>1, <1>8, <2>2, <2>4, <3>1, <3>2 DEF Insert, ReviewInv, PoliciesTypeOK
      <3>6. e \in shareLock'[m] /\ \A d \in Inferences, n \in Models : d \in shareLock[n] => d \in shareLock'[n]
        BY <3>5 DEF ModelsTypeOK
      <3>7. \A p \in Policies : y.applied = p => policy[p].status \notin {"absent", "shadow"}
        BY <1>1, <3>4 DEF ReviewInv, EventsReady
      <3>8. \A p \in Policies : y.applied = p => p \notin y.shadows
        BY <3>3, <3>4, <3>7
      <3> QED
        BY <1>1, <2>1, <2>2, <2>4, <3>3, <3>4, <3>5, <3>6, <3>7, <3>8, EventStep
    <2> QED
      BY <2>3, <2>4
  <1> QED
    BY <1>3, <1>4, <1>7, <1>8

\* The transaction of a prediction commits: its policies have not decided about it before.
LEMMA CommitKeeps ==
    ASSUME ReviewInv, PoliciesTypeOK', ModelsTypeOK, NEW e \in Inferences, Commit(e)
    PROVE  ReviewInv'
  <1>1. PICK x \in Event : x = event[e]
    BY DEF ReviewInv, PoliciesTypeOK
  <1>2. PICK y : y = [x EXCEPT !.step = "recorded"]
    OBVIOUS
  <1>3. y \in Event /\ y.step = "recorded" /\ y.model = x.model /\ y.shadows = x.shadows /\ y.applied = x.applied
    BY <1>2 DEF Event
  <1>4. event' = [event EXCEPT ![e] = y]
    BY <1>1, <1>2 DEF Commit, ReviewInv, PoliciesTypeOK
  <1>5. event'[e] = y /\ \A d \in Inferences : d # e => event'[d] = event[d]
    BY <1>4 DEF ReviewInv, PoliciesTypeOK
  <1>6. x.step = "inserted" /\ UNCHANGED <<model, alias, publisher, datasetLock, policy, proposal>>
    BY <1>1 DEF Commit
  <1>7. IsFiniteSet(Begun')
    BY <1>5, BegunKept DEF ReviewInv
  <1>8. (OneActivePolicy /\ PoliciesBest)'
    BY <1>6 DEF ReviewInv, OneActivePolicy, PoliciesBest, Best
  <1>9. ProposalsReady'
    <2>1. \A d \in Inferences : event[d].step = "recorded" => event'[d].step = "recorded"
      BY <1>3, <1>5
    <2>2. \A p \in Policies : proposal[p].events \subseteq Inferences
      BY DEF ReviewInv, PoliciesTypeOK, Proposal
    <2> QED
      BY <1>6, <2>1, <2>2 DEF ReviewInv, ProposalsReady, Best
  <1>10. SharesHeld'
    <2>1. shareLock' = [shareLock EXCEPT ![x.model] = @ \ {e}]
      BY <1>1 DEF Commit
    <2>2. ASSUME NEW d \in Inferences, NEW z, z = event'[d], z.step = "inserted"
          PROVE  z.model \in Models /\ d \in shareLock'[z.model] /\ model[z.model].status = "production"
      <3>1. d # e /\ z = event[d]
        BY <1>3, <1>5, <2>2
      <3>2. z.model \in Models /\ d \in shareLock[z.model] /\ model[z.model].status = "production"
        BY <2>2, <3>1 DEF ReviewInv, SharesHeld
      <3> QED
        BY <2>1, <3>1, <3>2 DEF ModelsTypeOK
    <2> QED
      BY <1>6, <2>2 DEF SharesHeld
  <1>11. EventsReady'
    <2>1. /\ x.model \in Models
          /\ \A p \in Policies : x.applied = p => policy[p].status \notin {"absent", "shadow"} /\ p \notin x.shadows
          /\ \A p \in x.shadows : policy[p].status # "absent"
      BY <1>1, <1>6 DEF ReviewInv, EventsReady
    <2> QED
      BY <1>3, <1>5, <1>6, <2>1 DEF ReviewInv, EventsReady
  <1>12. ReviewsReady'
    <2>1. \A d \in Inferences : d # e => reviewItem'[d] = reviewItem[d]
      BY DEF Commit, ReviewInv, PoliciesTypeOK
    <2> QED
      BY <1>3, <1>5, <2>1 DEF ReviewInv, ReviewsReady
  <1>13. ShadowsReady'
    <2>1. ASSUME NEW p \in Policies, NEW d \in Inferences
          PROVE  /\ shadow'[<<p, d>>] <= 1
                 /\ shadow'[<<p, d>>] # 0 =>
                       event'[d].step = "recorded" /\ policy[p].status # "absent" /\ event'[d].applied # p
      <3>1. /\ shadow[<<p, d>>] <= 1 /\ shadow[<<p, d>>] \in Nat
            /\ shadow[<<p, d>>] # 0 =>
                  event[d].step = "recorded" /\ policy[p].status # "absent" /\ event[d].applied # p
        BY DEF ReviewInv, ShadowsReady, PoliciesTypeOK
      <3>2. shadow'[<<p, d>>] = IF d = e /\ p \in x.shadows THEN shadow[<<p, d>>] + 1 ELSE shadow[<<p, d>>]
        BY <1>1 DEF Commit, ReviewInv, PoliciesTypeOK
      <3>3. CASE d # e
        BY <1>5, <3>1, <3>2, <3>3
      <3>4. CASE d = e
        <4>1. shadow[<<p, d>>] = 0
          BY <1>1, <1>6, <3>1, <3>4
        <4>2. p \in x.shadows => policy[p].status # "absent" /\ x.applied # p
          BY <1>1 DEF ReviewInv, EventsReady
        <4> QED
          BY <1>3, <1>5, <3>2, <3>4, <4>1, <4>2
      <3> QED
        BY <3>3, <3>4
    <2> QED
      BY <1>6, <2>1 DEF ShadowsReady
  <1> QED
    BY <1>7, <1>8, <1>9, <1>10, <1>11, <1>12, <1>13 DEF ReviewInv

-----------------------------------------------------------------------------
(* Reviewers and policies, step by step. *)

\* A reviewer, and the answer of the language model, change an item that is there.
LEMMA ReviewersKeep ==
    ASSUME ReviewInv, PoliciesTypeOK', NEW e \in Inferences,
           (\E outcome \in Outcomes : Submit(e, outcome)) \/ AskAssistance(e) \/ SaveAssistance(e)
    PROVE  ReviewInv'
  <1>1. UNCHANGED <<modelVars, event, policy, proposal, shadow>> /\ reviewItem[e].status = "pending"
    BY DEF Submit, AskAssistance, SaveAssistance, Open
  <1>2. \A d \in Inferences : d # e => reviewItem'[d] = reviewItem[d]
    BY DEF Submit, AskAssistance, SaveAssistance, ReviewInv, PoliciesTypeOK
  <1>3. IsFiniteSet(Begun')
    BY <1>1 DEF Begun, ReviewInv
  <1>4. (OneActivePolicy /\ PoliciesBest /\ ProposalsReady)'
    BY <1>1 DEF ReviewInv, OneActivePolicy, PoliciesBest, ProposalsReady, Best
  <1>5. (SharesHeld /\ EventsReady /\ ShadowsReady)'
    BY <1>1 DEF ReviewInv, SharesHeld, EventsReady, ShadowsReady, modelVars
  <1>6. ReviewsReady'
    BY <1>1, <1>2 DEF ReviewInv, ReviewsReady
  <1> QED
    BY <1>3, <1>4, <1>5, <1>6 DEF ReviewInv

\* A proposal begins with the best threshold for the feedback that it reads.
LEMMA BeginProposalKeeps ==
    ASSUME ReviewInv, PoliciesTypeOK', NEW p \in Policies, NEW m \in Models, BeginProposal(p, m)
    PROVE  ReviewInv'
  <1>1. UNCHANGED <<modelVars, event, policy, shadow, reviewItem>> /\ policy[p].status = "absent"
    BY DEF BeginProposal
  <1>2. PICK pol : pol = [status |-> "shadow", model |-> m, tau |-> Chosen(Feedback(m)), samples |-> Feedback(m)]
    OBVIOUS
  <1>3. PICK events : events = {e \in Inferences : event[e].model = m /\ event[e].step = "recorded"}
    OBVIOUS
  <1>4. PICK new : new = [open |-> TRUE, policy |-> pol, events |-> events]
    OBVIOUS
  <1>5. proposal' = [proposal EXCEPT ![p] = new]
    BY <1>2, <1>3, <1>4 DEF BeginProposal
  <1>6. Best(pol) /\ pol.status = "shadow"
    <2>1. Feedback(m) \in SUBSET Sample /\ IsFiniteSet(Feedback(m)) /\ Proposable(Feedback(m))
      BY FeedbackType DEF ReviewInv, BeginProposal
    <2>2. PICK samples : samples = Feedback(m)
      OBVIOUS
    <2>3. pol.samples = samples /\ pol.tau = Chosen(samples) /\ pol.status = "shadow"
      BY <1>2, <2>2
    <2>4. GridSeparates(samples) =>
            \A t \in 0..TopScore : KeepsTarget(CutAt(t, samples)) =>
               Cardinality(CutAt(t, samples)) <= Cardinality(AcceptedBy(Chosen(samples), samples))
      BY <2>1, <2>2, ChosenIsBest
    <2> QED
      BY <2>3, <2>4 DEF Best
  <1>7. new.policy = pol /\ new.events = events
    BY <1>4
  <1>8. proposal'[p] = new /\ \A o \in Policies : o # p => proposal'[o] = proposal[o]
    BY <1>5 DEF ReviewInv, PoliciesTypeOK
  <1>9. ProposalsReady'
    <2>1. ASSUME NEW o \in Policies, NEW x, x = proposal'[o], x.open
          PROVE  /\ policy[o].status = "absent" /\ x.policy.status = "shadow" /\ Best(x.policy)
                 /\ \A e \in x.events : event[e].step = "recorded"
      <3>1. CASE o = p
        BY <1>1, <1>3, <1>6, <1>7, <1>8, <2>1, <3>1
      <3>2. CASE o # p
        BY <1>8, <2>1, <3>2 DEF ReviewInv, ProposalsReady
      <3> QED
        BY <3>1, <3>2
    <2> QED
      BY <1>1, <2>1 DEF ProposalsReady, Best
  <1>10. IsFiniteSet(Begun') /\ (OneActivePolicy /\ PoliciesBest)'
    BY <1>1 DEF Begun, ReviewInv, OneActivePolicy, PoliciesBest, Best
  <1>11. (SharesHeld /\ EventsReady /\ ReviewsReady /\ ShadowsReady)'
    BY <1>1 DEF ReviewInv, SharesHeld, EventsReady, ReviewsReady, ShadowsReady, modelVars
  <1> QED
    BY <1>9, <1>10, <1>11 DEF ReviewInv

\* The proposal's policy was not there, so it decides about each of its events for the first time.
LEMMA CommitProposalKeeps ==
    ASSUME ReviewInv, PoliciesTypeOK', NEW p \in Policies, CommitProposal(p)
    PROVE  ReviewInv'
  <1>1. /\ policy[p].status = "absent"
        /\ proposal[p].policy.status = "shadow" /\ Best(proposal[p].policy)
        /\ \A e \in proposal[p].events : event[e].step = "recorded"
    BY DEF CommitProposal, ReviewInv, ProposalsReady
  <1>2. PICK pol : pol = proposal[p].policy
    OBVIOUS
  <1>3. policy'[p] = pol /\ \A o \in Policies : o # p => policy'[o] = policy[o]
    BY <1>2 DEF CommitProposal, ReviewInv, PoliciesTypeOK
  <1>4. ~ proposal'[p].open /\ \A o \in Policies : o # p => proposal'[o] = proposal[o]
    BY DEF CommitProposal, NoProposal, ReviewInv, PoliciesTypeOK
  <1>5. UNCHANGED <<modelVars, event, reviewItem>>
    BY DEF CommitProposal
  <1>6. OneActivePolicy'
    BY <1>1, <1>2, <1>3 DEF ReviewInv, OneActivePolicy
  <1>7. PoliciesBest'
    <2>1. ASSUME NEW o \in Policies, NEW x, x = policy'[o], x.status # "absent" PROVE Best(x)
      BY <1>1, <1>2, <1>3, <2>1 DEF ReviewInv, PoliciesBest
    <2> QED
      BY <2>1 DEF PoliciesBest, Best
  <1>8. ProposalsReady'
    <2>1. ASSUME NEW o \in Policies, NEW x, x = proposal'[o], x.open
          PROVE  /\ policy'[o].status = "absent" /\ x.policy.status = "shadow" /\ Best(x.policy)
                 /\ \A e \in x.events : event[e].step = "recorded"
      <3>1. o # p /\ x = proposal[o]
        BY <1>4, <2>1
      <3> QED
        BY <1>3, <2>1, <3>1 DEF ReviewInv, ProposalsReady
    <2> QED
      BY <1>5, <2>1 DEF ProposalsReady, Best
  <1>9. IsFiniteSet(Begun') /\ (SharesHeld /\ ReviewsReady)'
    BY <1>5 DEF Begun, ReviewInv, SharesHeld, ReviewsReady, modelVars
  <1>10. EventsReady'
    <2>1. ASSUME NEW e \in Inferences
          PROVE  /\ event[e].step # "idle" => event[e].model \in Models
                 /\ event[e].step \notin {"inserted", "recorded"} => event[e].shadows = {}
                 /\ \A o \in Policies : event[e].applied = o =>
                       policy'[o].status \notin {"absent", "shadow"} /\ o \notin event[e].shadows
                 /\ \A o \in event[e].shadows : policy'[o].status # "absent"
      <3>1. /\ event[e].step # "idle" => event[e].model \in Models
            /\ event[e].step \notin {"inserted", "recorded"} => event[e].shadows = {}
            /\ \A o \in Policies : event[e].applied = o =>
                  policy[o].status \notin {"absent", "shadow"} /\ o \notin event[e].shadows
            /\ \A o \in event[e].shadows : policy[o].status # "absent"
        BY DEF ReviewInv, EventsReady
      <3>2. event[e].shadows \subseteq Policies
        BY DEF ReviewInv, PoliciesTypeOK, Event
      <3>3. \A o \in Policies : policy[o].status # "absent" => policy'[o] = policy[o]
        BY <1>1, <1>3
      <3>4. \A o \in Policies : event[e].applied = o =>
                  policy'[o].status \notin {"absent", "shadow"} /\ o \notin event[e].shadows
        BY <3>1, <3>3
      <3>5. \A o \in event[e].shadows : policy'[o].status # "absent"
        BY <3>1, <3>2, <3>3
      <3> QED
        BY <3>1, <3>4, <3>5
    <2> QED
      BY <1>5, <2>1 DEF EventsReady
  <1>11. ShadowsReady'
    <2>1. ASSUME NEW o \in Policies, NEW e \in Inferences
          PROVE  /\ shadow'[<<o, e>>] <= 1
                 /\ shadow'[<<o, e>>] # 0 =>
                       event[e].step = "recorded" /\ policy'[o].status # "absent" /\ event[e].applied # o
      <3>1. /\ shadow[<<o, e>>] <= 1 /\ shadow[<<o, e>>] \in Nat
            /\ shadow[<<o, e>>] # 0 =>
                  event[e].step = "recorded" /\ policy[o].status # "absent" /\ event[e].applied # o
        BY DEF ReviewInv, ShadowsReady, PoliciesTypeOK
      <3>2. shadow'[<<o, e>>] = IF o = p /\ e \in proposal[p].events THEN shadow[<<o, e>>] + 1 ELSE shadow[<<o, e>>]
        BY DEF CommitProposal, ReviewInv, PoliciesTypeOK
      <3>3. CASE o # p
        BY <1>3, <3>1, <3>2, <3>3
      <3>4. CASE o = p
        <4>1. shadow[<<o, e>>] = 0
          BY <1>1, <3>1, <3>4
        <4>2. event[e].applied # p
          BY <1>1 DEF ReviewInv, EventsReady
        <4> QED
          BY <1>1, <1>2, <1>3, <3>2, <3>4, <4>1, <4>2
      <3> QED
        BY <3>3, <3>4
    <2> QED
      BY <1>5, <2>1 DEF ShadowsReady
  <1> QED
    BY <1>6, <1>7, <1>8, <1>9, <1>10, <1>11 DEF ReviewInv

\* Policies that are there change their status, and never go back to the shadow.
LEMMA StatusesKeep ==
    ASSUME ReviewInv, PoliciesTypeOK', UNCHANGED <<modelVars, event, proposal, shadow, reviewItem>>,
           OneActivePolicy',
           \A o \in Policies : \/ policy'[o] = policy[o]
                               \/ /\ policy[o].status # "absent"
                                  /\ \E status \in {"active", "superseded", "deactivated"} :
                                        policy'[o] = [policy[o] EXCEPT !.status = status]
    PROVE  ReviewInv'
  <1>1. ASSUME NEW o \in Policies
        PROVE  /\ policy'[o].status = "absent" <=> policy[o].status = "absent"
               /\ policy'[o].status = "shadow" => policy[o].status = "shadow"
    BY DEF ReviewInv, PoliciesTypeOK, Policy
  <1>2. PoliciesBest'
    <2>1. ASSUME NEW o \in Policies, NEW x, x = policy'[o], x.status # "absent" PROVE Best(x)
      <3>1. PICK pol \in Policy : pol = policy[o]
        BY DEF ReviewInv, PoliciesTypeOK
      <3>2. Best(pol)
        BY <1>1, <2>1, <3>1 DEF ReviewInv, PoliciesBest
      <3>3. x = pol \/ \E status \in {"active", "superseded", "deactivated"} : x = [pol EXCEPT !.status = status]
        BY <2>1, <3>1
      <3> QED
        BY <3>2, <3>3, BestKept
    <2> QED
      BY <2>1 DEF PoliciesBest, Best
  <1>3. ProposalsReady'
    BY <1>1 DEF ReviewInv, ProposalsReady, Best
  <1>4. IsFiniteSet(Begun') /\ (SharesHeld /\ ReviewsReady)'
    BY DEF Begun, ReviewInv, SharesHeld, ReviewsReady, modelVars
  <1>5. EventsReady'
    <2>1. ASSUME NEW e \in Inferences
          PROVE  /\ \A o \in Policies : event[e].applied = o => policy'[o].status \notin {"absent", "shadow"}
                 /\ \A o \in event[e].shadows : policy'[o].status # "absent"
      <3>1. event[e].shadows \subseteq Policies
        BY DEF ReviewInv, PoliciesTypeOK, Event
      <3> QED
        BY <1>1, <3>1 DEF ReviewInv, EventsReady
    <2> QED
      BY <2>1 DEF ReviewInv, EventsReady
  <1>6. ShadowsReady'
    BY <1>1 DEF ReviewInv, ShadowsReady
  <1> QED
    BY <1>2, <1>3, <1>4, <1>5, <1>6 DEF ReviewInv

LEMMA ActivateKeeps ==
    ASSUME ReviewInv, PoliciesTypeOK', NEW p \in Policies, Activate(p)
    PROVE  ReviewInv'
  <1>1. policy[p].status \in {"shadow", "superseded", "deactivated"} /\ UNCHANGED <<modelVars, event, proposal, shadow, reviewItem>>
    BY DEF Activate
  <1>2. \A o \in Policies :
           policy'[o] = IF o = p THEN [policy[o] EXCEPT !.status = "active"]
                        ELSE IF policy[o].status = "active" /\ policy[o].model = policy[p].model
                        THEN [policy[o] EXCEPT !.status = "superseded"] ELSE policy[o]
    BY DEF Activate, Superseded, ReviewInv, PoliciesTypeOK
  <1>3. \A o \in Policies : policy[o] \in Policy
    BY DEF ReviewInv, PoliciesTypeOK
  <1>4. OneActivePolicy'
    <2>1. ASSUME NEW o \in Policies
          PROVE  /\ policy'[o].model = policy[o].model
                 /\ policy'[o].status = "active" =>
                       o = p \/ (policy[o].status = "active" /\ policy[o].model # policy[p].model)
      <3>1. PICK x \in Policy : x = policy[o]
        BY <1>3
      <3>2. PICK y : y = [x EXCEPT !.status = "active"]
        OBVIOUS
      <3>3. PICK z : z = [x EXCEPT !.status = "superseded"]
        OBVIOUS
      <3>4. y.model = x.model /\ z.model = x.model /\ z.status = "superseded"
        BY <3>2, <3>3 DEF Policy
      <3>5. policy'[o] = IF o = p THEN y
                         ELSE IF x.status = "active" /\ x.model = policy[p].model THEN z ELSE x
        BY <1>2, <3>1, <3>2, <3>3
      <3> QED
        BY <3>1, <3>4, <3>5
    <2> QED
      BY <2>1 DEF ReviewInv, OneActivePolicy
  <1> QED
    BY <1>1, <1>2, <1>4, StatusesKeep

LEMMA DeactivateKeeps ==
    ASSUME ReviewInv, PoliciesTypeOK', NEW p \in Policies, Deactivate(p)
    PROVE  ReviewInv'
  <1>1. policy[p].status = "active" /\ UNCHANGED <<modelVars, event, proposal, shadow, reviewItem>>
    BY DEF Deactivate
  <1>2. \A o \in Policies : policy'[o] = IF o = p THEN [policy[o] EXCEPT !.status = "deactivated"] ELSE policy[o]
    BY DEF Deactivate, ReviewInv, PoliciesTypeOK
  <1>3. \A o \in Policies : policy[o] \in Policy
    BY DEF ReviewInv, PoliciesTypeOK
  <1>4. OneActivePolicy'
    <2>1. ASSUME NEW o \in Policies
          PROVE  /\ policy'[o].model = policy[o].model
                 /\ policy'[o].status = "active" =>
                       policy[o].status = "active"
      <3>1. PICK x \in Policy : x = policy[o]
        BY <1>3
      <3>2. PICK y : y = [x EXCEPT !.status = "deactivated"]
        OBVIOUS
      <3>3. y.model = x.model /\ y.status = "deactivated"
        BY <3>2 DEF Policy
      <3>4. policy'[o] = IF o = p THEN y ELSE x
        BY <1>2, <3>1, <3>2
      <3> QED
        BY <3>1, <3>3, <3>4
    <2> QED
      BY <2>1 DEF ReviewInv, OneActivePolicy
  <1> QED
    BY <1>1, <1>2, <1>4, StatusesKeep

LEMMA PolicyKeeps == ReviewInv /\ ModelsTypeOK /\ PolicyStep => ReviewInv'
  <1> SUFFICES ASSUME ReviewInv, ModelsTypeOK, PolicyStep PROVE ReviewInv'
    OBVIOUS
  <1>1. PoliciesTypeOK'
    BY PolicyTypes DEF ReviewInv
  <1>2. ASSUME NEW e \in Inferences, InferenceWork(e) PROVE ReviewInv'
    BY <1>1, <1>2, InferenceKeeps, CommitKeeps DEF InferenceWork
  <1>3. ASSUME NEW e \in Inferences, NEW m \in Models, NEW asked \in BOOLEAN, Resolve(e, m, asked)
        PROVE  ReviewInv'
    BY <1>1, <1>3, ResolveKeeps
  <1>4. ASSUME NEW e \in Inferences, (\E outcome \in Outcomes : Submit(e, outcome)) \/ AskAssistance(e) \/ SaveAssistance(e)
        PROVE  ReviewInv'
    BY <1>1, <1>4, ReviewersKeep
  <1>5. ASSUME NEW p \in Policies, NEW m \in Models, BeginProposal(p, m) PROVE ReviewInv'
    BY <1>1, <1>5, BeginProposalKeeps
  <1>6. ASSUME NEW p \in Policies, CommitProposal(p) \/ Activate(p) \/ Deactivate(p) PROVE ReviewInv'
    BY <1>1, <1>6, CommitProposalKeeps, ActivateKeeps, DeactivateKeeps
  <1> QED
    BY <1>2, <1>3, <1>4, <1>5, <1>6 DEF PolicyStep

-----------------------------------------------------------------------------
(* The models of the platform. *)

\* What a first publication leaves is a row with the first number.
LEMMA PublishedRow ==
    /\ Published \in ModelRow
    /\ Published.status = "production" /\ Published.revision = 1
    /\ Published.release = [number |-> <<1, 0, 0>>, sequence |-> 1, plan |-> ModelPlan[Served]]
    /\ \A e, f \in Published.exports : e = f
  <1>1. PICK p \in Precisions : p = CHOOSE q \in Precisions : TRUE
    BY ModelScenesAssumption
  <1>2. Published = [status |-> "production", revision |-> 1,
                     release |-> [number |-> <<1, 0, 0>>, sequence |-> 1, plan |-> ModelPlan[Served]],
                     exports |-> {[precision |-> p, of |-> 0]}]
    BY <1>1 DEF Published
  <1>3. [number |-> <<1, 0, 0>>, sequence |-> 1, plan |-> ModelPlan[Served]] \in ReleaseRow
    BY ModelScenesAssumption DEF ReleaseRow
  <1> QED
    BY <1>2, <1>3 DEF ModelRow, Statuses

\* A dataset begins without releases, or with one.
LEMMA ServingInitModels == ServingInit => RegistryInv
  <1> SUFFICES ASSUME ServingInit PROVE RegistryInv
    OBVIOUS
  <1>1. NewModel \in ModelRow /\ NewModel.exports = {} /\ NewModel.release.sequence = 0
    BY DEF NewModel, ModelRow, Statuses, Unreleased, ReleaseRow
  <1> HIDE DEF Published, NewModel
  <1>2. \A m \in Models : model[m] = IF modelScene = "inferring" /\ m = Served THEN Published ELSE NewModel
    BY DEF ServingInit
  <1>3. model \in [Models -> ModelRow]
    BY <1>1, <1>2, PublishedRow DEF ServingInit
  <1>4. ModelsTypeOK
    BY <1>3, IdleIsCall DEF ServingInit, ModelsTypeOK
  <1>5. CallsReady /\ NextReady
    BY DEF ServingInit, IdleCall, CallsReady, NextReady
  <1>6. ExportsPublished /\ PublishedOnce
    BY <1>1, <1>2, PublishedRow DEF ExportsPublished, PublishedOnce
  <1>7. ReleasesNumbered /\ NumbersFollow
    <2>1. CASE modelScene = "inferring"
      <3>1. Released = {Served}
        BY <1>1, <1>2, <2>1, PublishedRow, ModelScenesAssumption DEF Released
      <3>2. IsFiniteSet({Served}) /\ Cardinality({Served}) = 1
        BY FS_Singleton, Zenon
      <3>3. model[Served].release.sequence = 1 /\ model[Served].release.plan = ModelPlan[Served]
        BY <1>2, <2>1, PublishedRow, ModelScenesAssumption
      <3>4. ReleasesNumbered
        BY <3>1, <3>2, <3>3 DEF ReleasesNumbered
      <3>5. NumbersFollow
        BY <3>1, <3>3 DEF NumbersFollow, Follows
      <3> QED
        BY <3>4, <3>5
    <2>2. CASE modelScene # "inferring"
      <3>1. Released = {}
        BY <1>1, <1>2, <2>2 DEF Released
      <3>2. IsFiniteSet({}) /\ Cardinality({}) = 0
        BY FS_EmptySet, Zenon
      <3>3. ReleasesNumbered
        BY <3>1, <3>2 DEF ReleasesNumbered
      <3> QED
        BY <3>1, <3>3 DEF NumbersFollow
    <2> QED
      BY <2>1, <2>2
  <1> QED
    BY <1>4, <1>5, <1>6, <1>7 DEF RegistryInv

\* What was predicted earlier was reviewed, and no policy is there.
LEMMA ServingInitReviews == ServingInit => ReviewInv
  <1> SUFFICES ASSUME ServingInit PROVE ReviewInv
    OBVIOUS
  <1>1. PICK earlier \in SUBSET Earlier : PoliciesInit(earlier, Served)
    BY DEF ServingInit
  <1>2. PICK score \in [earlier -> 0..TopScore], outcome \in [earlier -> Outcomes] :
          /\ event = [e \in Inferences |-> IF e \in earlier
                         THEN [NewEvent EXCEPT !.step = "recorded", !.model = Served, !.score = score[e],
                                               !.decision = "abstain"]
                         ELSE NewEvent]
          /\ reviewItem = [e \in Inferences |-> IF e \in earlier
                              THEN [status |-> "feedbacked", outcome |-> outcome[e], assistance |-> "none"]
                              ELSE [status |-> "none", outcome |-> "none", assistance |-> "none"]]
    BY <1>1 DEF PoliciesInit
  <1>3. /\ NewEvent \in Event /\ NewEvent.step = "idle" /\ NewEvent.shadows = {} /\ NewEvent.applied = NoPolicy
    BY PoliciesAssumption DEF NewEvent, Event
  <1>4. ASSUME NEW e \in Inferences
        PROVE  /\ event[e] \in Event /\ event[e].shadows = {} /\ event[e].applied = NoPolicy
               /\ event[e].step = IF e \in earlier THEN "recorded" ELSE "idle"
               /\ e \in earlier => event[e].model = Served
    <2>1. CASE e \notin earlier
      BY <1>2, <1>3, <2>1
    <2>2. CASE e \in earlier
      <3>1. PICK k \in 0..TopScore : k = score[e]
        BY <2>2
      <3>2. PICK y : y = [NewEvent EXCEPT !.step = "recorded", !.model = Served, !.score = k, !.decision = "abstain"]
        OBVIOUS
      <3>3. /\ y \in Event /\ y.step = "recorded" /\ y.model = Served /\ y.shadows = {} /\ y.applied = NoPolicy
        BY <1>3, <3>2, ModelScenesAssumption DEF Event
      <3>4. event[e] = y
        BY <1>2, <2>2, <3>1, <3>2
      <3> QED
        BY <2>2, <3>3, <3>4
    <2> QED
      BY <2>1, <2>2
  <1>5. ASSUME NEW e \in Inferences
        PROVE  reviewItem[e] \in ReviewItem /\ (reviewItem[e].status # "none" => e \in earlier)
    BY <1>2 DEF ReviewItem
  <1>6. /\ policy = [p \in Policies |-> NewPolicy] /\ NewPolicy \in Policy /\ NewPolicy.status = "absent"
        /\ proposal = [p \in Policies |-> NoProposal] /\ NoProposal \in Proposal /\ ~ NoProposal.open
        /\ shadow = [d \in Policies \X Inferences |-> 0]
    <2>1. NewPolicy \in Policy /\ NewPolicy.status = "absent"
      BY DEF NewPolicy, Policy, Threshold
    <2>2. NoProposal \in Proposal /\ ~ NoProposal.open
      BY <2>1 DEF NoProposal, Proposal
    <2> QED
      BY <1>1, <2>1, <2>2 DEF PoliciesInit
  <1> HIDE DEF NewEvent, NewPolicy, NoProposal
  <1>7. PoliciesTypeOK
    <2>1. event \in [Inferences -> Event]
      BY <1>2, <1>4
    <2>2. reviewItem \in [Inferences -> ReviewItem]
      BY <1>2, <1>5
    <2> QED
      BY <1>6, <2>1, <2>2 DEF PoliciesTypeOK
  <1>8. IsFiniteSet(Begun)
    <2>1. Begun \in SUBSET Earlier
      BY <1>4 DEF Begun
    <2> QED
      BY <2>1, ModelScenesAssumption, FS_Subset
  <1>9. OneActivePolicy /\ PoliciesBest /\ ProposalsReady
    BY <1>6 DEF OneActivePolicy, PoliciesBest, ProposalsReady
  <1>10. SharesHeld /\ EventsReady /\ ReviewsReady
    BY <1>4, <1>5, ModelScenesAssumption, PoliciesAssumption DEF SharesHeld, EventsReady, ReviewsReady
  <1>11. ShadowsReady
    BY <1>6 DEF ShadowsReady
  <1> QED
    BY <1>7, <1>8, <1>9, <1>10, <1>11 DEF ReviewInv

\* Predictions and reviews touch of the models their share locks.
LEMMA PolicyStepModels ==
    ASSUME ModelsTypeOK, PolicyStep
    PROVE  UNCHANGED <<model, alias, publisher, datasetLock>> /\ ModelsTypeOK'
  <1>1. ASSUME NEW e \in Inferences, InferenceWork(e) PROVE UNCHANGED <<model, alias, publisher, datasetLock>>
    BY <1>1 DEF InferenceWork, ReadPolicy, Predict, PredictionFails, Insert, Commit, modelVars
  <1>2. ASSUME NEW e \in Inferences, InferenceWork(e) PROVE shareLock' \in [Models -> SUBSET Inferences]
    <2>1. CASE Insert(e)
      <3>1. shareLock' = shareLock \/ shareLock' = [shareLock EXCEPT ![event[e].model] = @ \cup {e}]
        BY <2>1 DEF Insert
      <3> QED
        BY <3>1 DEF ModelsTypeOK
    <2>2. CASE Commit(e)
      <3>1. shareLock' = [shareLock EXCEPT ![event[e].model] = @ \ {e}]
        BY <2>2 DEF Commit
      <3> QED
        BY <3>1 DEF ModelsTypeOK
    <2>3. CASE ~ Insert(e) /\ ~ Commit(e)
      BY <1>2, <2>3 DEF InferenceWork, ReadPolicy, Predict, PredictionFails, modelVars, ModelsTypeOK
    <2> QED
      BY <2>1, <2>2, <2>3
  <1>3. (\A e \in Inferences : ~ InferenceWork(e)) => UNCHANGED modelVars
    BY DEF PolicyStep, Resolve, Submit, AskAssistance, SaveAssistance, BeginProposal, CommitProposal, Activate, Deactivate
  <1> QED
    BY <1>1, <1>2, <1>3 DEF ModelsTypeOK, modelVars

LEMMA PolicyKeepsRegistry == RegistryInv /\ PolicyStep => RegistryInv'
  <1> SUFFICES ASSUME RegistryInv, PolicyStep PROVE RegistryInv'
    OBVIOUS
  <1>1. UNCHANGED <<model, alias, publisher, datasetLock>> /\ ModelsTypeOK'
    BY PolicyStepModels DEF RegistryInv
  <1>2. Released' = Released
    BY <1>1 DEF Released
  <1>3. (CallsReady /\ ExportsPublished /\ PublishedOnce)'
    BY <1>1 DEF RegistryInv, CallsReady, SeenOK, ExportsPublished, PublishedOnce
  <1>4. (ReleasesNumbered /\ NumbersFollow)'
    BY <1>1, <1>2 DEF RegistryInv, ReleasesNumbered, NumbersFollow, Follows
  <1>5. NextReady'
    BY <1>1, <1>2 DEF RegistryInv, NextReady, Fresh
  <1> QED
    BY <1>1, <1>3, <1>4, <1>5 DEF RegistryInv

\* The invariant of the models.
ServingInv == RegistryInv /\ ReviewInv

LEMMA ServingInitInv == ServingInit => ServingInv
  BY ServingInitModels, ServingInitReviews DEF ServingInv

\* In every scene, what changes of the models is a step of the registry or of predictions.
LEMMA ServingSteps ==
    ASSUME ServingNext
    PROVE  \/ RegistryStep /\ UNCHANGED policyVars
           \/ PolicyStep
           \/ UNCHANGED <<modelVars, policyVars>>
  <1>1. CASE modelScene = "reporting" /\ TestErrorsStep /\ UNCHANGED <<modelVars, policyVars, storeVars>>
    BY <1>1
  <1>2. CASE modelScene = "storing" /\ StoreStep /\ UNCHANGED <<modelVars, policyVars, testVars>>
    BY <1>2
  <1>3. CASE modelScene = "releasing" /\ RegistryStep /\ UNCHANGED <<policyVars, storeVars, testVars>>
    BY <1>3
  <1>4. ASSUME NEW c \in Publishers, Archive(c, Served) \/ Transition(c) PROVE RegistryStep
    BY <1>4, ModelScenesAssumption DEF RegistryStep, RegistryRequest, RegistryWork
  <1> QED
    BY <1>1, <1>2, <1>3, <1>4 DEF ServingNext

LEMMA ServingKeeps == ServingInv /\ [ServingNext]_servingVars => ServingInv'
  <1> SUFFICES ASSUME ServingInv, [ServingNext]_servingVars PROVE ServingInv'
    OBVIOUS
  <1>1. CASE RegistryStep /\ UNCHANGED policyVars
    BY <1>1, RegistryKeeps, RegistryKeepsReviews DEF ServingInv
  <1>2. CASE PolicyStep
    BY <1>2, PolicyKeepsRegistry, PolicyKeeps DEF ServingInv, RegistryInv
  <1>3. CASE UNCHANGED <<modelVars, policyVars>>
    <2>1. RegistryInv'
      <3>1. UNCHANGED <<model, alias, publisher, datasetLock, shareLock>>
        BY <1>3 DEF modelVars
      <3>2. Released' = Released
        BY <3>1 DEF Released
      <3>3. (ModelsTypeOK /\ CallsReady /\ ExportsPublished /\ PublishedOnce)'
        BY <3>1 DEF ServingInv, RegistryInv, ModelsTypeOK, CallsReady, SeenOK, ExportsPublished, PublishedOnce
      <3>4. (ReleasesNumbered /\ NumbersFollow)'
        BY <3>1, <3>2 DEF ServingInv, RegistryInv, ReleasesNumbered, NumbersFollow, Follows
      <3>5. NextReady'
        BY <3>1, <3>2 DEF ServingInv, RegistryInv, NextReady, Fresh
      <3> QED
        BY <3>3, <3>4, <3>5 DEF RegistryInv
    <2>2. ReviewInv'
      BY <1>3 DEF ServingInv, ReviewInv, PoliciesTypeOK, Begun, OneActivePolicy, PoliciesBest, Best, ProposalsReady,
                  SharesHeld, EventsReady, ReviewsReady, ShadowsReady, modelVars, policyVars
    <2> QED
      BY <2>1, <2>2 DEF ServingInv
  <1> QED
    BY <1>1, <1>2, <1>3, ServingSteps DEF servingVars

\* The invariant holds of the registry and of predictions, reviews and policies, in every scene.
THEOREM ServingInvariance == ServingSpec => []ServingInv
  BY ServingInitInv, ServingKeeps, PTL DEF ServingSpec

\* The releases of a dataset are numbered without gap or repetition, each by what changed since
\* the one before, and no precision is registered twice (CompletePublication), for any number
\* of models and overlapping calls.
THEOREM ReleasesAreSound == ServingSpec => []ReleasesSound
  <1>1. ServingInv => ReleasesSound
    BY NumbersAreOrdered DEF ServingInv
  <1> QED
    BY <1>1, ServingInvariance, PTL

\* No call brings a model back from the archive, and an alias is given to a model that has the
\* status for it (Transition, SetAlias), whatever the call has read before.
THEOREM StaleCallsAreRefused == ServingSpec => StaleCallsRefused
  <1>1. ServingInv /\ [ServingNext]_servingVars => [StaleRefused]_modelVars
    <2> SUFFICES ASSUME ServingInv, [ServingNext]_servingVars, ~ UNCHANGED modelVars PROVE StaleRefused
      OBVIOUS
    <2>1. CASE RegistryStep
      BY <2>1, RegistryRefuses DEF ServingInv
    <2>2. CASE PolicyStep
      BY <2>2, PolicyStepModels DEF ServingInv, RegistryInv, StaleRefused
    <2> QED
      BY <2>1, <2>2, ServingSteps DEF servingVars
  <1>2. [StaleRefused]_modelVars =>
          [\A m \in Models : model[m].status = "archived" => model'[m] = model[m]]_modelVars
    BY DEF StaleRefused
  <1>3. [StaleRefused]_modelVars =>
          [\A a \in {"champion", "challenger"} :
              alias'[a] # alias[a] => alias'[a] \in Models /\ AliasAllowed(a, model[alias'[a]])]_modelVars
    BY DEF StaleRefused
  <1> QED
    BY <1>1, <1>2, <1>3, ServingInvariance, PTL DEF ServingSpec, StaleCallsRefused, ArchivedForGood, AliasesDeserved

\* One policy at most is active for a model, and it accepts as much of its feedback as any cut
\* at a score within the target does: for any feedback of which the grid has a point between any
\* two samples, and whose scores are so far apart that rounding leaves that point between them
\* (PolicyAction, propose, candidates), for any rounding and number of policies.
THEOREM ActivePoliciesAreSound == ServingSpec => []ActivePoliciesSound
  <1>1. ServingInv => ActivePoliciesSound
    BY DEF ServingInv, ReviewInv, PoliciesBest, Best, CutAt, ActivePoliciesSound, BestThreshold
  <1> QED
    BY <1>1, ServingInvariance, PTL

\* What is recorded was predicted by a published model, no policy decides twice about it, and
\* what people said of it stays (InferenceService.Predict, Submit).
THEOREM PredictionsAreSound == ServingSpec => PredictionsSound
  <1> DEFINE Recorded == \A e \in Inferences : event[e].step # "recorded" /\ event'[e].step = "recorded"
                           => model[event[e].model].status = "production"
  <1> DEFINE Final == \A e \in Inferences : reviewItem[e].status = "feedbacked" => reviewItem'[e] = reviewItem[e]
  <1>1. ServingInv => ShadowedOnce
    BY DEF ServingInv, ReviewInv, ShadowsReady, ShadowedOnce
  <1>2. ASSUME ServingInv, PolicyStep PROVE Recorded /\ Final
    <2>1. PoliciesTypeOK
      BY <1>2 DEF ServingInv, ReviewInv
    <2>2. ASSUME NEW e \in Inferences, Commit(e) PROVE Recorded /\ Final
      <3>1. event[e].step = "inserted" /\ model[event[e].model].status = "production"
        BY <1>2, <2>2 DEF Commit, ServingInv, ReviewInv, SharesHeld
      <3>2. \A d \in Inferences : d # e => event'[d] = event[d] /\ reviewItem'[d] = reviewItem[d]
        BY <2>1, <2>2 DEF Commit, PoliciesTypeOK
      <3>3. reviewItem[e].status = "none"
        BY <1>2, <3>1 DEF ServingInv, ReviewInv, ReviewsReady
      <3> QED
        BY <3>1, <3>2, <3>3
    <2>3. ASSUME NEW e \in Inferences, NEW step \in {"resolved", "decided", "predicted", "inserted", "refused"},
                 event'[e].step = step, \A d \in Inferences : d # e => event'[d] = event[d], UNCHANGED reviewItem
          PROVE  Recorded /\ Final
      BY <2>3
    <2>4. ASSUME NEW e \in Inferences, InferenceWork(e), ~ Commit(e) PROVE Recorded /\ Final
      <3>1. event[e] \in Event
        BY <2>1 DEF PoliciesTypeOK
      <3>2. /\ event'[e].step \in {"decided", "predicted", "inserted", "refused"}
            /\ \A d \in Inferences : d # e => event'[d] = event[d]
            /\ UNCHANGED reviewItem
        <4>1. CASE ReadPolicy(e)
          BY <2>1, <3>1, <4>1 DEF ReadPolicy, PoliciesTypeOK, Event
        <4>2. ASSUME NEW score \in 0..TopScore, NEW decision \in {"accept", "abstain"}, Predict(e, score, decision)
              PROVE  /\ event'[e].step \in {"decided", "predicted", "inserted", "refused"}
                     /\ \A d \in Inferences : d # e => event'[d] = event[d]
                     /\ UNCHANGED reviewItem
          <5>1. PICK y : y = [event[e] EXCEPT !.step = "predicted", !.score = score, !.decision = decision]
            OBVIOUS
          <5>2. y.step = "predicted"
            BY <3>1, <5>1 DEF Event
          <5>3. event' = [event EXCEPT ![e] = y] /\ UNCHANGED reviewItem
            BY <4>2, <5>1, <2>1 DEF Predict, PoliciesTypeOK
          <5> QED
            BY <2>1, <5>2, <5>3 DEF PoliciesTypeOK
        <4>3. CASE PredictionFails(e)
          BY <2>1, <3>1, <4>3 DEF PredictionFails, PoliciesTypeOK, Event
        <4>4. CASE Insert(e)
          BY <2>1, <3>1, <4>4 DEF Insert, PoliciesTypeOK, Event
        <4> QED
          BY <2>4, <4>1, <4>2, <4>3, <4>4 DEF InferenceWork
      <3> QED
        BY <2>3, <3>2
    <2>5. ASSUME NEW e \in Inferences, NEW m \in Models, NEW asked \in BOOLEAN, Resolve(e, m, asked)
          PROVE  Recorded /\ Final
      <3>1. /\ event'[e].step = "resolved"
            /\ \A d \in Inferences : d # e => event'[d] = event[d]
            /\ UNCHANGED reviewItem
        BY <2>1, <2>5 DEF Resolve, PoliciesTypeOK, Event
      <3> QED
        BY <2>3, <3>1
    <2>6. ASSUME NEW e \in Inferences, (\E outcome \in Outcomes : Submit(e, outcome)) \/ AskAssistance(e) \/ SaveAssistance(e)
          PROVE  Recorded /\ Final
      BY <2>1, <2>6 DEF Submit, AskAssistance, SaveAssistance, Open, PoliciesTypeOK
    <2>7. ASSUME NEW p \in Policies,
                 (\E m \in Models : BeginProposal(p, m)) \/ CommitProposal(p) \/ Activate(p) \/ Deactivate(p)
          PROVE  Recorded /\ Final
      BY <2>7 DEF BeginProposal, CommitProposal, Activate, Deactivate
    <2> QED
      BY <1>2, <2>2, <2>4, <2>5, <2>6, <2>7 DEF PolicyStep
  <1>3. ServingInv /\ [ServingNext]_servingVars => [Recorded]_<<event, model>> /\ [Final]_reviewItem
    <2> SUFFICES ASSUME ServingInv, [ServingNext]_servingVars PROVE Recorded /\ Final
      OBVIOUS
    <2>1. CASE PolicyStep
      BY <1>2, <2>1
    <2>2. CASE UNCHANGED policyVars
      BY <2>2 DEF policyVars
    <2> QED
      BY <2>1, <2>2, ServingSteps DEF servingVars
  <1> QED
    BY <1>1, <1>3, ServingInvariance, PTL
    DEF ServingSpec, PredictionsSound, RecordedInProduction, FeedbackFinal

-----------------------------------------------------------------------------
(* The artifact store, for any number of contents and clients and either adapter.  Each    *)
(* step decides by itself, from the bytes it reads, so types are all that has to be known  *)
(* of the state it starts in.                                                              *)

\* In every state bytes, caches and calls are what they should be.
LEMMA StoreTypeInit == StoreInit => StoreTypeOK
  BY DEF StoreInit, StoreTypeOK, Bytes, StoreCalls, Answered, Answers

\* Types are kept by every step: the copies, whose calls have most to say, by themselves.
LEMMA StoreTypeStep == StoreTypeOK /\ [StoreStep]_storeVars => StoreTypeOK'
  <1> SUFFICES ASSUME StoreTypeOK, [StoreStep]_storeVars PROVE StoreTypeOK'
    OBVIOUS
  <1> USE DEF StoreTypeOK, Bytes, StoreCalls, Answered, Answers, Reply, Continue, At, Of
  <1>1. CASE UNCHANGED storeVars
    BY <1>1 DEF storeVars
  <1>2. CASE Damage
    <2>1. object' \in [Contents -> Bytes]
      BY <1>2 DEF Damage
    <2>2. cache' \in [Clients -> [Contents -> Bytes]]
      <3>1. ASSUME NEW p \in Clients, NEW c \in Contents, cache' = [cache EXCEPT ![p][c] = "wrong"]
            PROVE  cache' \in [Clients -> [Contents -> Bytes]]
        <4>1. PICK entries : entries = [cache[p] EXCEPT ![c] = "wrong"]
          OBVIOUS
        <4>2. entries \in [Contents -> Bytes] /\ cache' = [cache EXCEPT ![p] = entries]
          BY <3>1, <4>1
        <4> QED
          BY <4>2
      <3> QED
        BY <1>2, <3>1 DEF Damage
    <2>3. UNCHANGED <<adapter, storeCall>>
      BY <1>2 DEF Damage
    <2> QED
      BY <2>1, <2>2, <2>3
  <1>3. ASSUME NEW p \in Clients, StoreCallBegins(p) PROVE StoreTypeOK'
    BY <1>3 DEF StoreCallBegins
  <1>4. ASSUME NEW p \in Clients, PutLocal(p) PROVE StoreTypeOK'
    <2>1. UNCHANGED <<adapter, object, cache>>
      BY <1>4 DEF PutLocal, BeginCopy
    <2>2. CASE BeginCopy(p, "object")
      <3>1. Of(p) \in Contents
        BY <1>4 DEF PutLocal
      <3>2. [at |-> "copy", of |-> Of(p), to |-> "object", temporary |-> "part"] \in StoreCalls
        BY <3>1
      <3> QED
        BY <2>1, <2>2, <3>2 DEF BeginCopy
    <2>3. CASE \E how \in Answers : Reply(p, how)
      BY <2>1, <2>3
    <2> QED
      BY <1>4, <2>2, <2>3 DEF PutLocal
  <1>5. ASSUME NEW p \in Clients, PutObject(p) PROVE StoreTypeOK'
    <2>1. Of(p) \in Contents
      BY <1>5 DEF PutObject
    <2>2. object' \in [Contents -> Bytes]
      <3>1. object' \in {object, [object EXCEPT ![Of(p)] = "whole"]}
        BY <1>5 DEF PutObject
      <3> QED
        BY <2>1, <3>1
    <2>3. storeCall' \in [Clients -> StoreCalls]
      <3>1. CASE Reply(p, "refused")
        BY <3>1
      <3>2. CASE Continue(p, [at |-> "head", of |-> Of(p)])
        BY <2>1, <3>2
      <3> QED
        BY <1>5, <3>1, <3>2 DEF PutObject
    <2> QED
      BY <1>5, <2>2, <2>3 DEF PutObject
  <1>6. ASSUME NEW p \in Clients, HeadObject(p) PROVE StoreTypeOK'
    <2>1. Of(p) \in Contents
      BY <1>6 DEF HeadObject
    <2>2. CASE Reply(p, "refused")
      BY <1>6, <2>2 DEF HeadObject
    <2>3. CASE Continue(p, [at |-> "get", of |-> Of(p)])
      BY <1>6, <2>1, <2>3 DEF HeadObject
    <2> QED
      BY <1>6, <2>2, <2>3 DEF HeadObject
  <1>7. ASSUME NEW p \in Clients, GetBack(p) PROVE StoreTypeOK'
    <2>1. PICK how \in Answers : Reply(p, how)
      BY <1>7 DEF GetBack
    <2> QED
      BY <1>7, <2>1 DEF GetBack
  <1>8. ASSUME NEW p \in Clients, LookIntoCache(p) PROVE StoreTypeOK'
    <2>1. Of(p) \in Contents
      BY <1>8 DEF LookIntoCache
    <2>2. cache' \in [Clients -> [Contents -> Bytes]]
      <3>1. CASE UNCHANGED cache
        BY <3>1
      <3>2. CASE cache' = [cache EXCEPT ![p][Of(p)] = "absent"]
        BY <2>1, <3>2
      <3> QED
        BY <1>8, <3>1, <3>2 DEF LookIntoCache
    <2>3. storeCall' \in [Clients -> StoreCalls]
      <3>1. CASE Reply(p, "path")
        BY <3>1
      <3>2. CASE Continue(p, [at |-> "open", of |-> Of(p)])
        BY <2>1, <3>2
      <3> QED
        BY <1>8, <3>1, <3>2 DEF LookIntoCache
    <2> QED
      BY <1>8, <2>2, <2>3 DEF LookIntoCache
  <1>9. ASSUME NEW p \in Clients, OpenObject(p) PROVE StoreTypeOK'
    BY <1>9 DEF OpenObject, BeginCopy
  <1>10. ASSUME NEW p \in Clients, CopyBytes(p) PROVE StoreTypeOK'
    <2>1. PICK read \in Bytes :
             Continue(p, [storeCall[p] EXCEPT !.temporary = IF read = "part" THEN "wrong" ELSE read])
      <3>1. storeCall[p].at = "copy"
        BY <1>10 DEF CopyBytes
      <3>2. storeCall[p].of \in Contents
        BY <3>1
      <3>3. object[storeCall[p].of] \in Bytes
        BY <3>2
      <3>4. (IF storeCall[p].to = "object" THEN {"whole"} ELSE {object[storeCall[p].of], "part"}) \subseteq Bytes
        BY <3>3
      <3> HIDE DEF Bytes
      <3> QED
        BY <1>10, <3>4 DEF CopyBytes
    <2>2. [storeCall[p] EXCEPT !.temporary = IF read = "part" THEN "wrong" ELSE read] \in StoreCalls
      <3>1. storeCall[p] \in [at : {"copy"}, of : Contents, to : {"object", "cache"}, temporary : Bytes]
        BY <1>10 DEF CopyBytes
      <3>2. ASSUME NEW b \in Bytes PROVE [storeCall[p] EXCEPT !.temporary = b] \in StoreCalls
        BY <3>1
      <3> QED
        BY <3>2
    <2> QED
      BY <1>10, <2>1, <2>2 DEF CopyBytes
  <1>11. ASSUME NEW p \in Clients, FinishCopy(p) PROVE StoreTypeOK'
    <2> DEFINE call == storeCall[p]
    <2>1. call \in [at : {"copy"}, of : Contents, to : {"object", "cache"}, temporary : Bytes]
      BY <1>11 DEF FinishCopy
    <2>2. object' \in [Contents -> Bytes]
      BY <1>11, <2>1 DEF FinishCopy
    <2>3. cache' \in [Clients -> [Contents -> Bytes]]
      <3>1. CASE UNCHANGED cache
        BY <3>1
      <3>2. CASE cache' = [cache EXCEPT ![p][call.of] = call.temporary]
        BY <2>1, <3>2
      <3> QED
        BY <1>11, <3>1, <3>2 DEF FinishCopy
    <2>4. storeCall' \in [Clients -> StoreCalls]
      BY <1>11 DEF FinishCopy
    <2> QED
      BY <1>11, <2>2, <2>3, <2>4 DEF FinishCopy
  <1>12. ASSUME NEW p \in Clients, VerifyObject(p) PROVE StoreTypeOK'
    BY <1>12 DEF VerifyObject
  <1>13. ASSUME NEW p \in Clients, StoreCallEnds(p) PROVE StoreTypeOK'
    BY <1>13 DEF StoreCallEnds
  <1> QED
    BY <1>1, <1>2, <1>3, <1>4, <1>5, <1>6, <1>7, <1>8, <1>9, <1>10, <1>11, <1>12, <1>13 DEF StoreStep

\* What each step may do is seen in that step: PutFile, Verify and MaterializeReader answer
\* for bytes they have just compared, and write nothing else where others can find it.
LEMMA StoreStepsSound == StoreTypeOK /\ [StoreStep]_storeVars => [AnswersWhole /\ KeysKept /\ CachesKept]_storeVars
  <1> SUFFICES ASSUME StoreTypeOK, StoreStep PROVE AnswersWhole /\ KeysKept /\ CachesKept
    OBVIOUS
  <1> USE DEF AnswersWhole, KeysKept, CachesKept, Reply, Continue, At, Of, Answered, StoreTypeOK
  <1>1. CASE Damage
    BY <1>1 DEF Damage
  <1>2. ASSUME NEW p \in Clients, StoreCallBegins(p) PROVE AnswersWhole /\ KeysKept /\ CachesKept
    BY <1>2 DEF StoreCallBegins
  <1>3. ASSUME NEW p \in Clients, PutLocal(p) PROVE AnswersWhole /\ KeysKept /\ CachesKept
    BY <1>3 DEF PutLocal, BeginCopy, Intact
  <1>4. ASSUME NEW p \in Clients, PutObject(p) PROVE AnswersWhole /\ KeysKept /\ CachesKept
    BY <1>4 DEF PutObject
  <1>5. ASSUME NEW p \in Clients, HeadObject(p) PROVE AnswersWhole /\ KeysKept /\ CachesKept
    BY <1>5 DEF HeadObject
  <1>6. ASSUME NEW p \in Clients, GetBack(p) PROVE AnswersWhole /\ KeysKept /\ CachesKept
    BY <1>6 DEF GetBack, Intact
  <1>7. ASSUME NEW p \in Clients, LookIntoCache(p) PROVE AnswersWhole /\ KeysKept /\ CachesKept
    BY <1>7 DEF LookIntoCache, Intact
  <1>8. ASSUME NEW p \in Clients, OpenObject(p) PROVE AnswersWhole /\ KeysKept /\ CachesKept
    BY <1>8 DEF OpenObject, BeginCopy
  <1>9. ASSUME NEW p \in Clients, CopyBytes(p) PROVE AnswersWhole /\ KeysKept /\ CachesKept
    BY <1>9 DEF CopyBytes
  <1>10. ASSUME NEW p \in Clients, FinishCopy(p) PROVE AnswersWhole /\ KeysKept /\ CachesKept
    <2>1. CASE ~Intact(storeCall[p].temporary)
      BY <1>10, <2>1 DEF FinishCopy
    <2>2. CASE Intact(storeCall[p].temporary) /\ storeCall[p].to = "object"
      <3>1. UNCHANGED cache /\ object' = [object EXCEPT ![Of(p)] = "whole"]
        BY <1>10, <2>2 DEF FinishCopy, Intact
      <3>2. storeCall' = [storeCall EXCEPT ![p] = Answered("stored")]
        BY <1>10, <2>2 DEF FinishCopy
      <3>3. Of(p) \in Contents
        BY <1>10 DEF FinishCopy, StoreCalls, Answers
      <3> QED
        BY <3>1, <3>2, <3>3
    <2>3. CASE Intact(storeCall[p].temporary) /\ storeCall[p].to # "object"
      <3>1. UNCHANGED object /\ cache' = [cache EXCEPT ![p][Of(p)] = "whole"]
        BY <1>10, <2>3 DEF FinishCopy, Intact
      <3>2. storeCall' = [storeCall EXCEPT ![p] = Answered("path")]
        BY <1>10, <2>3 DEF FinishCopy
      <3>3. Of(p) \in Contents
        BY <1>10 DEF FinishCopy, StoreCalls, Answers
      <3> QED
        BY <3>1, <3>2, <3>3
    <2> QED
      BY <2>1, <2>2, <2>3
  <1>11. ASSUME NEW p \in Clients, VerifyObject(p) PROVE AnswersWhole /\ KeysKept /\ CachesKept
    BY <1>11 DEF VerifyObject, Intact
  <1>12. ASSUME NEW p \in Clients, StoreCallEnds(p) PROVE AnswersWhole /\ KeysKept /\ CachesKept
    BY <1>12 DEF StoreCallEnds
  <1> QED
    BY <1>1, <1>2, <1>3, <1>4, <1>5, <1>6, <1>7, <1>8, <1>9, <1>10, <1>11, <1>12 DEF StoreStep

LEMMA ServingStore == [ServingNext]_servingVars => [StoreStep]_storeVars
  BY DEF ServingNext, servingVars

\* Every object, cache and call is of its type (Store, PutFile, MaterializeVerified, Verify).
THEOREM StoreTypesCorrect == ServingSpec => []StoreTypeOK
  <1>1. ServingInit => StoreTypeOK
    BY StoreTypeInit DEF ServingInit
  <1> QED
    BY <1>1, ServingStore, StoreTypeStep, PTL DEF ServingSpec

\* What a client is told of is whole, and nothing but whole files gets where others look
\* (atomicCopyReader, VerifyReader), for any number of contents and clients.
THEOREM ArtifactsAreSound == ServingSpec => ArtifactsSound
  BY StoreTypesCorrect, ServingStore, StoreStepsSound, PTL DEF ServingSpec, ArtifactsSound


-----------------------------------------------------------------------------
(***************************************************************************)
(* Sums of functions, which the library computes by a recursive function.  *)
(* That it exists and what it gives is shown for sets of 0, 1, 2, ...      *)
(* elements; a first size for which it went wrong would be a least number. *)
(***************************************************************************)
\* One entry of the table of sums over the subsets of a set, from those of smaller ones.
Entry(f, G, s) == IF s = {} THEN 0 ELSE LET x == CHOOSE x \in s : TRUE IN f[x] + G[s \ {x}]

Table(f, U, G) == G = [s \in SUBSET U |-> Entry(f, G, s)]

\* Sets of at most k elements.
Small(U, k) == {s \in SUBSET U : Cardinality(s) <= k}

\* What is left of a set without the element that is chosen.
LEMMA RestIsSmaller ==
    ASSUME NEW U, IsFiniteSet(U), NEW k \in Nat, NEW s \in Small(U, k + 1), s # {}
    PROVE  LET x == CHOOSE x \in s : TRUE IN x \in s /\ s \ {x} \in Small(U, k)
  <1>1. PICK x : x = CHOOSE y \in s : TRUE
    OBVIOUS
  <1>2. x \in s
    BY <1>1
  <1>3. s \in SUBSET U /\ Cardinality(s) <= k + 1
    BY DEF Small
  <1>4. IsFiniteSet(s)
    BY <1>3, FS_Subset
  <1>5. Cardinality(s \ {x}) = Cardinality(s) - 1 /\ Cardinality(s) \in Nat
    BY <1>2, <1>4, FS_RemoveElement, FS_CardinalityType
  <1>6. s \ {x} \in Small(U, k)
    BY <1>3, <1>5 DEF Small
  <1> QED
    BY <1>1, <1>2, <1>6

\* There is a table: of sums over small sets, then over larger ones.
LEMMA TableExists ==
    ASSUME NEW f, NEW U, IsFiniteSet(U)
    PROVE  \E G : Table(f, U, G)
  <1> DEFINE Upto(k) == \E G : G = [s \in Small(U, k) |-> Entry(f, G, s)]
  <1>1. Upto(0)
    <2> DEFINE G == [s \in Small(U, 0) |-> 0]
    <2>1. \A s \in Small(U, 0) : s = {}
      <3> SUFFICES ASSUME NEW s \in Small(U, 0) PROVE s = {}
        OBVIOUS
      <3>1. s \in SUBSET U /\ Cardinality(s) <= 0
        BY DEF Small
      <3>2. IsFiniteSet(s)
        BY <3>1, FS_Subset
      <3>3. Cardinality(s) = 0
        BY <3>1, <3>2, FS_CardinalityType
      <3> QED
        BY <3>2, <3>3, FS_EmptySet
    <2>2. \A s \in Small(U, 0) : Entry(f, G, s) = 0
      BY <2>1 DEF Entry
    <2> QED
      BY <2>2
  <1>2. ASSUME NEW k \in Nat, Upto(k) PROVE Upto(k + 1)
    <2>1. PICK G : G = [s \in Small(U, k) |-> Entry(f, G, s)]
      BY <1>2
    <2> DEFINE H == [s \in Small(U, k + 1) |-> Entry(f, G, s)]
    <2>2. \A s \in Small(U, k) : s \in Small(U, k + 1)
      <3> SUFFICES ASSUME NEW s \in Small(U, k) PROVE s \in Small(U, k + 1)
        OBVIOUS
      <3>1. s \in SUBSET U /\ Cardinality(s) <= k
        BY DEF Small
      <3>2. IsFiniteSet(s)
        BY <3>1, FS_Subset
      <3>3. Cardinality(s) \in Nat
        BY <3>2, FS_CardinalityType
      <3> QED
        BY <3>1, <3>3 DEF Small
    <2>3. \A s \in Small(U, k) : H[s] = G[s]
      BY <2>1, <2>2
    <2>4. H = [s \in Small(U, k + 1) |-> H[s]] /\ \A s \in Small(U, k + 1) : H[s] = Entry(f, G, s)
      OBVIOUS
    <2> HIDE DEF H
    <2>5. \A s \in Small(U, k + 1) : Entry(f, H, s) = Entry(f, G, s)
      <3> SUFFICES ASSUME NEW s \in Small(U, k + 1), s # {}
                   PROVE  Entry(f, H, s) = Entry(f, G, s)
        BY DEF Entry
      <3>1. PICK x : x = CHOOSE y \in s : TRUE
        OBVIOUS
      <3>2. s \ {x} \in Small(U, k)
        BY <3>1, RestIsSmaller
      <3>3. H[s \ {x}] = G[s \ {x}]
        BY <2>3, <3>2
      <3> QED
        BY <3>1, <3>3 DEF Entry
    <2> QED
      BY <2>4, <2>5
  <1> DEFINE Missing == {k \in Nat : ~Upto(k)}
  <1> HIDE DEF Upto
  <1>3. Missing = {}
    <2> SUFFICES ASSUME Missing # {} PROVE FALSE
      OBVIOUS
    <2>1. PICK m \in Missing : \A k \in Missing : m <= k
      BY LeastNatural
    <2>2. m \in Nat \ {0}
      BY <1>1, <2>1
    <2>3. m - 1 \in Nat /\ (m - 1) + 1 = m
      BY <2>2
    <2>4. Upto(m - 1)
      BY <2>1, <2>3
    <2> QED
      BY <1>2, <2>1, <2>3, <2>4
  <1>4. Cardinality(U) \in Nat
    BY FS_CardinalityType
  <1>5. PICK G : G = [s \in Small(U, Cardinality(U)) |-> Entry(f, G, s)]
    BY <1>3, <1>4 DEF Upto
  <1>6. Small(U, Cardinality(U)) = SUBSET U
    BY FS_Subset DEF Small
  <1> QED
    BY <1>5, <1>6 DEF Table

\* A sum is what a table has for all arguments.
LEMMA TotalIs ==
    ASSUME NEW f, IsFiniteSet(DOMAIN f)
    PROVE  \E G : Table(f, DOMAIN f, G) /\ Total(f) = G[DOMAIN f]
  <1>1. \E G : Table(f, DOMAIN f, G)
    BY TableExists
  <1> QED
    BY <1>1 DEF Table, Entry, Total, Sums!MapThenSumSet, Sums!MapThenFoldSet

\* The tables of functions that agree on a set agree about it.
LEMMA TablesAgree ==
    ASSUME NEW f, NEW g, NEW U, NEW V, NEW G, NEW H, IsFiniteSet(U), IsFiniteSet(V),
           Table(f, U, G), Table(g, V, H),
           NEW S \in SUBSET U, S \in SUBSET V, \A x \in S : f[x] = g[x]
    PROVE  G[S] = H[S]
  <1> DEFINE wrong == {s \in SUBSET S : G[s] # H[s]}
             sizes == {Cardinality(s) : s \in wrong}
  <1>1. \A s \in SUBSET S : IsFiniteSet(s) /\ Cardinality(s) \in Nat /\ s \in SUBSET U /\ s \in SUBSET V
    BY FS_Subset, FS_CardinalityType
  <1>2. wrong = {}
    <2> SUFFICES ASSUME wrong # {} PROVE FALSE
      OBVIOUS
    <2>1. sizes \in SUBSET Nat /\ sizes # {}
      BY <1>1
    <2>2. PICK m \in sizes : \A k \in sizes : m <= k
      BY <2>1, LeastNatural
    <2>3. PICK s \in wrong : m = Cardinality(s)
      BY <2>2
    <2>4. G[s] = Entry(f, G, s) /\ H[s] = Entry(g, H, s)
      BY <1>1 DEF Table
    <2>5. s # {}
      BY <2>4 DEF Entry
    <2>6. PICK x : x = CHOOSE y \in s : TRUE
      OBVIOUS
    <2>7. x \in s
      BY <2>5, <2>6
    <2>8. Cardinality(s \ {x}) = Cardinality(s) - 1 /\ s \ {x} \in SUBSET S
      BY <1>1, <2>7, FS_RemoveElement
    <2>9. G[s \ {x}] = H[s \ {x}]
      <3> SUFFICES ASSUME s \ {x} \in wrong PROVE FALSE
        BY <2>8
      <3>1. m <= Cardinality(s \ {x})
        BY <2>2
      <3> QED
        BY <1>1, <2>3, <2>8, <3>1
    <2>10. f[x] = g[x]
      BY <2>7
    <2> QED
      BY <2>3, <2>4, <2>5, <2>6, <2>9, <2>10 DEF Entry
  <1> QED
    BY <1>2

\* A function without one of its arguments.
Without(f, x) == [y \in DOMAIN f \ {x} |-> f[y]]

\* Numbers for finitely many.
Numbers(f) == IsFiniteSet(DOMAIN f) /\ \A x \in DOMAIN f : f[x] \in Nat

LEMMA TotalOfNothing == ASSUME NEW f, DOMAIN f = {} PROVE Total(f) = 0
  <1>1. PICK G : Table(f, DOMAIN f, G) /\ Total(f) = G[DOMAIN f]
    BY TotalIs, FS_EmptySet
  <1> QED
    BY <1>1 DEF Table, Entry

\* The one that is chosen counts besides the others.
LEMMA TotalOfChosen ==
    ASSUME NEW f, IsFiniteSet(DOMAIN f), DOMAIN f # {}
    PROVE  \E x \in DOMAIN f : Total(f) = f[x] + Total(Without(f, x))
  <1>1. PICK G : Table(f, DOMAIN f, G) /\ Total(f) = G[DOMAIN f]
    BY TotalIs
  <1>2. PICK x : x = CHOOSE y \in DOMAIN f : TRUE
    OBVIOUS
  <1>3. x \in DOMAIN f
    BY <1>2
  <1>4. Total(f) = f[x] + G[DOMAIN f \ {x}]
    BY <1>1, <1>2 DEF Table, Entry
  <1>5. PICK g : g = Without(f, x)
    OBVIOUS
  <1>6. DOMAIN g = DOMAIN f \ {x} /\ \A y \in DOMAIN g : g[y] = f[y]
    BY <1>5 DEF Without
  <1>7. IsFiniteSet(DOMAIN g)
    BY <1>6, FS_Subset
  <1>8. PICK H : Table(g, DOMAIN g, H) /\ Total(g) = H[DOMAIN g]
    BY <1>7, TotalIs
  <1>9. G[DOMAIN g] = H[DOMAIN g]
    BY <1>1, <1>6, <1>7, <1>8, TablesAgree
  <1> QED
    BY <1>3, <1>4, <1>5, <1>6, <1>8, <1>9

LEMMA WithoutIsSmaller ==
    ASSUME NEW f, Numbers(f), NEW x \in DOMAIN f
    PROVE  /\ Numbers(Without(f, x)) /\ DOMAIN Without(f, x) = DOMAIN f \ {x}
           /\ \A y \in DOMAIN f \ {x} : Without(f, x)[y] = f[y]
           /\ Cardinality(DOMAIN f) \in Nat \ {0}
           /\ Cardinality(DOMAIN Without(f, x)) = Cardinality(DOMAIN f) - 1
  <1>1. DOMAIN Without(f, x) = DOMAIN f \ {x} /\ \A y \in DOMAIN f \ {x} : Without(f, x)[y] = f[y]
    BY DEF Without
  <1>2. IsFiniteSet(DOMAIN f \ {x}) /\ Cardinality(DOMAIN f \ {x}) = Cardinality(DOMAIN f) - 1
    BY FS_RemoveElement DEF Numbers
  <1>3. Cardinality(DOMAIN f) \in Nat /\ Cardinality(DOMAIN f \ {x}) \in Nat
    BY <1>2, FS_CardinalityType DEF Numbers
  <1> QED
    BY <1>1, <1>2, <1>3 DEF Numbers

\* Any one counts besides the others, and the sum is a number.
LEMMA TotalOfAny ==
    ASSUME NEW f, Numbers(f)
    PROVE  /\ Total(f) \in Nat
           /\ \A x \in DOMAIN f : Total(f) = f[x] + Total(Without(f, x)) /\ Total(Without(f, x)) \in Nat
  <1> DEFINE Good(g) == /\ Total(g) \in Nat
                        /\ \A x \in DOMAIN g : Total(g) = g[x] + Total(Without(g, x))
             Sized(k) == \A g : Numbers(g) /\ Cardinality(DOMAIN g) = k => Good(g)
             Missing == {k \in Nat : ~Sized(k)}
  <1>1. ASSUME NEW k \in Nat, \A j \in Nat : j < k => Sized(j) PROVE Sized(k)
    <2> SUFFICES ASSUME NEW g, Numbers(g), Cardinality(DOMAIN g) = k PROVE Good(g)
      OBVIOUS
    <2>1. CASE DOMAIN g = {}
      BY <2>1, TotalOfNothing
    <2>2. CASE DOMAIN g # {}
      <3>1. PICK x \in DOMAIN g : Total(g) = g[x] + Total(Without(g, x))
        BY <2>2, TotalOfChosen DEF Numbers
      <3>2. ASSUME NEW h, Numbers(h), Cardinality(DOMAIN h) = k - 1, k # 0 PROVE Good(h)
        <4>1. k - 1 \in Nat /\ k - 1 < k
          BY <3>2
        <4> QED
          BY <1>1, <3>2, <4>1
      <3> HIDE DEF Sized
      <3>3. \A y \in DOMAIN g : /\ Numbers(Without(g, y)) /\ Cardinality(DOMAIN Without(g, y)) = k - 1 /\ k # 0
                                /\ DOMAIN Without(g, y) = DOMAIN g \ {y}
                                /\ \A z \in DOMAIN g \ {y} : Without(g, y)[z] = g[z]
        BY WithoutIsSmaller
      <3>4. \A y \in DOMAIN g : Good(Without(g, y))
        BY <3>2, <3>3
      <3>5. Total(g) \in Nat
        BY <3>1, <3>4 DEF Numbers
      <3>6. ASSUME NEW y \in DOMAIN g, y # x PROVE Total(g) = g[y] + Total(Without(g, y))
        <4>1. PICK gx : gx = Without(g, x)
          OBVIOUS
        <4>2. PICK gy : gy = Without(g, y)
          OBVIOUS
        <4>3. PICK both : both = [z \in DOMAIN g \ {x, y} |-> g[z]]
          OBVIOUS
        <4>4. Without(gx, y) = both /\ Without(gy, x) = both
          BY <3>6, <4>1, <4>2, <4>3 DEF Without
        <4>5. /\ Numbers(gx) /\ DOMAIN gx = DOMAIN g \ {x} /\ gx[y] = g[y]
              /\ Numbers(gy) /\ DOMAIN gy = DOMAIN g \ {y} /\ gy[x] = g[x]
              /\ Cardinality(DOMAIN gx) = k - 1 /\ k # 0
          BY <3>3, <3>6, <4>1, <4>2
        <4>6. y \in DOMAIN gx /\ x \in DOMAIN gy
          BY <3>6, <4>5
        <4>7. Total(gx) = g[y] + Total(both)
          BY <3>4, <4>1, <4>4, <4>5, <4>6
        <4>8. Total(gy) = g[x] + Total(both)
          BY <3>4, <4>2, <4>4, <4>5, <4>6
        <4>9. g[x] \in Nat /\ g[y] \in Nat
          BY DEF Numbers
        <4>10. Numbers(both) /\ Cardinality(DOMAIN both) = k - 2 /\ k - 1 \in Nat \ {0}
          <5>1. Numbers(both) /\ Cardinality(DOMAIN both) = Cardinality(DOMAIN gx) - 1
            <6>1. Numbers(Without(gx, y)) /\ Cardinality(DOMAIN Without(gx, y)) = Cardinality(DOMAIN gx) - 1
              BY <4>5, <4>6, WithoutIsSmaller
            <6> QED
              BY <4>4, <6>1
          <5>2. Cardinality(DOMAIN gx) \in Nat \ {0}
            BY <4>5, <4>6, WithoutIsSmaller
          <5> QED
            BY <4>5, <5>1, <5>2
        <4>11. k - 2 \in Nat /\ k - 2 < k
          BY <4>10
        <4>12. Sized(k - 2)
          BY <1>1, <4>11
        <4>13. Total(both) \in Nat
          BY <4>10, <4>12 DEF Sized
        <4> QED
          BY <3>1, <4>1, <4>2, <4>7, <4>8, <4>9, <4>13
      <3> QED
        BY <3>1, <3>5, <3>6
    <2> QED
      BY <2>1, <2>2
  <1> HIDE DEF Sized
  <1>2. Missing = {}
    <2> SUFFICES ASSUME Missing # {} PROVE FALSE
      OBVIOUS
    <2>1. PICK m \in Missing : \A k \in Missing : m <= k
      BY LeastNatural
    <2>2. \A j \in Nat : j < m => Sized(j)
      BY <2>1
    <2> QED
      BY <1>1, <2>1, <2>2
  <1>3. \A g : Numbers(g) => Good(g)
    <2> SUFFICES ASSUME NEW g, Numbers(g) PROVE Good(g)
      OBVIOUS
    <2>1. Cardinality(DOMAIN g) \in Nat
      BY FS_CardinalityType DEF Numbers
    <2> QED
      BY <1>2, <2>1 DEF Sized
  <1>4. \A x \in DOMAIN f : Numbers(Without(f, x))
    BY WithoutIsSmaller
  <1> QED
    BY <1>3, <1>4

-----------------------------------------------------------------------------
(* Sums over a part of the arguments. *)

\* What f gives over a set.
Part(f, s) == Total([x \in s |-> f[x]])

\* A set that is finite is reached by adding one element after the other.
LEMMA ByAdding ==
    ASSUME NEW U, IsFiniteSet(U), NEW D, {} \in D,
           \A s \in SUBSET U : s \in D => \A x \in U \ s : s \cup {x} \in D
    PROVE  U \in D
  <1> DEFINE left == {Cardinality(U \ s) : s \in (SUBSET U) \cap D}
  <1>1. \A s \in SUBSET U : IsFiniteSet(U \ s) /\ Cardinality(U \ s) \in Nat
    BY FS_Subset, FS_CardinalityType
  <1>2. left \in SUBSET Nat /\ left # {}
    BY <1>1
  <1>3. PICK m \in left : \A k \in left : m <= k
    BY <1>2, LeastNatural
  <1>4. PICK s \in (SUBSET U) \cap D : m = Cardinality(U \ s)
    BY <1>3
  <1>5. s = U
    <2> SUFFICES ASSUME NEW x \in U \ s PROVE FALSE
      BY <1>4
    <2>1. U \ (s \cup {x}) = (U \ s) \ {x} /\ s \cup {x} \in (SUBSET U) \cap D
      BY <1>4
    <2>2. Cardinality((U \ s) \ {x}) = Cardinality(U \ s) - 1
      BY <1>1, <1>4, FS_RemoveElement
    <2>3. m <= Cardinality(U \ (s \cup {x}))
      BY <1>3, <2>1
    <2>4. Cardinality(U \ s) \in Nat
      BY <1>1, <1>4
    <2>5. Cardinality(U \ s) <= Cardinality(U \ s) - 1
      BY <1>4, <2>1, <2>2, <2>3
    <2> QED
      BY <2>4, <2>5
  <1> QED
    BY <1>4, <1>5

\* Numbers for the elements of a finite set.
NumbersOver(f, U) == IsFiniteSet(U) /\ \A x \in U : f[x] \in Nat

LEMMA PartsAdd ==
    ASSUME NEW f, NEW U, NumbersOver(f, U), NEW s \in SUBSET U
    PROVE  /\ Part(f, {}) = 0 /\ Part(f, s) \in Nat
           /\ \A x \in U \ s : Part(f, s \cup {x}) = f[x] + Part(f, s)
  <1>1. Part(f, {}) = 0
    BY TotalOfNothing DEF Part
  <1>2. \A t \in SUBSET U : Numbers([x \in t |-> f[x]])
    BY FS_Subset DEF Numbers, NumbersOver
  <1>3. Part(f, s) \in Nat
    BY <1>2, TotalOfAny DEF Part
  <1>4. ASSUME NEW x \in U \ s PROVE Part(f, s \cup {x}) = f[x] + Part(f, s)
    <2>1. PICK g : g = [y \in s \cup {x} |-> f[y]]
      OBVIOUS
    <2>2. Numbers(g) /\ x \in DOMAIN g /\ g[x] = f[x]
      BY <1>2, <2>1
    <2>3. Total(g) = g[x] + Total(Without(g, x))
      BY <2>2, TotalOfAny
    <2>4. Without(g, x) = [y \in s |-> f[y]]
      BY <2>1 DEF Without
    <2> QED
      BY <2>1, <2>2, <2>3, <2>4 DEF Part
  <1> QED
    BY <1>1, <1>3, <1>4

\* Functions that agree on a set have the same sum over it.
LEMMA PartOfEqual ==
    ASSUME NEW f, NEW g, NEW U, \A x \in U : f[x] = g[x]
    PROVE  Part(f, U) = Part(g, U)
  <1>1. [x \in U |-> f[x]] = [x \in U |-> g[x]]
    OBVIOUS
  <1> QED
    BY <1>1 DEF Part

LEMMA PartOfZeros ==
    ASSUME NEW f, NEW U, IsFiniteSet(U), \A x \in U : f[x] = 0
    PROVE  Part(f, U) = 0
  <1> DEFINE D == {s \in SUBSET U : Part(f, s) = 0}
  <1>1. NumbersOver(f, U)
    BY DEF NumbersOver
  <1>2. {} \in D
    BY TotalOfNothing DEF Part
  <1>3. ASSUME NEW s \in SUBSET U, s \in D, NEW x \in U \ s PROVE s \cup {x} \in D
    <2>1. Part(f, s \cup {x}) = f[x] + Part(f, s)
      BY <1>1, PartsAdd
    <2> QED
      BY <1>3, <2>1
  <1>4. U \in D
    <2> HIDE DEF D
    <2> QED  BY <1>2, <1>3, ByAdding
  <1> QED
    BY <1>4

\* Two sets that have nothing in common.
LEMMA PartOfTwo ==
    ASSUME NEW f, NEW U, NumbersOver(f, U), NEW s \in SUBSET U, NEW t \in SUBSET U, s \cap t = {}
    PROVE  Part(f, s \cup t) = Part(f, s) + Part(f, t)
  <1> DEFINE D == {r \in SUBSET t : Part(f, s \cup r) = Part(f, s) + Part(f, r)}
  <1>1. IsFiniteSet(t) /\ Part(f, s) \in Nat /\ Part(f, {}) = 0
    BY PartsAdd, FS_Subset DEF NumbersOver
  <1>2. {} \in D
    <2>1. s \cup {} = s
      OBVIOUS
    <2> QED  BY <1>1, <2>1
  <1>3. ASSUME NEW r \in SUBSET t, r \in D, NEW x \in t \ r PROVE r \cup {x} \in D
    <2>1. s \cup (r \cup {x}) = (s \cup r) \cup {x} /\ x \in U \ (s \cup r) /\ x \in U \ r
          /\ s \cup r \in SUBSET U /\ r \in SUBSET U
      BY <1>3
    <2>2. Part(f, (s \cup r) \cup {x}) = f[x] + Part(f, s \cup r)
      <3>1. PICK q : q = s \cup r
        OBVIOUS
      <3>2. q \in SUBSET U /\ x \in U \ q
        BY <2>1, <3>1
      <3>3. Part(f, q \cup {x}) = f[x] + Part(f, q)
        BY <3>2, PartsAdd
      <3> QED
        BY <3>1, <3>3
    <2>3. Part(f, r \cup {x}) = f[x] + Part(f, r) /\ Part(f, r) \in Nat
      BY <2>1, PartsAdd
    <2>4. f[x] \in Nat
      BY <2>1 DEF NumbersOver
    <2>5. Part(f, s \cup r) = Part(f, s) + Part(f, r)
      BY <1>3
    <2>6. Part(f, s \cup (r \cup {x})) = f[x] + Part(f, s \cup r)
      BY <2>1, <2>2
    <2>7. Part(f, s \cup (r \cup {x})) = Part(f, s) + Part(f, r \cup {x})
      BY <1>1, <2>3, <2>4, <2>5, <2>6
    <2> QED
      BY <1>3, <2>7
  <1>4. t \in D
    <2> HIDE DEF D
    <2> QED  BY <1>1, <1>2, <1>3, ByAdding
  <1> QED
    BY <1>4

\* A part is no more than the whole, and the same if nothing else counts.
LEMMA PartOfPart ==
    ASSUME NEW f, NEW U, NumbersOver(f, U), NEW s \in SUBSET U
    PROVE  /\ Part(f, s) <= Part(f, U) /\ Part(f, s) \in Nat /\ Part(f, U) \in Nat
           /\ (\A x \in U \ s : f[x] = 0) => Part(f, s) = Part(f, U)
           /\ \A x \in U : f[x] <= Part(f, U) /\ Part(f, U \ {x}) = Part(f, U) - f[x]
  <1>1. ASSUME NEW t \in SUBSET U
        PROVE  Part(f, U) = Part(f, t) + Part(f, U \ t) /\ Part(f, t) \in Nat /\ Part(f, U \ t) \in Nat
    <2>1. U = t \cup (U \ t) /\ U \ t \in SUBSET U /\ t \cap (U \ t) = {}
      OBVIOUS
    <2>2. Part(f, t \cup (U \ t)) = Part(f, t) + Part(f, U \ t)
      BY <2>1, PartOfTwo
    <2> QED
      BY <2>1, <2>2, PartsAdd
  <1>2. Part(f, s) <= Part(f, U) /\ Part(f, s) \in Nat /\ Part(f, U) \in Nat
    <2>1. Part(f, U) = Part(f, s) + Part(f, U \ s) /\ Part(f, s) \in Nat /\ Part(f, U \ s) \in Nat
      BY <1>1
    <2> QED
      BY <2>1
  <1>3. (\A x \in U \ s : f[x] = 0) => Part(f, s) = Part(f, U)
    <2> SUFFICES ASSUME \A x \in U \ s : f[x] = 0 PROVE Part(f, s) = Part(f, U)
      OBVIOUS
    <2>1. IsFiniteSet(U \ s)
      BY FS_Subset DEF NumbersOver
    <2>2. Part(f, U \ s) = 0
      BY <2>1, PartOfZeros
    <2> QED
      BY <1>1, <2>2
  <1>4. ASSUME NEW x \in U PROVE f[x] <= Part(f, U) /\ Part(f, U \ {x}) = Part(f, U) - f[x]
    <2>1. (U \ {x}) \cup {x} = U /\ x \in U \ (U \ {x}) /\ U \ {x} \in SUBSET U
      OBVIOUS
    <2>2. Part(f, (U \ {x}) \cup {x}) = f[x] + Part(f, U \ {x}) /\ Part(f, U \ {x}) \in Nat
      BY <2>1, PartsAdd
    <2>3. f[x] \in Nat
      BY DEF NumbersOver
    <2>4. Part(f, U) = f[x] + Part(f, U \ {x})
      BY <2>1, <2>2
    <2> QED
      BY <2>2, <2>3, <2>4
  <1> QED
    BY <1>2, <1>3, <1>4

\* The elements of a set under other names.
LEMMA PartRenamed ==
    ASSUME NEW U, NEW V, NEW h \in Bijection(U, V), NEW f, NumbersOver(f, V)
    PROVE  IsFiniteSet(U) /\ Part([u \in U |-> f[h[u]]], U) = Part(f, V)
  <1> DEFINE g == [u \in U |-> f[h[u]]]
             img(s) == {h[u] : u \in s}
             D == {s \in SUBSET U : Part(g, s) = Part(f, img(s))}
  <1>1. h \in [U -> V] /\ (\A a, b \in U : a # b => h[a] # h[b]) /\ img(U) = V
    BY DEF Bijection, Injection, Surjection, IsInjective
  <1>2. h \in Injection(U, V)
    BY DEF Bijection
  <1>3. IsFiniteSet(U)
    BY <1>2, FS_Injection DEF NumbersOver
  <1>4. NumbersOver(g, U)
    BY <1>1, <1>3 DEF NumbersOver
  <1>5. {} \in D
    <2>1. img({}) = {}
      OBVIOUS
    <2> QED  BY <2>1, TotalOfNothing DEF Part
  <1>6. ASSUME NEW s \in SUBSET U, s \in D, NEW x \in U \ s PROVE s \cup {x} \in D
    <2>1. img(s \cup {x}) = img(s) \cup {h[x]} /\ h[x] \in V \ img(s) /\ img(s) \in SUBSET V
      BY <1>1, <1>6
    <2>2. Part(f, img(s) \cup {h[x]}) = f[h[x]] + Part(f, img(s))
      <3> HIDE DEF img
      <3> QED  BY <2>1, PartsAdd
    <2>3. Part(g, s \cup {x}) = g[x] + Part(g, s)
      BY <1>4, PartsAdd
    <2>4. g[x] = f[h[x]]
      OBVIOUS
    <2> HIDE DEF g, img
    <2> QED
      BY <1>6, <2>1, <2>2, <2>3, <2>4
  <1>7. U \in D
    <2> HIDE DEF D
    <2> QED  BY <1>3, <1>5, <1>6, ByAdding
  <1> QED
    BY <1>1, <1>3, <1>7

\* The elements of a set of which a function says the same.
Alike(U, h, v) == {u \in U : h[u] = v}

\* The elements of a set by what a function says of them.
LEMMA PartByClass ==
    ASSUME NEW U, NEW V, IsFiniteSet(V), NEW h \in [U -> V], NEW f, NumbersOver(f, U),
           NEW g, \A v \in V : g[v] = Part(f, Alike(U, h, v))
    PROVE  Part(f, U) = Part(g, V)
  <1> DEFINE of(s, v) == {u \in s : h[u] = v}
             by(s) == [v \in V |-> Part(f, of(s, v))]
             D == {s \in SUBSET U : Part(f, s) = Part(by(s), V)}
  <1>1. IsFiniteSet(U) /\ \A s \in SUBSET U : \A v \in V : of(s, v) \in SUBSET U
    BY DEF NumbersOver
  <1>2. \A s \in SUBSET U : NumbersOver(by(s), V)
    <2> SUFFICES ASSUME NEW s \in SUBSET U, NEW v \in V PROVE Part(f, of(s, v)) \in Nat
      BY DEF NumbersOver
    <2> HIDE DEF of
    <2> QED  BY <1>1, PartsAdd
  <1>3. {} \in D
    <2>1. \A v \in V : of({}, v) = {}
      OBVIOUS
    <2>2. Part(f, {}) = 0
      BY TotalOfNothing DEF Part
    <2>3. \A v \in V : by({})[v] = 0
      BY <2>1, <2>2
    <2>4. Part(by({}), V) = 0
      BY <2>3, PartOfZeros
    <2> QED  BY <2>2, <2>4
  <1>4. ASSUME NEW s \in SUBSET U, s \in D, NEW x \in U \ s PROVE s \cup {x} \in D
    <2>1. PICK v : v = h[x]
      OBVIOUS
    <2>2. PICK t : t = s \cup {x}
      OBVIOUS
    <2>3. v \in V /\ t \in SUBSET U
      BY <2>1, <2>2
    <2>4. \A w \in V \ {v} : of(t, w) = of(s, w)
      BY <2>1, <2>2
    <2>5. of(t, v) = of(s, v) \cup {x} /\ x \in U \ of(s, v) /\ of(s, v) \in SUBSET U
      BY <2>1, <2>2
    <2>6. f[x] \in Nat
      BY DEF NumbersOver
    <2>7. PICK a : a = by(s)
      OBVIOUS
    <2>8. PICK b : b = by(t)
      OBVIOUS
    <2>9. Part(f, of(t, v)) = f[x] + Part(f, of(s, v))
      <3> HIDE DEF of
      <3> QED  BY <2>5, PartsAdd
    <2>10. b[v] = f[x] + a[v]
      BY <2>3, <2>7, <2>8, <2>9
    <2>11. \A w \in V \ {v} : b[w] = a[w]
      BY <2>4, <2>7, <2>8
    <2>12. NumbersOver(a, V) /\ NumbersOver(b, V)
      BY <1>2, <2>3, <2>7, <2>8
    <2>13. Part(a, V \ {v}) = Part(b, V \ {v})
      BY <2>11, PartOfEqual
    <2>14. Part(a, V \ {v}) = Part(a, V) - a[v] /\ Part(a, V) \in Nat
      BY <2>3, <2>12, PartOfPart
    <2>15. Part(b, V \ {v}) = Part(b, V) - b[v] /\ Part(b, V) \in Nat
      BY <2>3, <2>12, PartOfPart
    <2>16. a[v] \in Nat /\ b[v] \in Nat
      BY <2>3, <2>12 DEF NumbersOver
    <2>17. Part(b, V) = f[x] + Part(a, V)
      BY <2>6, <2>10, <2>13, <2>14, <2>15, <2>16
    <2>18. Part(f, t) = f[x] + Part(f, s)
      BY <2>2, PartsAdd
    <2> QED
      BY <1>4, <2>2, <2>3, <2>7, <2>8, <2>17, <2>18
  <1>5. U \in D
    <2> HIDE DEF D
    <2> QED  BY <1>1, <1>3, <1>4, ByAdding
  <1>6. Part(f, U) = Part(by(U), V)
    BY <1>5
  <1>7. \A v \in V : by(U)[v] = g[v]
    BY DEF Alike
  <1>8. Part(by(U), V) = Part(g, V)
    <2> HIDE DEF by
    <2> QED  BY <1>7, PartOfEqual
  <1> QED
    BY <1>6, <1>8

-----------------------------------------------------------------------------
(* The first of a set that is sorted. *)

\* Who is before x.
Ahead(S, R, x) == {y \in S : <<y, x>> \in R}
Leading(n, S, R) == {x \in S : Cardinality(Ahead(S, R, x)) < n}
Sorts(R, S) ==
    /\ \A x \in S : <<x, x>> \notin R
    /\ \A x, y, z \in S : <<x, y>> \in R /\ <<y, z>> \in R => <<x, z>> \in R
    /\ \A x, y \in S : x # y => <<x, y>> \in R \/ <<y, x>> \in R

\* Who is before another has fewer before him.
LEMMA AheadGrows ==
    ASSUME NEW S, IsFiniteSet(S), NEW R, Sorts(R, S), NEW x \in S, NEW y \in S, <<x, y>> \in R
    PROVE  /\ Cardinality(Ahead(S, R, x)) \in Nat /\ Cardinality(Ahead(S, R, y)) \in 1..Cardinality(S)
           /\ Cardinality(Ahead(S, R, x)) < Cardinality(Ahead(S, R, y))
  <1>1. PICK a : a = Ahead(S, R, x)
    OBVIOUS
  <1>2. PICK b : b = Ahead(S, R, y)
    OBVIOUS
  <1>3. a \in SUBSET b /\ x \in b /\ x \notin a /\ b \in SUBSET S
    BY <1>1, <1>2 DEF Ahead, Sorts
  <1>4. IsFiniteSet(b) /\ Cardinality(b) <= Cardinality(S)
    BY <1>3, FS_Subset
  <1>5. IsFiniteSet(a) /\ Cardinality(a) <= Cardinality(b) /\ Cardinality(a) # Cardinality(b)
    BY <1>3, <1>4, FS_Subset
  <1>6. Cardinality(a) \in Nat /\ Cardinality(b) \in Nat /\ Cardinality(S) \in Nat
    BY <1>4, <1>5, FS_CardinalityType
  <1> QED
    BY <1>1, <1>2, <1>4, <1>5, <1>6

\* At most n are the first n, and they are before all others.
LEMMA LeadingAreFirst ==
    ASSUME NEW S, IsFiniteSet(S), NEW R, Sorts(R, S), NEW n \in Nat
    PROVE  /\ Leading(n, S, R) \in SUBSET S
           /\ Cardinality(Leading(n, S, R)) <= n
           /\ \A p \in S \ Leading(n, S, R), q \in Leading(n, S, R) : <<q, p>> \in R
  <1>1. Leading(n, S, R) \in SUBSET S
    BY DEF Leading
  <1>2. ASSUME NEW p \in S, p \notin Leading(n, S, R), NEW q \in Leading(n, S, R) PROVE <<q, p>> \in R
    <2> SUFFICES ASSUME <<q, p>> \notin R PROVE FALSE
      OBVIOUS
    <2>1. q \in S /\ Cardinality(Ahead(S, R, q)) < n /\ ~(Cardinality(Ahead(S, R, p)) < n)
      BY <1>2 DEF Leading
    <2>2. <<p, q>> \in R
      BY <1>2, <2>1 DEF Sorts
    <2>3. /\ Cardinality(Ahead(S, R, p)) \in Nat /\ Cardinality(Ahead(S, R, q)) \in Int
          /\ Cardinality(Ahead(S, R, p)) < Cardinality(Ahead(S, R, q))
      <3>1. Cardinality(S) \in Nat
        BY FS_CardinalityType
      <3> QED
        BY <2>1, <2>2, <3>1, AheadGrows
    <2> QED
      BY <2>1, <2>3
  <1>3. Cardinality(Leading(n, S, R)) <= n
    <2>1. PICK L : L = Leading(n, S, R)
      OBVIOUS
    <2> DEFINE rank == [x \in L |-> Cardinality(Ahead(S, R, x))]
    <2>2. \A x \in S : Cardinality(Ahead(S, R, x)) \in Nat
      BY FS_Subset, FS_CardinalityType DEF Ahead
    <2>3. \A x \in L : x \in S /\ Cardinality(Ahead(S, R, x)) \in 0..n - 1
      BY <2>1, <2>2 DEF Leading
    <2>4. ASSUME NEW x \in L, NEW y \in L, x # y
          PROVE  Cardinality(Ahead(S, R, x)) # Cardinality(Ahead(S, R, y))
      <3>1. x \in S /\ y \in S /\ Cardinality(Ahead(S, R, x)) \in Nat /\ Cardinality(Ahead(S, R, y)) \in Nat
        BY <2>2, <2>3
      <3>2. CASE <<x, y>> \in R
        <4>1. Cardinality(Ahead(S, R, x)) < Cardinality(Ahead(S, R, y))
          BY <3>1, <3>2, AheadGrows
        <4> QED
          BY <3>1, <4>1
      <3>3. CASE <<y, x>> \in R
        <4>1. Cardinality(Ahead(S, R, y)) < Cardinality(Ahead(S, R, x))
          BY <3>1, <3>3, AheadGrows
        <4> QED
          BY <3>1, <4>1
      <3> QED
        BY <2>4, <3>1, <3>2, <3>3 DEF Sorts
    <2>5. rank \in Injection(L, 0..n - 1)
      <3>1. rank \in [L -> 0..n - 1]
        BY <2>3
      <3>2. \A x, y \in L : rank[x] = rank[y] => x = y
        BY <2>4
      <3> HIDE DEF rank
      <3> QED
        BY <3>1, <3>2 DEF Injection, IsInjective
    <2>6. IsFiniteSet(0..n - 1) /\ Cardinality(0..n - 1) = n
      BY FS_Interval
    <2>7. Cardinality(L) <= Cardinality(0..n - 1)
      <3> HIDE DEF rank
      <3> QED  BY <2>5, <2>6, FS_Injection
    <2> QED
      BY <2>1, <2>6, <2>7
  <1> QED
    BY <1>1, <1>2, <1>3

-----------------------------------------------------------------------------
(* Sums over a matrix of tests. *)

Matrices == [Labels -> [Labels -> Nat]]
Cell(m) == [y \in Labels \X Labels |-> m[y[1]][y[2]]]
OffDiagonal == {y \in Labels \X Labels : y[1] # y[2]}
Confused(m) == {y \in OffDiagonal : m[y[1]][y[2]] > 0}
PairAt(m, y) == [true |-> y[1], predicted |-> y[2], count |-> m[y[1]][y[2]]]
PairsAt(m, W) == {PairAt(m, y) : y \in W}
ClassAt(m, c) == [label |-> c, tests |-> Support(m, c), errors |-> Support(m, c) - m[c][c]]

LEMMA CellsAreNumbers ==
    ASSUME NEW m \in Matrices
    PROVE  /\ IsFiniteSet(Labels) /\ IsFiniteSet(Labels \X Labels)
           /\ \A S \in SUBSET (Labels \X Labels) : NumbersOver(Cell(m), S)
           /\ \A c \in Labels : \A S \in SUBSET Labels : NumbersOver(m[c], S)
  <1>1. IsFiniteSet(Labels)
    BY TestErrorsAssumption
  <1>2. IsFiniteSet(Labels \X Labels)
    BY <1>1, FS_Product
  <1>3. \A S \in SUBSET (Labels \X Labels) : IsFiniteSet(S)
    BY <1>2, FS_Subset
  <1>4. \A S \in SUBSET Labels : IsFiniteSet(S)
    BY <1>1, FS_Subset
  <1>5. \A y \in Labels \X Labels : Cell(m)[y] \in Nat
    BY DEF Cell, Matrices
  <1>6. \A c \in Labels : \A d \in Labels : m[c][d] \in Nat
    BY DEF Matrices
  <1> QED
    BY <1>1, <1>2, <1>3, <1>4, <1>5, <1>6 DEF NumbersOver

\* Sums over a row, and the errors of a class.
LEMMA RowSums ==
    ASSUME NEW m \in Matrices, NEW c \in Labels
    PROVE  /\ Support(m, c) = Part(m[c], Labels) /\ Support(m, c) \in Nat /\ m[c][c] \in Nat
           /\ Support(m, c) - m[c][c] = Part(m[c], Labels \ {c}) /\ Support(m, c) - m[c][c] \in Nat
           /\ \A d \in Labels \ {c} : m[c][d] <= Support(m, c) - m[c][c]
  <1>1. m[c] = [d \in Labels |-> m[c][d]]
    BY DEF Matrices
  <1>2. Support(m, c) = Part(m[c], Labels)
    BY <1>1 DEF Support, Part
  <1>3. NumbersOver(m[c], Labels) /\ NumbersOver(m[c], Labels \ {c})
    BY CellsAreNumbers
  <1>4. Part(m[c], Labels \ {c}) = Part(m[c], Labels) - m[c][c] /\ Part(m[c], Labels) \in Nat
    BY <1>3, PartOfPart
  <1>5. /\ Part(m[c], Labels \ {c}) \in Nat
        /\ \A d \in Labels \ {c} : m[c][d] <= Part(m[c], Labels \ {c})
    BY <1>3, PartOfPart
  <1>6. m[c][c] \in Nat
    BY DEF Matrices
  <1> QED
    BY <1>2, <1>4, <1>5, <1>6

\* Sums over a column.
LEMMA ColumnSums ==
    ASSUME NEW m \in Matrices, NEW d \in Labels
    PROVE  /\ Part(Cell(m), {y \in Confused(m) : y[2] = d}) = Predictions(m, d) - m[d][d]
           /\ Predictions(m, d) \in Nat
  <1>1. PICK column : column = [c \in Labels |-> m[c][d]]
    OBVIOUS
  <1>2. \A c \in Labels : column[c] \in Nat /\ column[c] = m[c][d]
    BY <1>1 DEF Matrices
  <1>3. NumbersOver(column, Labels)
    BY <1>2, CellsAreNumbers DEF NumbersOver
  <1>4. column = [c \in Labels |-> column[c]]
    BY <1>1
  <1>5. Predictions(m, d) = Part(column, Labels)
    BY <1>1, <1>4 DEF Predictions, Part
  <1>6. Part(column, Labels \ {d}) = Part(column, Labels) - column[d] /\ Part(column, Labels) \in Nat
    BY <1>3, PartOfPart
  <1>7. PICK U : U = {y \in OffDiagonal : y[2] = d}
    OBVIOUS
  <1>8. U \in SUBSET (Labels \X Labels) /\ NumbersOver(Cell(m), U)
    BY <1>7, CellsAreNumbers DEF OffDiagonal
  <1>9. Part(Cell(m), {y \in Confused(m) : y[2] = d}) = Part(Cell(m), U)
    <2>1. PICK s : s = {y \in Confused(m) : y[2] = d}
      OBVIOUS
    <2>2. s \in SUBSET U
      BY <1>7, <2>1 DEF Confused
    <2>3. \A y \in U \ s : Cell(m)[y] = 0
      BY <1>7, <2>1 DEF Confused, OffDiagonal, Cell, Matrices
    <2> QED
      BY <1>8, <2>1, <2>2, <2>3, PartOfPart
  <1>10. Part(Cell(m), U) = Part(column, Labels \ {d})
    <2>1. PICK h : h = [c \in Labels \ {d} |-> <<c, d>>]
      OBVIOUS
    <2>2. h \in Bijection(Labels \ {d}, U)
      <3>1. h \in [Labels \ {d} -> U]
        BY <1>7, <2>1 DEF OffDiagonal
      <3>2. \A a, b \in Labels \ {d} : h[a] = h[b] => a = b
        BY <2>1
      <3>3. \A y \in U : y[1] \in Labels \ {d} /\ h[y[1]] = y
        BY <1>7, <2>1 DEF OffDiagonal
      <3> QED
        BY <3>1, <3>2, <3>3 DEF Bijection, Injection, Surjection, IsInjective
    <2>3. PICK k : k = [x \in Labels \ {d} |-> Cell(m)[h[x]]]
      OBVIOUS
    <2>4. Part(k, Labels \ {d}) = Part(Cell(m), U)
      BY <1>8, <2>2, <2>3, PartRenamed
    <2>5. \A c \in Labels \ {d} : k[c] = column[c]
      BY <1>2, <2>1, <2>3 DEF Cell
    <2>6. Part(k, Labels \ {d}) = Part(column, Labels \ {d})
      BY <2>5, PartOfEqual
    <2> QED
      BY <2>4, <2>6
  <1> QED
    BY <1>2, <1>5, <1>6, <1>9, <1>10

\* All that was confused, row by row.
LEMMA ConfusedSum ==
    ASSUME NEW m \in Matrices
    PROVE  /\ Part(Cell(m), Confused(m)) = ImagesWrong(m) /\ ImagesWrong(m) \in Nat /\ Images(m) \in Nat
           /\ \A c \in Labels : Support(m, c) - m[c][c] <= ImagesWrong(m)
  <1>1. PICK wrong : wrong = [c \in Labels |-> Support(m, c) - m[c][c]]
    OBVIOUS
  <1>2. \A c \in Labels : wrong[c] \in Nat /\ wrong[c] = Support(m, c) - m[c][c]
    BY <1>1, RowSums
  <1>3. NumbersOver(wrong, Labels)
    BY <1>2, CellsAreNumbers DEF NumbersOver
  <1>4. wrong = [c \in Labels |-> wrong[c]]
    BY <1>1
  <1>5. ImagesWrong(m) = Part(wrong, Labels)
    BY <1>1, <1>4 DEF ImagesWrong, Part
  <1>6. ImagesWrong(m) \in Nat /\ \A c \in Labels : wrong[c] <= ImagesWrong(m)
    <2>1. Part(wrong, Labels) \in Nat /\ \A c \in Labels : wrong[c] <= Part(wrong, Labels)
      BY <1>3, PartOfPart
    <2> QED
      BY <1>5, <2>1
  <1>7. Images(m) \in Nat
    <2>1. PICK all : all = [c \in Labels |-> Support(m, c)]
      OBVIOUS
    <2>2. NumbersOver(all, Labels) /\ all = [c \in Labels |-> all[c]]
      BY <2>1, CellsAreNumbers, RowSums DEF NumbersOver
    <2>3. Images(m) = Part(all, Labels)
      BY <2>1, <2>2 DEF Images, Part
    <2> QED
      BY <2>2, <2>3, PartOfPart
  <1>8. OffDiagonal \in SUBSET (Labels \X Labels) /\ NumbersOver(Cell(m), OffDiagonal)
    BY CellsAreNumbers DEF OffDiagonal
  <1>9. Part(Cell(m), Confused(m)) = Part(Cell(m), OffDiagonal)
    <2>1. Confused(m) \in SUBSET OffDiagonal
      BY DEF Confused
    <2>2. \A y \in OffDiagonal \ Confused(m) : Cell(m)[y] = 0
      BY DEF Confused, OffDiagonal, Cell, Matrices
    <2> QED
      BY <1>8, <2>1, <2>2, PartOfPart
  <1>10. PICK h : h = [y \in OffDiagonal |-> y[1]]
    OBVIOUS
  <1>11. h \in [OffDiagonal -> Labels] /\ IsFiniteSet(Labels)
    BY <1>10, CellsAreNumbers DEF OffDiagonal
  <1>12. ASSUME NEW c \in Labels PROVE wrong[c] = Part(Cell(m), Alike(OffDiagonal, h, c))
    <2>1. PICK U : U = Alike(OffDiagonal, h, c)
      OBVIOUS
    <2>2. PICK k : k = [d \in Labels \ {c} |-> <<c, d>>]
      OBVIOUS
    <2>3. k \in Bijection(Labels \ {c}, U)
      <3>1. k \in [Labels \ {c} -> U]
        BY <1>10, <2>1, <2>2 DEF OffDiagonal, Alike
      <3>2. \A a, b \in Labels \ {c} : k[a] = k[b] => a = b
        BY <2>2
      <3>3. \A y \in U : y[2] \in Labels \ {c} /\ k[y[2]] = y
        BY <1>10, <2>1, <2>2 DEF OffDiagonal, Alike
      <3> QED
        BY <3>1, <3>2, <3>3 DEF Bijection, Injection, Surjection, IsInjective
    <2>4. NumbersOver(Cell(m), U)
      BY <2>1, CellsAreNumbers DEF OffDiagonal, Alike
    <2>5. PICK row : row = [d \in Labels \ {c} |-> Cell(m)[k[d]]]
      OBVIOUS
    <2>6. Part(row, Labels \ {c}) = Part(Cell(m), U)
      BY <2>3, <2>4, <2>5, PartRenamed
    <2>7. \A d \in Labels \ {c} : row[d] = m[c][d]
      BY <2>2, <2>5 DEF Cell
    <2>8. Part(row, Labels \ {c}) = Part(m[c], Labels \ {c})
      BY <2>7, PartOfEqual
    <2> QED
      BY <1>2, <2>1, <2>6, <2>8, RowSums
  <1>13. Part(Cell(m), OffDiagonal) = Part(wrong, Labels)
    BY <1>8, <1>11, <1>12, PartByClass
  <1> QED
    BY <1>2, <1>5, <1>6, <1>7, <1>9, <1>13

-----------------------------------------------------------------------------
(* The pairs and classes of a report. *)

LEMMA NamedInOrder ==
    ASSUME NEW m \in Matrices
    PROVE  /\ PairsOf(m, InOrder) = {PairAt(m, y) : y \in Confused(m)}
           /\ PairsOf(m, InOrder) = PairsAt(m, Confused(m))
           /\ ClassesOf(m, InOrder) = {ClassAt(m, c) : c \in Labels}
           /\ \A p \in PairsOf(m, InOrder) :
                 /\ p.true \in Labels /\ p.predicted \in Labels /\ p.true # p.predicted
                 /\ p.count = m[p.true][p.predicted] /\ p.count \in Nat \ {0}
           /\ \A p, q \in PairsOf(m, InOrder) : p.true = q.true /\ p.predicted = q.predicted => p = q
           /\ \A x \in ClassesOf(m, InOrder) : x.label \in Labels /\ x = ClassAt(m, x.label)
  <1>1. \A c \in Labels : InOrder[c] = c
    BY DEF InOrder
  <1>2. PairsOf(m, InOrder) = {PairAt(m, y) : y \in Confused(m)}
    <2>1. \A y \in Confused(m) : y[1] \in Labels /\ y[2] \in Labels
      BY DEF Confused, OffDiagonal
    <2>2. Confused(m) = {y \in Labels \X Labels : y[1] # y[2] /\ m[y[1]][y[2]] > 0}
      BY DEF Confused, OffDiagonal
    <2> QED
      BY <1>1, <2>1, <2>2 DEF PairsOf, PairAt
  <1>3. ClassesOf(m, InOrder) = {ClassAt(m, c) : c \in Labels}
    BY <1>1 DEF ClassesOf, ClassAt
  <1>4. ASSUME NEW p \in PairsOf(m, InOrder)
        PROVE  /\ p.true \in Labels /\ p.predicted \in Labels /\ p.true # p.predicted
               /\ p.count = m[p.true][p.predicted] /\ p.count \in Nat \ {0}
               /\ p = [true |-> p.true, predicted |-> p.predicted, count |-> m[p.true][p.predicted]]
    <2>1. PICK y \in Confused(m) : p = PairAt(m, y)
      BY <1>2
    <2>2. y[1] \in Labels /\ y[2] \in Labels /\ y[1] # y[2] /\ m[y[1]][y[2]] > 0 /\ m[y[1]][y[2]] \in Nat
      BY DEF Confused, OffDiagonal, Matrices
    <2>3. p.true = y[1] /\ p.predicted = y[2] /\ p.count = m[y[1]][y[2]]
      BY <2>1 DEF PairAt
    <2> QED
      BY <2>1, <2>2, <2>3 DEF PairAt
  <1>5. \A p, q \in PairsOf(m, InOrder) : p.true = q.true /\ p.predicted = q.predicted => p = q
    <2> SUFFICES ASSUME NEW p \in PairsOf(m, InOrder), NEW q \in PairsOf(m, InOrder),
                        p.true = q.true, p.predicted = q.predicted
                 PROVE  p = q
      OBVIOUS
    <2>1. /\ p = [true |-> p.true, predicted |-> p.predicted, count |-> m[p.true][p.predicted]]
          /\ q = [true |-> q.true, predicted |-> q.predicted, count |-> m[q.true][q.predicted]]
      BY <1>4
    <2> QED
      BY <2>1
  <1>6. \A x \in ClassesOf(m, InOrder) : x.label \in Labels /\ x = ClassAt(m, x.label)
    BY <1>3 DEF ClassAt
  <1> QED
    BY <1>2, <1>3, <1>4, <1>5, <1>6 DEF PairsAt

\* What pairs count.
LEMMA CountsOfPairs ==
    ASSUME NEW m \in Matrices, NEW W \in SUBSET Confused(m), NEW V, V = PairsAt(m, W),
           NEW count, \A p \in V : count[p] = p.count
    PROVE  IsFiniteSet(V) /\ NumbersOver(count, V) /\ Part(count, V) = Part(Cell(m), W)
  <1>1. W \in SUBSET (Labels \X Labels) /\ NumbersOver(Cell(m), W)
    BY CellsAreNumbers DEF Confused, OffDiagonal
  <1>2. PICK h : h = [y \in W |-> PairAt(m, y)]
    OBVIOUS
  <1>3. h \in [W -> V] /\ \A p \in V : \E y \in W : h[y] = p
    BY <1>2 DEF PairsAt
  <1>4. \A a, b \in W : h[a] = h[b] => a = b
    <2> SUFFICES ASSUME NEW a \in W, NEW b \in W, h[a] = h[b] PROVE a = b
      OBVIOUS
    <2>1. PairAt(m, a) = PairAt(m, b)
      BY <1>2
    <2>2. a[1] = b[1] /\ a[2] = b[2]
      BY <2>1 DEF PairAt
    <2> QED
      BY <1>1, <2>2
  <1>5. h \in Bijection(W, V) /\ h \in Surjection(W, V)
    BY <1>3, <1>4 DEF Bijection, Injection, Surjection, IsInjective
  <1>6. IsFiniteSet(V)
    BY <1>1, <1>5, FS_Surjection DEF NumbersOver
  <1>7. \A y \in W : count[h[y]] = Cell(m)[y] /\ Cell(m)[y] \in Nat
    <2> SUFFICES ASSUME NEW y \in W PROVE count[h[y]] = Cell(m)[y] /\ Cell(m)[y] \in Nat
      OBVIOUS
    <2>1. h[y] = PairAt(m, y) /\ h[y] \in V
      BY <1>2, <1>3
    <2>2. count[h[y]] = m[y[1]][y[2]]
      BY <2>1 DEF PairAt
    <2>3. Cell(m)[y] = m[y[1]][y[2]]
      BY <1>1 DEF Cell
    <2> QED
      BY <1>1, <2>2, <2>3 DEF NumbersOver
  <1>8. NumbersOver(count, V)
    BY <1>3, <1>6, <1>7 DEF NumbersOver
  <1>9. PICK g : g = [y \in W |-> count[h[y]]]
    OBVIOUS
  <1>10. Part(g, W) = Part(count, V)
    BY <1>5, <1>8, <1>9, PartRenamed
  <1>11. Part(g, W) = Part(Cell(m), W)
    BY <1>7, <1>9, PartOfEqual
  <1> QED
    BY <1>6, <1>8, <1>10, <1>11

LEMMA CountsTotal ==
    ASSUME NEW count, NEW K, \A p \in K : count[p] = p.count
    PROVE  Total([p \in K |-> p.count]) = Part(count, K)
  <1>1. [p \in K |-> p.count] = [p \in K |-> count[p]]
    OBVIOUS
  <1> QED
    BY <1>1 DEF Part

\* What the classes of a report add up to.
LEMMA ClassesTotal ==
    ASSUME NEW m \in Matrices, NEW V, V = {ClassAt(m, c) : c \in Labels}
    PROVE  /\ IsFiniteSet(V)
           /\ Total([x \in V |-> x.tests]) = Images(m)
           /\ Total([x \in V |-> x.errors]) = ImagesWrong(m)
  <1>1. PICK h : h = [c \in Labels |-> ClassAt(m, c)]
    OBVIOUS
  <1>2. h \in [Labels -> V] /\ (\A a, b \in Labels : h[a] = h[b] => a = b) /\ \A x \in V : \E c \in Labels : h[c] = x
    BY <1>1 DEF ClassAt
  <1>3. h \in Bijection(Labels, V) /\ h \in Surjection(Labels, V)
    BY <1>2 DEF Bijection, Injection, Surjection, IsInjective
  <1>4. IsFiniteSet(Labels) /\ IsFiniteSet(V)
    BY <1>3, CellsAreNumbers, FS_Surjection
  <1>5. \A c \in Labels : h[c].tests = Support(m, c) /\ h[c].errors = Support(m, c) - m[c][c]
    BY <1>1 DEF ClassAt
  <1>6. \A x \in V : x.tests \in Nat /\ x.errors \in Nat
    <2> SUFFICES ASSUME NEW x \in V PROVE x.tests \in Nat /\ x.errors \in Nat
      OBVIOUS
    <2>1. PICK c \in Labels : x = h[c]
      BY <1>2
    <2>2. Support(m, c) \in Nat /\ Support(m, c) - m[c][c] \in Nat
      BY RowSums
    <2> QED
      BY <1>5, <2>1, <2>2
  <1>7. Total([x \in V |-> x.tests]) = Images(m)
    <2>1. PICK f : f = [x \in V |-> x.tests]
      OBVIOUS
    <2>2. f = [x \in V |-> f[x]] /\ NumbersOver(f, V)
      BY <1>4, <1>6, <2>1 DEF NumbersOver
    <2>3. Total(f) = Part(f, V)
      BY <2>2 DEF Part
    <2>4. PICK g : g = [c \in Labels |-> f[h[c]]]
      OBVIOUS
    <2>5. Part(g, Labels) = Part(f, V)
      BY <1>3, <2>2, <2>4, PartRenamed
    <2>6. g = [c \in Labels |-> g[c]] /\ g = [c \in Labels |-> Support(m, c)]
      BY <1>2, <1>5, <2>1, <2>4
    <2>7. Part(g, Labels) = Total(g) /\ Images(m) = Total(g)
      BY <2>6 DEF Part, Images
    <2> QED
      BY <2>1, <2>3, <2>5, <2>7
  <1>8. Total([x \in V |-> x.errors]) = ImagesWrong(m)
    <2>1. PICK f : f = [x \in V |-> x.errors]
      OBVIOUS
    <2>2. f = [x \in V |-> f[x]] /\ NumbersOver(f, V)
      BY <1>4, <1>6, <2>1 DEF NumbersOver
    <2>3. Total(f) = Part(f, V)
      BY <2>2 DEF Part
    <2>4. PICK g : g = [c \in Labels |-> f[h[c]]]
      OBVIOUS
    <2>5. Part(g, Labels) = Part(f, V)
      BY <1>3, <2>2, <2>4, PartRenamed
    <2>6. g = [c \in Labels |-> g[c]] /\ g = [c \in Labels |-> Support(m, c) - m[c][c]]
      BY <1>2, <1>5, <2>1, <2>4
    <2>7. Part(g, Labels) = Total(g) /\ ImagesWrong(m) = Total(g)
      BY <2>6 DEF Part, ImagesWrong
    <2> QED
      BY <2>1, <2>3, <2>5, <2>7
  <1> QED
    BY <1>4, <1>7, <1>8

\* The first pairs, and the first classes.
FirstPairsOf(n, K) == First(n, K, PairBefore)
FirstClassesOf(n, K) == First(n, K, ClassBefore)

LEMMA FirstPairs ==
    ASSUME NEW m \in Matrices, NEW K \in SUBSET PairsOf(m, InOrder), NEW n \in Nat
    PROVE  /\ FirstPairsOf(n, K) \in SUBSET K
           /\ Cardinality(FirstPairsOf(n, K)) <= n
           /\ \A p \in K \ FirstPairsOf(n, K), q \in FirstPairsOf(n, K) : PairBefore(q, p)
  <1>1. PICK R : R = {z \in K \X K : PairBefore(z[1], z[2])}
    OBVIOUS
  <1>2. \A p, q \in K : <<p, q>> \in R <=> PairBefore(p, q)
    BY <1>1
  <1>3. IsFiniteSet(K)
    <2>1. PICK V : V = PairsOf(m, InOrder)
      OBVIOUS
    <2>2. PICK count : count = [p \in V |-> p.count]
      OBVIOUS
    <2>3. V = PairsAt(m, Confused(m)) /\ \A p \in V : count[p] = p.count
      BY <2>1, <2>2, NamedInOrder
    <2>4. IsFiniteSet(V)
      BY <2>3, CountsOfPairs
    <2> QED
      BY <2>1, <2>4, FS_Subset
  <1>4. Labels \subseteq Nat
    BY TestErrorsAssumption
  <1>5. \A p \in K : p.true \in Nat /\ p.predicted \in Nat /\ p.count \in Nat
    BY <1>4, NamedInOrder
  <1>6. \A p, q \in K : p.true = q.true /\ p.predicted = q.predicted => p = q
    BY NamedInOrder
  <1>7. Sorts(R, K)
    <2>1. \A x \in K : ~PairBefore(x, x)
      BY <1>5 DEF PairBefore
    <2>2. \A x, y, z \in K : PairBefore(x, y) /\ PairBefore(y, z) => PairBefore(x, z)
      BY <1>5 DEF PairBefore
    <2>3. \A x, y \in K : x # y => PairBefore(x, y) \/ PairBefore(y, x)
      BY <1>5, <1>6 DEF PairBefore
    <2> QED
      BY <1>2, <2>1, <2>2, <2>3 DEF Sorts
  <1>8. FirstPairsOf(n, K) = Leading(n, K, R)
    <2>1. \A x \in K : Ahead(K, R, x) = {y \in K : PairBefore(y, x)}
      BY <1>2 DEF Ahead
    <2> QED
      BY <2>1 DEF FirstPairsOf, First, Leading
  <1>9. PICK L : L = Leading(n, K, R)
    OBVIOUS
  <1>10. L \in SUBSET K /\ Cardinality(L) <= n /\ \A p \in K \ L, q \in L : <<q, p>> \in R
    BY <1>3, <1>7, <1>9, LeadingAreFirst
  <1>11. \A p \in K \ L, q \in L : PairBefore(q, p)
    BY <1>2, <1>10
  <1> QED
    BY <1>8, <1>9, <1>10, <1>11

LEMMA FirstClasses ==
    ASSUME NEW m \in Matrices, NEW K \in SUBSET ClassesOf(m, InOrder), NEW n \in Nat
    PROVE  /\ FirstClassesOf(n, K) \in SUBSET K
           /\ \A p \in K \ FirstClassesOf(n, K), q \in FirstClassesOf(n, K) : ClassBefore(q, p)
  <1>1. PICK R : R = {z \in K \X K : ClassBefore(z[1], z[2])}
    OBVIOUS
  <1>2. \A p, q \in K : <<p, q>> \in R <=> ClassBefore(p, q)
    BY <1>1
  <1>3. IsFiniteSet(K)
    <2>1. IsFiniteSet(ClassesOf(m, InOrder))
      BY NamedInOrder, ClassesTotal
    <2> QED
      BY <2>1, FS_Subset
  <1>4. Labels \subseteq Nat
    BY TestErrorsAssumption
  <1>5. \A x \in K : x.label \in Nat /\ x.errors \in Nat
    <2> SUFFICES ASSUME NEW x \in K PROVE x.label \in Nat /\ x.errors \in Nat
      OBVIOUS
    <2>1. x.label \in Labels /\ x = ClassAt(m, x.label)
      BY NamedInOrder
    <2>2. x.errors = Support(m, x.label) - m[x.label][x.label]
      BY <2>1 DEF ClassAt
    <2> QED
      BY <1>4, <2>1, <2>2, RowSums
  <1>6. \A x, y \in K : x.label = y.label => x = y
    BY NamedInOrder
  <1>7. Sorts(R, K)
    <2>1. \A x \in K : ~ClassBefore(x, x)
      BY <1>5 DEF ClassBefore
    <2>2. \A x, y, z \in K : ClassBefore(x, y) /\ ClassBefore(y, z) => ClassBefore(x, z)
      BY <1>5 DEF ClassBefore
    <2>3. \A x, y \in K : x # y => ClassBefore(x, y) \/ ClassBefore(y, x)
      BY <1>5, <1>6 DEF ClassBefore
    <2> QED
      BY <1>2, <2>1, <2>2, <2>3 DEF Sorts
  <1>8. FirstClassesOf(n, K) = Leading(n, K, R)
    <2>1. \A x \in K : Ahead(K, R, x) = {y \in K : ClassBefore(y, x)}
      BY <1>2 DEF Ahead
    <2> QED
      BY <2>1 DEF FirstClassesOf, First, Leading
  <1>9. PICK L : L = Leading(n, K, R)
    OBVIOUS
  <1>10. L \in SUBSET K /\ \A p \in K \ L, q \in L : <<q, p>> \in R
    BY <1>3, <1>7, <1>9, LeadingAreFirst
  <1>11. \A p \in K \ L, q \in L : ClassBefore(q, p)
    BY <1>2, <1>10
  <1> QED
    BY <1>8, <1>9, <1>10, <1>11

-----------------------------------------------------------------------------
(* What a report says of its test. *)

\* The pairs in a report count no more errors than there are, and all of them all.
LEMMA PairsCount ==
    ASSUME NEW m \in Matrices, NEW K \in SUBSET PairsOf(m, InOrder)
    PROVE  /\ IsFiniteSet(PairsOf(m, InOrder)) /\ IsFiniteSet(K)
           /\ Total([p \in K |-> p.count]) \in Nat
           /\ Total([p \in K |-> p.count]) <= ImagesWrong(m)
           /\ K = PairsOf(m, InOrder) => Total([p \in K |-> p.count]) = ImagesWrong(m)
  <1>1. PICK V : V = PairsOf(m, InOrder)
    OBVIOUS
  <1>2. PICK count : count = [p \in V |-> p.count]
    OBVIOUS
  <1>3. V = PairsAt(m, Confused(m)) /\ \A p \in V : count[p] = p.count
    BY <1>1, <1>2, NamedInOrder
  <1>4. IsFiniteSet(V) /\ NumbersOver(count, V) /\ Part(count, V) = Part(Cell(m), Confused(m))
    BY <1>3, CountsOfPairs
  <1>5. Part(count, V) = ImagesWrong(m)
    BY <1>4, ConfusedSum
  <1>6. K \in SUBSET V /\ \A p \in K : count[p] = p.count
    BY <1>1, <1>3
  <1>7. PICK sum : sum = Total([p \in K |-> p.count])
    OBVIOUS
  <1>8. sum = Part(count, K)
    BY <1>6, <1>7, CountsTotal
  <1>9. Part(count, K) <= Part(count, V) /\ Part(count, K) \in Nat
    BY <1>4, <1>6, PartOfPart
  <1>10. IsFiniteSet(K)
    BY <1>4, <1>6, FS_Subset
  <1> QED
    BY <1>1, <1>4, <1>5, <1>7, <1>8, <1>9, <1>10

LEMMA PairsCountErrors ==
    ASSUME NEW m \in Matrices, NEW p \in PairsOf(m, InOrder)
    PROVE  p.true # p.predicted /\ p.count \in 1 .. ImagesWrong(m)
  <1>1. /\ p.true \in Labels /\ p.predicted \in Labels /\ p.true # p.predicted
        /\ p.count = m[p.true][p.predicted] /\ p.count \in Nat \ {0}
    BY NamedInOrder
  <1>2. PICK c, d : c = p.true /\ d = p.predicted
    OBVIOUS
  <1>3. c \in Labels /\ d \in Labels \ {c} /\ p.count = m[c][d]
    BY <1>1, <1>2
  <1>4. m[c][d] <= Support(m, c) - m[c][c] /\ Support(m, c) - m[c][c] \in Nat
    BY <1>3, RowSums
  <1>5. Support(m, c) - m[c][c] <= ImagesWrong(m) /\ ImagesWrong(m) \in Nat
    BY <1>3, ConfusedSum
  <1>6. p.count <= ImagesWrong(m)
    <2>1. PICK s : s = Support(m, c) - m[c][c]
      OBVIOUS
    <2>2. \A a, b \in Nat : p.count \in Nat /\ p.count <= a /\ a <= b => p.count <= b
      OBVIOUS
    <2>3. s \in Nat /\ p.count <= s /\ s <= ImagesWrong(m)
      BY <1>3, <1>4, <1>5, <2>1
    <2> QED
      BY <1>1, <1>5, <2>2, <2>3
  <1> QED
    BY <1>1, <1>5, <1>6

MacroF1(m) == [c \in Labels |-> F1(m[c][c], Support(m, c), Predictions(m, c))]

\* The evidence of a report, field by field.
LEMMA EvidenceFields ==
    ASSUME NEW m
    PROVE  /\ Evidence(m).images = Images(m) /\ Evidence(m).errors = ImagesWrong(m)
           /\ Evidence(m).classes = ClassesOf(m, InOrder)
           /\ Evidence(m).pairs = FirstPairsOf(PairsKept, PairsOf(m, InOrder))
           /\ Evidence(m).pairTotal = Cardinality(PairsOf(m, InOrder))
           /\ Evidence(m).f1 \in {MacroF1(m), NotSaid}
  BY DEF Evidence, MacroF1, FirstPairsOf

\* The evidence that a trainer writes is taken.
LEMMA EvidenceValid ==
    ASSUME NEW m \in Matrices, NEW e, e = Evidence(m)
    PROVE  /\ Valid(e) /\ e.pairs \in SUBSET PairsOf(m, InOrder)
           /\ AllPairs(e) => e.pairs = PairsOf(m, InOrder)
  <1>1. PICK P : P = PairsOf(m, InOrder)
    OBVIOUS
  <1>2. PICK K : K = e.pairs
    OBVIOUS
  <1>3. PICK C : C = e.classes
    OBVIOUS
  <1>4. /\ e.images = Images(m) /\ e.errors = ImagesWrong(m) /\ C = ClassesOf(m, InOrder)
        /\ K = FirstPairsOf(PairsKept, P) /\ e.pairTotal = Cardinality(P)
    BY <1>1, <1>2, <1>3, EvidenceFields
  <1>5. K \in SUBSET P /\ Cardinality(K) <= PairsKept
    BY <1>1, <1>4, TestErrorsAssumption, FirstPairs
  <1>6. /\ IsFiniteSet(P) /\ IsFiniteSet(K) /\ Total([p \in K |-> p.count]) <= ImagesWrong(m)
        /\ K = P => Total([p \in K |-> p.count]) = ImagesWrong(m)
    BY <1>1, <1>5, PairsCount
  <1>7. Cardinality(K) <= Cardinality(P) /\ Cardinality(K) \in Nat /\ Cardinality(P) \in Nat
        /\ (Cardinality(P) = Cardinality(K) => K = P)
    BY <1>5, <1>6, FS_Subset, FS_CardinalityType
  <1>8. \A p \in K : p.true # p.predicted /\ p.count \in 1 .. ImagesWrong(m)
    BY <1>1, <1>5, PairsCountErrors
  <1>9. C = {ClassAt(m, c) : c \in Labels}
    BY <1>4, NamedInOrder
  <1>10. Total([x \in C |-> x.tests]) = Images(m) /\ Total([x \in C |-> x.errors]) = ImagesWrong(m)
    BY <1>9, ClassesTotal
  <1>11. AllPairs(e) => K = P
    BY <1>2, <1>4, <1>7 DEF AllPairs
  <1>12. /\ Cardinality(e.pairs) <= PairsKept /\ e.pairTotal >= Cardinality(e.pairs)
    BY <1>2, <1>4, <1>5, <1>7
  <1>13. Total([x \in e.classes |-> x.tests]) = e.images /\ Total([x \in e.classes |-> x.errors]) = e.errors
    BY <1>3, <1>4, <1>10
  <1>14. /\ Total([p \in e.pairs |-> p.count]) <= e.errors
         /\ AllPairs(e) => Total([p \in e.pairs |-> p.count]) = e.errors
    BY <1>2, <1>4, <1>6, <1>11
  <1>15. \A p \in e.pairs : p.true # p.predicted /\ p.count \in 1 .. e.errors
    BY <1>2, <1>4, <1>8
  <1>16. Valid(e)
    BY <1>12, <1>13, <1>14, <1>15 DEF Valid
  <1> QED
    BY <1>1, <1>2, <1>5, <1>11, <1>16

\* What a class is predicted for: rightly, and for the pairs that name it.
LEMMA PredictedSum ==
    ASSUME NEW m \in Matrices, NEW c \in Labels, NEW K, K = {q \in PairsOf(m, InOrder) : q.predicted = c}
    PROVE  m[c][c] + Total([p \in K |-> p.count]) = Predictions(m, c)
  <1>1. PICK W : W = {y \in Confused(m) : y[2] = c}
    OBVIOUS
  <1>2. PICK V : V = PairsAt(m, W)
    OBVIOUS
  <1>3. W \in SUBSET Confused(m)
    BY <1>1
  <1>4. K = V
    <2>1. \A y \in Confused(m) : PairAt(m, y).predicted = y[2]
      BY DEF PairAt
    <2>2. PairsOf(m, InOrder) = {PairAt(m, y) : y \in Confused(m)}
      BY NamedInOrder
    <2> QED
      BY <1>1, <1>2, <2>1, <2>2 DEF PairsAt
  <1>5. PICK count : count = [p \in V |-> p.count]
    OBVIOUS
  <1>6. \A p \in V : count[p] = p.count
    BY <1>5
  <1>7. Part(count, V) = Part(Cell(m), W)
    BY <1>2, <1>3, <1>6, CountsOfPairs
  <1>8. PICK sum : sum = Total([p \in K |-> p.count])
    OBVIOUS
  <1>9. sum = Part(count, V)
    BY <1>4, <1>6, <1>8, CountsTotal
  <1>10. Part(Cell(m), W) = Predictions(m, c) - m[c][c] /\ Predictions(m, c) \in Nat
    BY <1>1, ColumnSums
  <1>11. m[c][c] \in Nat
    BY DEF Matrices
  <1> QED
    BY <1>7, <1>8, <1>9, <1>10, <1>11

\* Macro-F1 that is made up for is right.
LEMMA RecomputedTrue ==
    ASSUME NEW m \in Matrices, NEW e, e = Evidence(m), Recomputed(e) # NotSaid
    PROVE  [c \in Labels |-> Recomputed(e)[CHOOSE x \in e.classes : x.label = c]] = MacroF1(m)
  <1>1. PICK C : C = e.classes
    OBVIOUS
  <1>2. C = ClassesOf(m, InOrder) /\ C = {ClassAt(m, c) : c \in Labels}
    BY <1>1, EvidenceFields, NamedInOrder
  <1>3. e.pairs = PairsOf(m, InOrder)
    BY EvidenceValid DEF Recomputed
  <1>4. ASSUME NEW c \in Labels
        PROVE  Recomputed(e)[CHOOSE x \in C : x.label = c] = F1(m[c][c], Support(m, c), Predictions(m, c))
    <2>1. PICK x : x = CHOOSE z \in C : z.label = c
      OBVIOUS
    <2>2. ClassAt(m, c) \in C /\ ClassAt(m, c).label = c
      BY <1>2 DEF ClassAt
    <2>3. x \in C /\ x.label = c
      BY <2>1, <2>2
    <2>4. x = ClassAt(m, c)
      BY <1>2, <2>3, NamedInOrder
    <2>5. x.tests = Support(m, c) /\ x.errors = Support(m, c) - m[c][c]
      BY <2>4 DEF ClassAt
    <2>6. x.tests - x.errors = m[c][c]
      <3>1. PICK s, right : s = Support(m, c) /\ right = m[c][c]
        OBVIOUS
      <3>2. s \in Nat /\ right \in Nat
        BY <3>1, RowSums
      <3>3. s - (s - right) = right
        BY <3>2
      <3>4. x.tests = s /\ x.errors = s - right
        BY <2>5, <3>1
      <3> QED
        BY <3>1, <3>3, <3>4
    <2>7. PICK K : K = {q \in e.pairs : q.predicted = x.label}
      OBVIOUS
    <2>8. m[c][c] + Total([p \in K |-> p.count]) = Predictions(m, c)
      BY <1>3, <2>3, <2>7, PredictedSum
    <2>9. Recomputed(e)[x] = F1(x.tests - x.errors, x.tests, (x.tests - x.errors) + Total([p \in K |-> p.count]))
      BY <1>1, <2>3, <2>7 DEF Recomputed
    <2>10. Recomputed(e)[x] = F1(m[c][c], Support(m, c), Predictions(m, c))
      BY <2>5, <2>6, <2>8, <2>9
    <2> QED
      BY <2>1, <2>10
  <1> QED
    BY <1>1, <1>4 DEF MacroF1

AgainF1(r) == [l \in Labels |-> Recomputed(r)[CHOOSE z \in r.classes : z.label = l]]

\* Making up for macro-F1 leaves the rest of a report.
LEMMA WithF1Fields ==
    ASSUME NEW r, NEW i, NEW x, NEW c, NEW p, NEW t, NEW f,
           r = [images |-> i, errors |-> x, classes |-> c, pairs |-> p, pairTotal |-> t, f1 |-> f]
    PROVE  /\ WithF1(r).images = i /\ WithF1(r).errors = x /\ WithF1(r).classes = c /\ WithF1(r).pairs = p
           /\ Recomputed(r) = NotSaid => WithF1(r).f1 = f
           /\ Recomputed(r) # NotSaid => WithF1(r).f1 = AgainF1(r)
  <1>1. CASE Recomputed(r) = NotSaid
    BY <1>1 DEF WithF1
  <1>2. CASE Recomputed(r) # NotSaid
    <2>1. PICK again : again = AgainF1(r)
      OBVIOUS
    <2>2. WithF1(r) = [r EXCEPT !.f1 = again]
      BY <1>2, <2>1 DEF WithF1, AgainF1
    <2>3. WithF1(r) = [images |-> i, errors |-> x, classes |-> c, pairs |-> p, pairTotal |-> t, f1 |-> again]
      BY <2>2
    <2> QED
      BY <1>2, <2>1, <2>3
  <1> QED
    BY <1>1, <1>2

\* What is left of a set of pairs, or of classes, when lesser ones are left out.
GreaterPairs(m, K) ==
    K \in SUBSET PairsOf(m, InOrder) /\ \A p \in PairsOf(m, InOrder) \ K, q \in K : PairBefore(q, p)
GreaterClasses(m, K) ==
    K \in SUBSET ClassesOf(m, InOrder) /\ \A x \in ClassesOf(m, InOrder) \ K, y \in K : ClassBefore(y, x)

LEMMA FirstOfGreater ==
    ASSUME NEW m \in Matrices, NEW n \in Nat, NEW K
    PROVE  /\ GreaterPairs(m, K) => GreaterPairs(m, FirstPairsOf(n, K))
           /\ GreaterClasses(m, K) => GreaterClasses(m, FirstClassesOf(n, K))
           /\ GreaterPairs(m, {}) /\ GreaterPairs(m, PairsOf(m, InOrder))
           /\ GreaterClasses(m, {}) /\ GreaterClasses(m, ClassesOf(m, InOrder))
  <1>1. ASSUME GreaterPairs(m, K) PROVE GreaterPairs(m, FirstPairsOf(n, K))
    <2>1. PICK A : A = FirstPairsOf(n, K)
      OBVIOUS
    <2>2. A \in SUBSET K /\ \A p \in K \ A, q \in A : PairBefore(q, p)
      BY <1>1, <2>1, FirstPairs DEF GreaterPairs
    <2> QED
      BY <1>1, <2>1, <2>2 DEF GreaterPairs
  <1>2. ASSUME GreaterClasses(m, K) PROVE GreaterClasses(m, FirstClassesOf(n, K))
    <2>1. PICK A : A = FirstClassesOf(n, K)
      OBVIOUS
    <2>2. A \in SUBSET K /\ \A p \in K \ A, q \in A : ClassBefore(q, p)
      BY <1>2, <2>1, FirstClasses DEF GreaterClasses
    <2> QED
      BY <1>2, <2>1, <2>2 DEF GreaterClasses
  <1>3. GreaterPairs(m, {}) /\ GreaterPairs(m, PairsOf(m, InOrder))
    BY DEF GreaterPairs
  <1>4. GreaterClasses(m, {}) /\ GreaterClasses(m, ClassesOf(m, InOrder))
    BY DEF GreaterClasses
  <1> QED
    BY <1>1, <1>2, <1>3, <1>4

\* The counts are those of the test, and macro-F1 is if it is said.
CountsHonest(m, e) ==
    e.images = Images(m) /\ e.errors = ImagesWrong(m) /\ e.f1 \in {NotSaid, MacroF1(m)}

LEMMA EvidenceHonest ==
    ASSUME NEW m \in Matrices, NEW e, e = WithF1(Evidence(m))
    PROVE  CountsHonest(m, e) /\ GreaterPairs(m, e.pairs) /\ GreaterClasses(m, e.classes)
  <1>1. PICK r : r = Evidence(m)
    OBVIOUS
  <1>2. PICK t : t = Cardinality(PairsOf(m, InOrder))
    OBVIOUS
  <1>3. PICK f : f = r.f1
    OBVIOUS
  <1>4. PICK K : K = FirstPairsOf(PairsKept, PairsOf(m, InOrder))
    OBVIOUS
  <1>5. r = [images |-> Images(m), errors |-> ImagesWrong(m), classes |-> ClassesOf(m, InOrder),
             pairs |-> K, pairTotal |-> t, f1 |-> f]
    BY <1>1, <1>2, <1>3, <1>4 DEF Evidence, FirstPairsOf
  <1>6. f \in {NotSaid, MacroF1(m)}
    BY <1>1, <1>3, EvidenceFields
  <1>7. Recomputed(r) # NotSaid => AgainF1(r) = MacroF1(m)
    BY <1>1, RecomputedTrue DEF AgainF1
  <1>8. /\ e.images = Images(m) /\ e.errors = ImagesWrong(m)
        /\ e.classes = ClassesOf(m, InOrder) /\ e.pairs = K
        /\ Recomputed(r) = NotSaid => e.f1 = f
        /\ Recomputed(r) # NotSaid => e.f1 = AgainF1(r)
    BY <1>1, <1>5, WithF1Fields
  <1>9. e.f1 \in {NotSaid, MacroF1(m)}
    BY <1>6, <1>7, <1>8
  <1>10. GreaterPairs(m, K)
    BY <1>4, FirstOfGreater, TestErrorsAssumption
  <1>11. GreaterClasses(m, ClassesOf(m, InOrder))
    BY FirstOfGreater, TestErrorsAssumption
  <1> QED
    BY <1>8, <1>9, <1>10, <1>11 DEF CountsHonest

LEMMA MatrixHonest ==
    ASSUME NEW m \in Matrices, NEW e, e = WithF1(FromMatrix(m)), e.images # 0
    PROVE  /\ CountsHonest(m, e)
           /\ OrderKnown(m) /\ bundle = InOrder => GreaterPairs(m, e.pairs) /\ GreaterClasses(m, e.classes)
           /\ ~OrderKnown(m) => GreaterPairs(m, e.pairs) /\ GreaterClasses(m, e.classes)
  <1>1. PICK r : r = FromMatrix(m)
    OBVIOUS
  <1>2. PICK t : t = r.pairTotal
    OBVIOUS
  <1>3. PICK f : f = r.f1
    OBVIOUS
  <1>4. PICK C : C = IF OrderKnown(m) THEN ClassesOf(m, bundle) ELSE {}
    OBVIOUS
  <1>5. PICK K : K = IF OrderKnown(m) THEN PairsOf(m, bundle) ELSE {}
    OBVIOUS
  <1>6. r = [images |-> Images(m), errors |-> ImagesWrong(m), classes |-> C, pairs |-> K, pairTotal |-> t, f1 |-> f]
    BY <1>1, <1>2, <1>3, <1>4, <1>5 DEF FromMatrix
  <1>7. /\ e.images = Images(m) /\ e.errors = ImagesWrong(m) /\ e.classes = C /\ e.pairs = K
        /\ Recomputed(r) = NotSaid => e.f1 = f
    <2>1. /\ WithF1(r).images = Images(m) /\ WithF1(r).errors = ImagesWrong(m)
          /\ WithF1(r).classes = C /\ WithF1(r).pairs = K
          /\ Recomputed(r) = NotSaid => WithF1(r).f1 = f
      BY <1>6, WithF1Fields
    <2> QED
      BY <1>1, <2>1
  <1>8. Images(m) \in Nat /\ Images(m) > 0
    BY <1>7, ConfusedSum
  <1>9. f = MacroF1(m)
    BY <1>1, <1>3, <1>8 DEF FromMatrix, MacroF1
  <1>10. Labels # {}
    <2>1. PICK all : all = [c \in Labels |-> Support(m, c)]
      OBVIOUS
    <2>2. DOMAIN all = Labels /\ Images(m) = Total(all)
      BY <2>1 DEF Images
    <2> QED
      BY <1>8, <2>2, TotalOfNothing
  <1>11. MacroF1(m) # NotSaid
    <2>1. DOMAIN MacroF1(m) = Labels
      BY DEF MacroF1
    <2>2. DOMAIN NotSaid = {}
      BY DEF NotSaid
    <2> QED
      BY <1>10, <2>1, <2>2
  <1>12. Recomputed(r) = NotSaid
    BY <1>6, <1>9, <1>11 DEF Recomputed
  <1>13. CountsHonest(m, e)
    BY <1>7, <1>9, <1>12 DEF CountsHonest
  <1>14. GreaterPairs(m, {}) /\ GreaterPairs(m, PairsOf(m, InOrder))
         /\ GreaterClasses(m, {}) /\ GreaterClasses(m, ClassesOf(m, InOrder))
    BY FirstOfGreater, TestErrorsAssumption
  <1>15. ASSUME OrderKnown(m), bundle = InOrder PROVE GreaterPairs(m, e.pairs) /\ GreaterClasses(m, e.classes)
    BY <1>4, <1>5, <1>7, <1>14, <1>15
  <1>16. ASSUME ~OrderKnown(m) PROVE GreaterPairs(m, e.pairs) /\ GreaterClasses(m, e.classes)
    BY <1>4, <1>5, <1>7, <1>14, <1>16
  <1> QED
    BY <1>13, <1>15, <1>16

Shows(a) == a.availability \in {"available", "aggregate only"}

\* What is made of a report.
Understood(report) ==
    WithF1(IF report.format \in {"evidence", "evidence without F1"} THEN report.evidence ELSE FromMatrix(report.matrix))

LEMMA AnswerFields ==
    ASSUME NEW a, NEW v, NEW i, NEW x, NEW f, NEW K, NEW C,
           a = [availability |-> v, images |-> i, errors |-> x, f1 |-> f, pairs |-> K, classes |-> C]
    PROVE  a.images = i /\ a.errors = x /\ a.f1 = f /\ a.pairs = K /\ a.classes = C
  OBVIOUS

\* An answer that shows something: it shows the first of what was found.
LEMMA AnswerShows ==
    ASSUME NEW report, NEW n,
           NEW a, a = Analyze(report, n), Shows(a),
           NEW e, e = Understood(report)
    PROVE  /\ e.images # 0 /\ report.format # "matrix"
           /\ a.images = e.images /\ a.errors = e.errors /\ a.f1 = e.f1
           /\ a.pairs = FirstPairsOf(n, e.pairs) /\ a.classes = FirstClassesOf(ClassesShown, e.classes)
  <1>1. ~Shows(Unavailable) /\ ~Shows(Failed)
    BY DEF Unavailable, Failed, Shows
  <1>2. a # Unavailable /\ a # Failed
    BY <1>1
  <1>3. e.images # 0 /\ report.format # "matrix"
    BY <1>2 DEF Analyze, Understood
  <1>4. a = [availability |-> IF report.format = "test matrix" THEN "aggregate only" ELSE "available",
             images |-> e.images, errors |-> e.errors, f1 |-> e.f1,
             pairs |-> FirstPairsOf(n, e.pairs), classes |-> FirstClassesOf(ClassesShown, e.classes)]
    BY <1>2, <1>3 DEF Analyze, Understood, FirstPairsOf, FirstClassesOf
  <1>5. PICK shown, K, C : /\ shown = IF report.format = "test matrix" THEN "aggregate only" ELSE "available"
                           /\ K = FirstPairsOf(n, e.pairs) /\ C = FirstClassesOf(ClassesShown, e.classes)
    OBVIOUS
  <1>6. a = [availability |-> shown, images |-> e.images, errors |-> e.errors, f1 |-> e.f1, pairs |-> K, classes |-> C]
    BY <1>4, <1>5
  <1>7. a.images = e.images /\ a.errors = e.errors /\ a.f1 = e.f1 /\ a.pairs = K /\ a.classes = C
    BY <1>6, AnswerFields
  <1> QED
    BY <1>3, <1>5, <1>7

\* The evidence of a trainer of some version.
EvidenceBy(version, m) ==
    [images |-> Images(m), errors |-> ImagesWrong(m), classes |-> ClassesOf(m, InOrder),
     pairs |-> First(PairsKept, PairsOf(m, InOrder), PairBefore), pairTotal |-> Cardinality(PairsOf(m, InOrder)),
     f1 |-> IF version = "evidence" /\ Images(m) > 0
            THEN [c \in Labels |-> F1(m[c][c], Support(m, c), Predictions(m, c))] ELSE NotSaid]

\* The report is the one that was written of the test.
ReportWritten ==
    /\ tested \in Tested /\ format \in ReportFormats
    /\ training # NoReport =>
         training = [format |-> format, evidence |-> EvidenceBy(format, tested), matrix |-> tested]

\* What an answer says of a test, and which pairs and classes it names.
Says(m, a) ==
    Shows(a) =>
        a.images = Images(m) /\ a.errors = ImagesWrong(m) /\ (a.f1 # NotSaid => a.f1 = MacroF1(m))
Names(m, a) ==
    Shows(a) => GreaterPairs(m, a.pairs) /\ GreaterClasses(m, a.classes)

LEMMA WrittenFields ==
    ASSUME ReportWritten, training # NoReport
    PROVE  /\ training.format = format /\ training.evidence = EvidenceBy(format, tested)
           /\ training.matrix = tested /\ format \in ReportFormats
           /\ EvidenceBy(format, tested) = Evidence(tested)
  <1>1. PICK e : e = EvidenceBy(format, tested)
    OBVIOUS
  <1>2. training = [format |-> format, evidence |-> e, matrix |-> tested] /\ format \in ReportFormats
    BY <1>1 DEF ReportWritten
  <1>3. training.format = format /\ training.evidence = e /\ training.matrix = tested
    BY <1>2
  <1>4. EvidenceBy(format, tested) = Evidence(tested)
    BY DEF EvidenceBy, Evidence
  <1> QED
    BY <1>1, <1>2, <1>3, <1>4

LEMMA AnswerHonest ==
    ASSUME ReportWritten, training # NoReport, NEW n \in Nat, NEW a, a = Analyze(training, n)
    PROVE  Says(tested, a) /\ (~Exchanged => Names(tested, a))
  <1> SUFFICES ASSUME Shows(a)
               PROVE  Says(tested, a) /\ (~Exchanged => Names(tested, a))
    BY DEF Says, Names
  <1>1. /\ training.format = format /\ training.evidence = EvidenceBy(format, tested)
        /\ training.matrix = tested /\ format \in ReportFormats
    BY WrittenFields
  <1>2. tested \in Matrices
    BY TestErrorsAssumption DEF ReportWritten, Matrices
  <1>3. EvidenceBy(format, tested) = Evidence(tested)
    BY WrittenFields
  <1>4. PICK e : e = Understood(training)
    OBVIOUS
  <1>5. /\ e.images # 0 /\ a.images = e.images /\ a.errors = e.errors /\ a.f1 = e.f1
        /\ a.pairs = FirstPairsOf(n, e.pairs) /\ a.classes = FirstClassesOf(ClassesShown, e.classes)
    BY <1>1, <1>4, AnswerShows
  <1>6. ASSUME ~Exchanged, OrderKnown(tested) PROVE bundle = InOrder
    BY <1>6 DEF Exchanged, OrderKnown
  <1>7. CountsHonest(tested, e) /\ (~Exchanged => GreaterPairs(tested, e.pairs) /\ GreaterClasses(tested, e.classes))
    <2>1. CASE format \in {"evidence", "evidence without F1"}
      <3>1. e = WithF1(Evidence(tested))
        BY <1>1, <1>3, <1>4, <2>1 DEF Understood
      <3> QED
        BY <1>2, <3>1, EvidenceHonest
    <2>2. CASE format \notin {"evidence", "evidence without F1"}
      <3>1. e = WithF1(FromMatrix(tested))
        BY <1>1, <1>4, <2>2 DEF Understood
      <3> QED
        BY <1>2, <1>5, <1>6, <3>1, MatrixHonest
    <2> QED
      BY <2>1, <2>2
  <1>8. Says(tested, a)
    BY <1>5, <1>7 DEF Says, CountsHonest
  <1>9. ASSUME ~Exchanged PROVE Names(tested, a)
    <2>1. ClassesShown \in Nat
      BY TestErrorsAssumption
    <2>2. GreaterPairs(tested, FirstPairsOf(n, e.pairs))
      BY <1>2, <1>7, <1>9, FirstOfGreater
    <2>3. GreaterClasses(tested, FirstClassesOf(ClassesShown, e.classes))
      BY <1>2, <1>7, <1>9, <2>1, FirstOfGreater
    <2> QED
      BY <1>5, <2>2, <2>3 DEF Names
  <1> QED
    BY <1>8, <1>9

-----------------------------------------------------------------------------
(* The invariant of a test. *)

TestErrorsInv ==
    ReportWritten /\ Says(tested, answer) /\ (~Exchanged => Names(tested, answer))

LEMMA HonestAnswers == ASSUME TestErrorsInv PROVE ReportsHonest
  <1>1. ASSUME training # NoReport, format \in {"evidence", "evidence without F1"} PROVE Valid(training.evidence)
    <2>1. tested \in Matrices
      BY TestErrorsAssumption DEF TestErrorsInv, ReportWritten, Matrices
    <2>2. training.evidence = Evidence(tested)
      BY <1>1, WrittenFields DEF TestErrorsInv
    <2> QED
      BY <2>1, <2>2, EvidenceValid
  <1>2. ASSUME Shows(answer)
        PROVE  /\ answer.images = Images(tested) /\ answer.errors = ImagesWrong(tested)
               /\ answer.f1 # NotSaid => answer.f1 = MacroF1(tested)
               /\ ~Exchanged => GreaterPairs(tested, answer.pairs) /\ GreaterClasses(tested, answer.classes)
    BY <1>2 DEF TestErrorsInv, Says, Names
  <1> QED
    BY <1>1, <1>2 DEF ReportsHonest, Shows, GreaterPairs, GreaterClasses, MacroF1

LEMMA TestErrorsInitInv == TestErrorsInit => TestErrorsInv
  <1> SUFFICES ASSUME TestErrorsInit PROVE TestErrorsInv
    OBVIOUS
  <1>1. ~Shows(answer)
    BY DEF TestErrorsInit, Shows
  <1>2. ReportWritten
    BY DEF TestErrorsInit, ReportWritten
  <1> QED
    BY <1>1, <1>2 DEF TestErrorsInv, Says, Names

LEMMA TestErrorsKeeps ==
    ASSUME TestErrorsInv, TestErrorsStep \/ UNCHANGED testVars
    PROVE  TestErrorsInv'
  <1>1. ASSUME UNCHANGED <<tested, format, training, bundle>>,
               Says(tested, answer') /\ (~Exchanged => Names(tested, answer'))
        PROVE  TestErrorsInv'
    <2>1. ReportWritten'
      BY <1>1 DEF TestErrorsInv, ReportWritten
    <2>2. Exchanged' <=> Exchanged
      BY <1>1 DEF Exchanged
    <2>3. Says(tested, answer)' /\ (Names(tested, answer)' <=> Names(tested, answer'))
      BY <1>1
    <2> QED
      BY <1>1, <2>1, <2>2, <2>3 DEF TestErrorsInv
  <1>2. ASSUME WriteReport PROVE TestErrorsInv'
    <2>1. UNCHANGED <<tested, format, bundle, answer>>
      BY <1>2 DEF WriteReport
    <2>2. ReportWritten'
      <3>1. training' = [format |-> format, evidence |-> EvidenceBy(format, tested), matrix |-> tested]
        BY <1>2 DEF WriteReport, Evidence, EvidenceBy
      <3> QED
        BY <2>1, <3>1 DEF TestErrorsInv, ReportWritten
    <2>3. Exchanged' <=> Exchanged
      BY <2>1 DEF Exchanged
    <2>4. (Says(tested, answer)' <=> Says(tested, answer)) /\ (Names(tested, answer)' <=> Names(tested, answer))
      BY <2>1
    <2> QED
      BY <2>2, <2>3, <2>4 DEF TestErrorsInv
  <1>3. ASSUME ~Shows(answer')
        PROVE  Says(tested, answer') /\ Names(tested, answer')
    BY <1>3 DEF Says, Names
  <1>4. ASSUME NEW n \in PairsAsked, AskTestErrors(n) PROVE TestErrorsInv'
    <2>1. UNCHANGED <<tested, format, training, bundle>>
      BY <1>4 DEF AskTestErrors
    <2>2. CASE training = NoReport
      <3>1. ~Shows(answer')
        BY <1>4, <2>2 DEF AskTestErrors, Unavailable, Shows
      <3> QED
        BY <1>1, <1>3, <2>1, <3>1
    <2>3. CASE training # NoReport
      <3>1. answer' = Analyze(training, n)
        BY <1>4, <2>3 DEF AskTestErrors
      <3>2. n \in Nat /\ ReportWritten
        BY TestErrorsAssumption DEF TestErrorsInv
      <3>3. Says(tested, answer') /\ (~Exchanged => Names(tested, answer'))
        BY <2>3, <3>1, <3>2, AnswerHonest
      <3> QED
        BY <1>1, <2>1, <3>3
    <2> QED
      BY <2>2, <2>3
  <1>5. ASSUME ReportUnreadable PROVE TestErrorsInv'
    <2>1. UNCHANGED <<tested, format, training, bundle>> /\ answer' = Failed
      BY <1>5 DEF ReportUnreadable
    <2>2. ~Shows(answer')
      BY <2>1 DEF Failed, Shows
    <2> QED
      BY <1>1, <1>3, <2>1, <2>2
  <1>6. ASSUME UNCHANGED testVars PROVE TestErrorsInv'
    BY <1>1, <1>6 DEF testVars, TestErrorsInv
  <1> QED
    BY <1>2, <1>4, <1>5, <1>6 DEF TestErrorsStep

\* Only in the scene "reporting" is there a test.
ErrorsInv ==
    IF modelScene = "reporting" THEN TestErrorsInv
    ELSE training = NoReport /\ answer = [availability |-> "none"]

LEMMA ErrorsInitInv == ServingInit => ErrorsInv
  BY TestErrorsInitInv DEF ServingInit, NoTest, ErrorsInv

LEMMA ErrorsKeeps == ErrorsInv /\ [ServingNext]_servingVars => ErrorsInv'
  <1> SUFFICES ASSUME ErrorsInv, [ServingNext]_servingVars PROVE ErrorsInv'
    OBVIOUS
  <1>1. UNCHANGED modelScene
    BY DEF ServingNext, servingVars
  <1>2. CASE modelScene = "reporting"
    <2>1. TestErrorsStep \/ UNCHANGED testVars
      BY <1>2 DEF ServingNext, servingVars
    <2> QED
      BY <1>1, <1>2, <2>1, TestErrorsKeeps DEF ErrorsInv
  <1>3. CASE modelScene # "reporting"
    <2>1. UNCHANGED testVars
      BY <1>3 DEF ServingNext, servingVars
    <2> QED
      BY <1>1, <1>3, <2>1 DEF ErrorsInv, testVars
  <1> QED
    BY <1>2, <1>3

\* What is said of a model's errors is true of its test: a trainer's evidence is always taken,
\* counts and macro-F1 are those of the test, also where macro-F1 is made up for from the pairs,
\* and pairs and classes are named rightly, with none left out for a lesser one, unless classes
\* that were exchanged in the bundle have as many test images (Analyze, validate).
THEOREM ReportsAreHonest == ServingSpec => []ReportsHonest
  <1>1. ErrorsInv => ReportsHonest
    <2> SUFFICES ASSUME ErrorsInv PROVE ReportsHonest
      OBVIOUS
    <2>1. CASE modelScene = "reporting"
      BY <2>1, HonestAnswers DEF ErrorsInv
    <2>2. CASE modelScene # "reporting"
      <3>1. training = NoReport /\ answer.availability = "none"
        BY <2>2 DEF ErrorsInv
      <3>2. answer.availability \notin {"available", "aggregate only"}
        BY <3>1
      <3> QED
        BY <3>1, <3>2 DEF ReportsHonest
    <2> QED
      BY <2>1, <2>2
  <1> QED
    BY <1>1, ErrorsInitInv, ErrorsKeeps, PTL DEF ServingSpec
=============================================================================
