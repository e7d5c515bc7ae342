-------------------------- MODULE OutboxRelay_proofs --------------------------
(***************************************************************************)
(* What the relays promise, for any number of events, relays and faults,   *)
(* any lock, backoff and age of clock readings.                            *)
(*                                                                         *)
(* The argument: a lock is counted from the clock reading of its batch, so *)
(* the time that is left of it and the age of the batch always make up at  *)
(* least LockTTL; and a relay holds a confirmation only of what the broker *)
(* has stored or returned.                                                 *)
(***************************************************************************)
EXTENDS OutboxRelay, FiniteSetTheorems, TLAPS

\* Whatever is in a batch was recorded, and what is being marked is in it.
BatchesRecorded ==
    \A r \in Relays :
        /\ relay[r].current \in relay[r].batch \cup {NoEvent}
        /\ \A e \in relay[r].batch : row[e].status # "absent"

\* Until its batch is LockTTL old a relay holds the locks that it took.
LocksHeld ==
    \A r \in Relays : \A e \in relay[r].batch :
        relay[r].age < LockTTL /\ row[e].status \in {"pending", "published"} =>
            /\ row[e].status = "pending" /\ row[e].owner = r
            /\ row[e].lockLeft + relay[r].age >= LockTTL

\* The broker confirmed only what it has stored or returned.
AcksAreTrue == \A r \in Relays : relay[r].answer = "ack" => relay[r].current \in stored \cup returned

IInv == TypeOK /\ BatchesRecorded /\ LocksHeld /\ AcksAreTrue

-----------------------------------------------------------------------------
\* Backoffs are whole seconds: a power of two counts the subsets of a set.
LEMMA PowersAreNumbers == ASSUME NEW n \in Nat PROVE 2 ^ n \in Nat
  <1>1. IsFiniteSet(1..n) /\ Cardinality(1..n) = n
    BY FS_Interval
  <1> QED
    BY <1>1, FS_SUBSET, FS_CardinalityType

LEMMA PowersGrow == ASSUME NEW m \in Nat, NEW n \in Nat, m <= n PROVE 2 ^ m <= 2 ^ n
  <1>1. IsFiniteSet(1..n) /\ Cardinality(1..n) = n /\ Cardinality(1..m) = m /\ IsFiniteSet(1..m)
    BY FS_Interval
  <1>2. SUBSET (1..m) \in SUBSET (SUBSET (1..n)) /\ IsFiniteSet(SUBSET (1..n))
    BY <1>1, FS_SUBSET
  <1>3. Cardinality(SUBSET (1..m)) <= Cardinality(SUBSET (1..n))
    BY <1>2, FS_Subset
  <1> QED
    BY <1>1, <1>3, FS_SUBSET

\* No backoff is longer than the last, and batches are told apart until their lock lapses.
LEMMA BackoffBounds ==
    ASSUME NEW f \in 0..BackoffCap
    PROVE  /\ Backoff(f) \in Nat /\ Backoff(f) <= 2 ^ BackoffCap
           /\ 2 ^ BackoffCap \in Nat /\ MaxAge \in Nat /\ MaxAge >= LockTTL /\ MaxAge >= MaxStall
  <1>1. BackoffCap \in Nat /\ MaxStall \in Nat /\ LockTTL \in Nat
    BY ConstantsAssumption
  <1>2. 2 ^ BackoffCap \in Nat /\ 2 ^ f \in Nat /\ 2 ^ f <= 2 ^ BackoffCap
    BY <1>1, PowersAreNumbers, PowersGrow
  <1>3. Backoff(f) = 2 ^ f \/ Backoff(f) = 2 ^ BackoffCap
    BY DEF Backoff
  <1>4. Backoff(BackoffCap) = 2 ^ BackoffCap
    BY <1>1 DEF Backoff
  <1> QED
    BY <1>1, <1>2, <1>3, <1>4 DEF MaxAge

-----------------------------------------------------------------------------
LEMMA InitInv == Init => IInv
  <1> SUFFICES ASSUME Init PROVE IInv
    OBVIOUS
  <1>1. 0 \in 0..BackoffCap /\ MaxAge \in Nat
    BY ConstantsAssumption, BackoffBounds
  <1>2. TypeOK
    BY <1>1, ConstantsAssumption DEF Init, TypeOK, NewRow, NewRelay, Row, Relay, Channel
  <1> QED
    BY <1>2 DEF IInv, Init, BatchesRecorded, LocksHeld, AcksAreTrue, NewRow, NewRelay

-----------------------------------------------------------------------------
\* Rows come and go (Insert, DeleteTrainingRun); nobody has a batch with an absent row.
LEMMA InsertInv == ASSUME IInv, NEW e \in Events, NEW delay \in 0..MaxDelay, Insert(e, delay) PROVE IInv'
  <1> USE DEF IInv
  <1>1. TypeOK'
    <2>1. /\ delay \in -MaxStall..MaxDelay \cup -MaxStall..2 ^ BackoffCap
          /\ -MaxStall \in -MaxStall..LockTTL /\ 0 \in 0..BackoffCap
      BY ConstantsAssumption
    <2>2. [NewRow EXCEPT !.status = "pending", !.dueIn = delay] \in Row
      BY <2>1 DEF NewRow, Row
    <2> QED
      BY <2>2 DEF Insert, TypeOK
  <1>2. \A d \in Events : d # e => row'[d] = row[d]
    BY DEF Insert, TypeOK
  <1>3. \A r \in Relays : e \notin relay[r].batch /\ relay[r].batch \subseteq Events
    BY DEF Insert, BatchesRecorded, TypeOK, Relay
  <1>4. BatchesRecorded'
    BY <1>2, <1>3 DEF Insert, BatchesRecorded
  <1>5. LocksHeld'
    BY <1>2, <1>3 DEF Insert, LocksHeld
  <1> QED
    BY <1>1, <1>4, <1>5 DEF Insert, AcksAreTrue

LEMMA DeleteInv == ASSUME IInv, NEW e \in Events, Delete(e) PROVE IInv'
  <1> USE DEF IInv
  <1>1. TypeOK'
    BY ConstantsAssumption DEF Delete, TypeOK, NewRow, Row
  <1>2. row'[e].status = "deleted" /\ \A d \in Events : d # e => row'[d] = row[d]
    BY DEF Delete, TypeOK, NewRow
  <1>3. \A r \in Relays : relay[r].batch \subseteq Events
    BY DEF TypeOK, Relay
  <1>4. BatchesRecorded'
    BY <1>2, <1>3 DEF Delete, BatchesRecorded
  <1>5. LocksHeld'
    BY <1>2, <1>3 DEF Delete, LocksHeld
  <1> QED
    BY <1>1, <1>4, <1>5 DEF Delete, AcksAreTrue

\* OutboxStore.Claim takes no lock that another relay can still count on.
LEMMA ClaimInv ==
    ASSUME IInv, NEW r \in Relays, NEW stall \in 0..MaxStall, NEW batch \in SUBSET Events, ClaimBatch(r, stall, batch)
    PROVE  IInv'
  <1> USE DEF IInv
  <1>1. stall \in Nat /\ stall \in 0..MaxAge /\ LockTTL - stall \in -MaxStall..LockTTL /\ LockTTL \in Nat
    BY ConstantsAssumption, BackoffBounds
  <1>2. TypeOK'
    <2>1. row' \in [Events -> Row]
      BY <1>1 DEF ClaimBatch, TypeOK, Row
    <2>2. relay' \in [Relays -> Relay]
      BY <1>1 DEF ClaimBatch, TypeOK, Relay
    <2> QED
      BY <2>1, <2>2 DEF ClaimBatch, TypeOK
  <1>3. \A d \in Events : row'[d].status = row[d].status
    BY DEF ClaimBatch, TypeOK, Row
  <1>4. relay'[r].batch = batch /\ relay'[r].age = stall /\ relay'[r].current = NoEvent
        /\ relay'[r].answer = relay[r].answer /\ relay[r].current = NoEvent
    BY DEF ClaimBatch, TypeOK, Relay, BatchesRecorded
  <1>5. \A q \in Relays : q # r => relay'[q] = relay[q]
    BY DEF ClaimBatch, TypeOK
  <1>6. \A d \in batch : row[d].status = "pending" /\ row'[d].owner = r /\ row'[d].lockLeft = LockTTL - stall
    BY DEF ClaimBatch, Claimable, TypeOK, Row
  <1>7. \A d \in Events \ batch : row'[d] = row[d]
    BY DEF ClaimBatch
  <1>8. \A q \in Relays : relay[q].batch \subseteq Events
    BY DEF TypeOK, Relay
  <1>9. BatchesRecorded'
    BY <1>3, <1>4, <1>5, <1>6, <1>8 DEF BatchesRecorded
  <1>10. LocksHeld'
    <2> SUFFICES ASSUME NEW q \in Relays, NEW d \in relay'[q].batch, relay'[q].age < LockTTL,
                        row'[d].status \in {"pending", "published"}
                 PROVE  /\ row'[d].status = "pending" /\ row'[d].owner = q
                        /\ row'[d].lockLeft + relay'[q].age >= LockTTL
      BY DEF LocksHeld
    <2>1. CASE q = r
      BY <2>1, <1>1, <1>3, <1>4, <1>6
    <2>2. CASE q # r /\ d \in batch
      <3>1. row[d].owner = q /\ row[d].lockLeft + relay[q].age >= LockTTL /\ relay[q].age < LockTTL
        BY <2>2, <1>3, <1>5, <1>8 DEF LocksHeld
      <3>2. row[d].lockLeft <= -stall
        BY <2>2, <3>1, NamesAssumption DEF ClaimBatch, Claimable
      <3>3. row[d].lockLeft \in Int /\ relay[q].age \in Int
        BY <2>2, ConstantsAssumption, BackoffBounds DEF TypeOK, Row, Relay
      <3> QED
        BY <3>1, <3>2, <3>3, <1>1
    <2>3. CASE q # r /\ d \notin batch
      BY <2>3, <1>5, <1>7, <1>8 DEF LocksHeld
    <2> QED
      BY <2>1, <2>2, <2>3
  <1>11. AcksAreTrue'
    <2> SUFFICES ASSUME NEW q \in Relays, relay'[q].answer = "ack" PROVE relay'[q].current \in stored' \cup returned'
      BY DEF AcksAreTrue
    <2>1. relay[q].answer = "ack" /\ relay'[q].current = relay[q].current
      BY <1>4, <1>5
    <2>2. relay[q].current \in stored \cup returned
      BY <2>1 DEF AcksAreTrue
    <2>3. stored' = stored /\ returned' = returned
      BY DEF ClaimBatch
    <2> QED
      BY <2>1, <2>2, <2>3
  <1> QED
    BY <1>2, <1>9, <1>10, <1>11

\* What happens at the broker (Publisher.Publish) leaves locks and ages alone.
LEMMA PublishedInv ==
    ASSUME IInv, NEW r \in Relays, NEW e \in Events, NEW answer \in {"waiting", "ack", "error"}, NEW channel \in Channel,
           Published(r, e, answer, channel), UNCHANGED row,
           stored \subseteq stored', stored' \subseteq Events, returned \subseteq returned', returned' \subseteq Events,
           answer = "ack" => e \in stored' \cup returned', faults' \in 0..FaultLimit
    PROVE  IInv'
  <1> USE DEF IInv
  <1>1. TypeOK'
    <2>1. [relay[r] EXCEPT !.current = e, !.answer = answer, !.channel = channel] \in Relay
      BY DEF TypeOK, Relay
    <2> QED
      BY <2>1 DEF Published, TypeOK
  <1>2. \A q \in Relays : relay'[q].batch = relay[q].batch /\ relay'[q].age = relay[q].age
    BY DEF Published, TypeOK, Relay
  <1>3. relay'[r].current = e /\ relay'[r].answer = answer /\ e \in relay[r].batch
    BY DEF Published, TypeOK, Relay
  <1>4. \A q \in Relays : q # r => relay'[q] = relay[q]
    BY DEF Published, TypeOK
  <1>5. BatchesRecorded'
    BY <1>2, <1>3, <1>4 DEF BatchesRecorded
  <1>6. LocksHeld'
    BY <1>2 DEF LocksHeld
  <1>7. AcksAreTrue'
    BY <1>3, <1>4 DEF AcksAreTrue
  <1> QED
    BY <1>1, <1>5, <1>6, <1>7

\* What a call of Publish leaves of the channel (Publisher.Publish).
LEMMA ConfirmedPublishes ==
    ASSUME IInv, NEW r \in Relays, NEW e \in Events, NEW answer, Confirmed(r, e, answer)
    PROVE  \E given \in {"waiting", answer}, channel \in Channel : Published(r, e, given, channel)
  <1> DEFINE old == relay[r].channel  blocked == [old EXCEPT !.confirms = "blocked"]
             heard == [old EXCEPT !.confirms = IF @ = "none" THEN "room" ELSE "full"]
  <1>1. old \in Channel
    BY DEF IInv, TypeOK, Relay
  <1>2. blocked \in Channel /\ heard \in Channel
    BY <1>1 DEF Channel
  <1>3. Published(r, e, "waiting", blocked) \/ Published(r, e, answer, heard)
    BY DEF Confirmed
  <1> HIDE DEF blocked, heard
  <1> QED
    BY <1>2, <1>3

LEMMA UnroutablePublishes ==
    ASSUME IInv, NEW r \in Relays, NEW e \in Events, Unroutable(r, e)
    PROVE  \E given \in {"waiting", "ack", "error"}, channel \in Channel : Published(r, e, given, channel)
  <1> DEFINE old == relay[r].channel  earlier == old.confirms # "none"
             blocked == [old EXCEPT !.confirms = "blocked"]
             taken == [old EXCEPT !.returns = earlier, !.confirms = IF @ = "full" THEN "blocked" ELSE "full"]
             missed == [old EXCEPT !.returns = TRUE, !.confirms = IF earlier THEN "full" ELSE "room"]
  <1>1. old \in Channel
    BY DEF IInv, TypeOK, Relay
  <1>2. blocked \in Channel /\ taken \in Channel /\ missed \in Channel
    BY <1>1 DEF Channel
  <1>3. Published(r, e, "waiting", blocked) \/ Published(r, e, "error", taken) \/ Published(r, e, "ack", missed)
    BY DEF Unroutable
  <1> HIDE DEF blocked, taken, missed
  <1> QED
    BY <1>2, <1>3

\* A relay that goes on to its next event holds no more locks than before.
LEMMA NextEventKeeps ==
    ASSUME IInv, NEW r \in Relays, NextEvent(r)
    PROVE  /\ relay' \in [Relays -> Relay]
           /\ relay'[r].batch = relay[r].batch \ {relay[r].current} /\ relay'[r].current = NoEvent
           /\ relay'[r].answer # "ack"
           /\ relay'[r].batch # {} => relay'[r].age = relay[r].age
           /\ \A q \in Relays : q # r => relay'[q] = relay[q]
  <1>1. 0 \in 0..MaxAge
    BY ConstantsAssumption, BackoffBounds
  <1> QED
    BY <1>1 DEF NextEvent, IInv, TypeOK, Relay

\* MarkPublished and MarkFailed: only the owner of a lock gives it back.
LEMMA MarkInv == ASSUME IInv, NEW r \in Relays, Mark(r) PROVE IInv'
  <1> USE DEF IInv
  <1> DEFINE e == relay[r].current
  <1>1. e \in relay[r].batch /\ relay[r].batch \subseteq Events /\ e \in Events
    BY DEF Mark, BatchesRecorded, TypeOK, Relay
  <1>2. row' \in [Events -> Row] /\ (row'[e] # row[e] => row[e].owner = r /\ row[e].status = "pending")
    <2>1. CASE row[e].status = "pending" /\ row[e].owner = r
      <3>1. Marked(r, row[e]) \in Row
        <4>1. row[e] \in Row /\ relay[r].age \in 0..MaxAge /\ row[e].failures \in 0..BackoffCap
          BY <1>1 DEF TypeOK, Row, Relay
        <4>2. /\ Backoff(row[e].failures) \in Nat /\ Backoff(row[e].failures) <= 2 ^ BackoffCap
              /\ 2 ^ BackoffCap \in Nat /\ MaxAge \in Nat /\ MaxStall \in Nat /\ LockTTL \in Nat /\ BackoffCap \in Nat
          BY <4>1, BackoffBounds, ConstantsAssumption
        <4>3. Passed(Backoff(row[e].failures) - relay[r].age) \in -MaxStall..2 ^ BackoffCap
          BY <4>1, <4>2 DEF Passed
        <4>4. -MaxStall \in -MaxStall..LockTTL /\ (row[e].failures < BackoffCap => row[e].failures + 1 \in 0..BackoffCap)
          BY <4>1, <4>2
        <4>5. CASE relay[r].answer = "ack"
          BY <4>1, <4>4, <4>5 DEF Marked, Row
        <4>6. CASE relay[r].answer # "ack"
          <5> DEFINE failures == IF row[e].failures < BackoffCap THEN row[e].failures + 1 ELSE row[e].failures
          <5>1. failures \in 0..BackoffCap
            BY <4>1, <4>4
          <5>2. Marked(r, row[e]) = [row[e] EXCEPT !.dueIn = Passed(Backoff(row[e].failures) - relay[r].age),
                                      !.failures = failures, !.owner = NoRelay, !.lockLeft = -MaxStall]
            BY <4>6 DEF Marked
          <5> HIDE DEF failures
          <5> QED
            BY <4>1, <4>3, <4>4, <5>1, <5>2 DEF Row
        <4> QED
          BY <4>5, <4>6
      <3> QED
        BY <1>1, <2>1, <3>1 DEF Mark, TypeOK
    <2>2. CASE ~(row[e].status = "pending" /\ row[e].owner = r)
      BY <2>2 DEF Mark, TypeOK
    <2> QED
      BY <2>1, <2>2
  <1>3. (\A d \in Events : d # e => row'[d] = row[d]) /\ NextEvent(r)
    BY DEF Mark, TypeOK
  <1>4. row'[e].status # "absent"
    <2>1. CASE row'[e] = row[e]
      BY <1>1, <2>1 DEF BatchesRecorded
    <2>2. CASE row'[e] # row[e]
      <3>1. row'[e] = Marked(r, row[e]) /\ row[e] \in Row /\ row[e].status = "pending"
        BY <1>1, <2>2 DEF Mark, TypeOK
      <3> QED
        BY <3>1 DEF Marked, Row
    <2> QED
      BY <2>1, <2>2
  <1>5. TypeOK'
    BY <1>2, <1>3, NextEventKeeps DEF Mark, TypeOK
  <1>6. \A q \in Relays : relay[q].batch \subseteq Events
    BY DEF TypeOK, Relay
  <1>7. BatchesRecorded'
    BY <1>1, <1>3, <1>4, <1>6, NextEventKeeps DEF BatchesRecorded
  <1>8. LocksHeld'
    <2> SUFFICES ASSUME NEW q \in Relays, NEW d \in relay'[q].batch, relay'[q].age < LockTTL,
                        row'[d].status \in {"pending", "published"}
                 PROVE  /\ row'[d].status = "pending" /\ row'[d].owner = q
                        /\ row'[d].lockLeft + relay'[q].age >= LockTTL
      BY DEF LocksHeld
    <2>1. d \in relay[q].batch /\ relay'[q].age = relay[q].age /\ (q = r => d # e)
      BY <1>3, NextEventKeeps
    <2>2. row'[d] = row[d]
      <3>1. CASE d # e
        BY <3>1, <1>3, <1>6, <2>1
      <3>2. CASE d = e /\ row'[e] # row[e]
        BY <3>2, <1>2, <2>1 DEF LocksHeld
      <3> QED
        BY <3>1, <3>2
    <2> QED
      BY <2>1, <2>2 DEF LocksHeld
  <1>9. AcksAreTrue'
    BY <1>3, NextEventKeeps DEF AcksAreTrue, Mark
  <1> QED
    BY <1>5, <1>7, <1>8, <1>9

\* Without the mark the row stays locked until its time is over.
LEMMA MarkFailsInv == ASSUME IInv, NEW r \in Relays, MarkFails(r) PROVE IInv'
  <1> USE DEF IInv
  <1>1. NextEvent(r) /\ UNCHANGED <<row, stored, returned>>
    BY DEF MarkFails
  <1>2. TypeOK'
    BY <1>1, NextEventKeeps, ConstantsAssumption DEF MarkFails, TypeOK
  <1>3. BatchesRecorded'
    BY <1>1, NextEventKeeps DEF BatchesRecorded
  <1>4. LocksHeld'
    <2> SUFFICES ASSUME NEW q \in Relays, NEW d \in relay'[q].batch
                 PROVE  d \in relay[q].batch /\ relay'[q].age = relay[q].age
      BY <1>1 DEF LocksHeld
    <2> QED
      BY <1>1, NextEventKeeps
  <1> QED
    BY <1>1, <1>2, <1>3, <1>4, NextEventKeeps DEF AcksAreTrue

\* A process that starts again has no batch (Crash, Restart).
LEMMA StartInv ==
    ASSUME IInv, NEW r \in Relays, relay' = [relay EXCEPT ![r] = NewRelay], UNCHANGED <<row, stored, returned>>, faults' \in 0..FaultLimit
    PROVE  IInv'
  <1> USE DEF IInv
  <1>1. 0 \in 0..MaxAge
    BY ConstantsAssumption, BackoffBounds
  <1>2. TypeOK'
    BY <1>1 DEF TypeOK, NewRelay, Relay, Channel
  <1>3. \A q \in Relays : relay'[q] = relay[q] \/ relay'[q] = NewRelay
    BY DEF TypeOK
  <1> QED
    BY <1>2, <1>3 DEF BatchesRecorded, LocksHeld, AcksAreTrue, NewRelay

\* A connection that breaks leaves the answer of its relay an error, and no lock changes.
LEMMA BreaksInv == ASSUME IInv, NEW r \in Relays, ConnectionBreaks(r), faults' \in 0..FaultLimit PROVE IInv'
  <1> USE DEF IInv
  <1> DEFINE x == [[relay[r] EXCEPT !.answer = "error"] EXCEPT !.channel = [@ EXCEPT !.open = FALSE]]
  <1>1. relay[r] \in Relay /\ relay \in [Relays -> Relay]
    BY DEF TypeOK
  <1>2. relay' = [relay EXCEPT ![r] = x]
    BY <1>1 DEF ConnectionBreaks, Relay, Channel
  <1>3. x \in Relay /\ x.answer = "error" /\ x.batch = relay[r].batch /\ x.age = relay[r].age /\ x.current = relay[r].current
    BY <1>1 DEF Relay, Channel
  <1> HIDE DEF x
  <1>4. relay'[r] = x /\ \A q \in Relays : q # r => relay'[q] = relay[q]
    BY <1>1, <1>2
  <1>5. row' = row /\ stored' = stored /\ returned' = returned
    BY DEF ConnectionBreaks
  <1>6. TypeOK'
    BY <1>1, <1>2, <1>3, <1>5 DEF TypeOK
  <1>7. \A q \in Relays : relay'[q].batch = relay[q].batch /\ relay'[q].age = relay[q].age /\ relay'[q].current = relay[q].current
    BY <1>3, <1>4
  <1>8. BatchesRecorded'
    BY <1>5, <1>7 DEF BatchesRecorded
  <1>9. LocksHeld'
    BY <1>5, <1>7 DEF LocksHeld
  <1>10. AcksAreTrue'
    BY <1>3, <1>4, <1>5 DEF AcksAreTrue
  <1> QED
    BY <1>6, <1>8, <1>9, <1>10

\* A second is taken from what is left of a lock and added to the age of its batch.
LEMMA ElapseInv == ASSUME IInv, Elapse PROVE IInv'
  <1> USE DEF IInv
  <1>1. /\ MaxAge \in Nat /\ MaxAge >= LockTTL /\ {LockTTL, MaxStall, MaxDelay, BackoffCap} \subseteq Nat
        /\ 2 ^ BackoffCap \in Nat
    BY ConstantsAssumption, BackoffBounds
  <1>2. \A e \in Events :
           /\ row[e] \in Row
           /\ row'[e] = [row[e] EXCEPT !.dueIn = Passed(@ - 1), !.lockLeft = Passed(@ - 1)]
    BY DEF Elapse, TypeOK
  <1>3. \A e \in Events : row'[e] \in Row /\ row'[e].lockLeft >= row[e].lockLeft - 1
                          /\ row[e].lockLeft \in Int /\ row'[e].lockLeft \in Int
                          /\ row'[e].status = row[e].status /\ row'[e].owner = row[e].owner
    <2> SUFFICES ASSUME NEW e \in Events
                 PROVE  row'[e] \in Row /\ row'[e].lockLeft >= row[e].lockLeft - 1
                        /\ row[e].lockLeft \in Int /\ row'[e].lockLeft \in Int
                        /\ row'[e].status = row[e].status /\ row'[e].owner = row[e].owner
      OBVIOUS
    <2>1. row[e].lockLeft \in -MaxStall..LockTTL /\ row[e].dueIn \in -MaxStall..MaxDelay \cup -MaxStall..2 ^ BackoffCap
      BY <1>2 DEF Row
    <2>2. Passed(row[e].lockLeft - 1) \in -MaxStall..LockTTL /\ Passed(row[e].lockLeft - 1) >= row[e].lockLeft - 1
      BY <1>1, <2>1 DEF Passed
    <2>3. Passed(row[e].dueIn - 1) \in -MaxStall..MaxDelay \cup -MaxStall..2 ^ BackoffCap
      BY <1>1, <2>1 DEF Passed
    <2>4. row'[e] \in Row /\ row'[e].lockLeft = Passed(row[e].lockLeft - 1)
          /\ row'[e].status = row[e].status /\ row'[e].owner = row[e].owner
      <3> DEFINE due == Passed(row[e].dueIn - 1)  left == Passed(row[e].lockLeft - 1)
      <3>1. row'[e] = [row[e] EXCEPT !.dueIn = due, !.lockLeft = left]
        BY <1>2
      <3> HIDE DEF due, left
      <3>2. due \in -MaxStall..MaxDelay \cup -MaxStall..2 ^ BackoffCap /\ left \in -MaxStall..LockTTL
        BY <2>2, <2>3 DEF due, left
      <3>3. row'[e] \in Row /\ row'[e].lockLeft = left
            /\ row'[e].status = row[e].status /\ row'[e].owner = row[e].owner
        BY <1>2, <3>1, <3>2 DEF Row
      <3> QED
        BY <3>3 DEF left
    <2>5. row[e].lockLeft \in Int /\ Passed(row[e].lockLeft - 1) \in Int
      BY <1>1, <2>1, <2>2
    <2> QED
      BY <2>2, <2>4, <2>5
  <1>12. \A r \in Relays : \E age \in 0..MaxAge :
           /\ relay'[r] = [relay[r] EXCEPT !.age = age]
           /\ relay[r].batch # {} /\ age < LockTTL => age = relay[r].age + 1
    <2> SUFFICES ASSUME NEW r \in Relays
                 PROVE  \E age \in 0..MaxAge :
                           /\ relay'[r] = [relay[r] EXCEPT !.age = age]
                           /\ relay[r].batch # {} /\ age < LockTTL => age = relay[r].age + 1
      OBVIOUS
    <2> DEFINE age == IF relay[r].batch # {} /\ relay[r].age < MaxAge THEN relay[r].age + 1 ELSE relay[r].age
    <2>1. relay[r].age \in 0..MaxAge
      BY DEF TypeOK, Relay
    <2>2. age \in 0..MaxAge /\ (relay[r].batch # {} /\ age < LockTTL => age = relay[r].age + 1)
      BY <1>1, <2>1
    <2>3. relay'[r] = [relay[r] EXCEPT !.age = age]
      BY DEF Elapse
    <2> HIDE DEF age
    <2> QED
      BY <2>2, <2>3
  <1>4. \A r \in Relays : relay'[r] \in Relay /\ relay'[r].batch = relay[r].batch
                          /\ relay'[r].current = relay[r].current /\ relay'[r].answer = relay[r].answer
    <2> SUFFICES ASSUME NEW r \in Relays
                 PROVE  relay'[r] \in Relay /\ relay'[r].batch = relay[r].batch
                        /\ relay'[r].current = relay[r].current /\ relay'[r].answer = relay[r].answer
      OBVIOUS
    <2>1. PICK age \in 0..MaxAge : relay'[r] = [relay[r] EXCEPT !.age = age]
      BY <1>12
    <2>2. relay[r] \in Relay
      BY DEF TypeOK
    <2> QED
      BY <2>1, <2>2 DEF Relay
  <1>5. \A r \in Relays : relay[r].age \in Int /\ relay'[r].age \in Int /\
           (relay[r].batch # {} /\ relay'[r].age < LockTTL => relay'[r].age = relay[r].age + 1)
    <2> SUFFICES ASSUME NEW r \in Relays
                 PROVE  relay[r].age \in Int /\ relay'[r].age \in Int /\
                        (relay[r].batch # {} /\ relay'[r].age < LockTTL => relay'[r].age = relay[r].age + 1)
      OBVIOUS
    <2>1. PICK age \in 0..MaxAge :
             /\ relay'[r] = [relay[r] EXCEPT !.age = age]
             /\ relay[r].batch # {} /\ age < LockTTL => age = relay[r].age + 1
      BY <1>12
    <2>2. relay[r] \in Relay
      BY DEF TypeOK
    <2>3. relay'[r].age = age /\ relay[r].age \in 0..MaxAge
      BY <2>1, <2>2 DEF Relay
    <2> QED
      BY <1>1, <2>1, <2>3
  <1>6. faults' \in 0..FaultLimit
    <2>1. faults \in 0..FaultLimit /\ FaultLimit \in Nat
      BY ConstantsAssumption DEF TypeOK
    <2>2. /\ Overrunning # {} => faults < FaultLimit
          /\ faults' = IF Overrunning = {} THEN faults ELSE faults + 1
      BY Zenon DEF Elapse
    <2> QED
      BY <2>1, <2>2
  <1>7. TypeOK'
    BY <1>3, <1>4, <1>6 DEF Elapse, TypeOK
  <1>8. \A r \in Relays : relay[r].batch \subseteq Events
    BY DEF TypeOK, Relay
  <1>9. LocksHeld'
    <2> SUFFICES ASSUME NEW r \in Relays, NEW e \in relay'[r].batch, relay'[r].age < LockTTL,
                        row'[e].status \in {"pending", "published"}
                 PROVE  /\ row'[e].status = "pending" /\ row'[e].owner = r
                        /\ row'[e].lockLeft + relay'[r].age >= LockTTL
      BY DEF LocksHeld
    <2>1. e \in relay[r].batch /\ e \in Events /\ relay'[r].age = relay[r].age + 1 /\ relay[r].age < LockTTL
      BY <1>1, <1>4, <1>5, <1>8
    <2>2. row[e].status = "pending" /\ row[e].owner = r /\ row[e].lockLeft + relay[r].age >= LockTTL
      BY <1>3, <2>1 DEF LocksHeld
    <2> QED
      BY <1>1, <1>3, <1>5, <2>1, <2>2
  <1>10. BatchesRecorded'
    BY <1>3, <1>4, <1>8 DEF BatchesRecorded
  <1>11. AcksAreTrue'
    <2> SUFFICES ASSUME NEW r \in Relays, relay'[r].answer = "ack" PROVE relay'[r].current \in stored' \cup returned'
      BY DEF AcksAreTrue
    <2>1. relay[r].answer = "ack" /\ relay'[r].current = relay[r].current
      BY <1>4
    <2>2. relay[r].current \in stored \cup returned
      BY <2>1 DEF AcksAreTrue
    <2>3. stored' = stored /\ returned' = returned
      BY DEF Elapse
    <2> QED
      BY <2>1, <2>2, <2>3
  <1> QED
    BY <1>7, <1>9, <1>10, <1>11

-----------------------------------------------------------------------------
LEMMA NextInv == IInv /\ [Next]_vars => IInv'
  <1> SUFFICES ASSUME IInv, [Next]_vars PROVE IInv'
    OBVIOUS
  <1>1. /\ faults \in 0..FaultLimit /\ FaultLimit \in Nat /\ stored \subseteq Events /\ returned \subseteq Events
        /\ faults < FaultLimit => faults + 1 \in 0..FaultLimit
    BY ConstantsAssumption DEF IInv, TypeOK
  <1>2. ASSUME NEW e \in Events, Delete(e) PROVE IInv'
    BY <1>2, DeleteInv
  <1>3. ASSUME NEW e \in Events, NEW delay \in 0..MaxDelay, Insert(e, delay) PROVE IInv'
    BY <1>3, InsertInv
  <1>4. ASSUME NEW r \in Relays, NEW stall \in 0..MaxStall, NEW batch \in SUBSET Events, ClaimBatch(r, stall, batch)
        PROVE  IInv'
    BY <1>4, ClaimInv
  <1>5. ASSUME NEW r \in Relays, NEW e \in Events, Publish(r, e) PROVE IInv'
    <2>1. Confirmed(r, e, "ack") /\ stored' = stored \cup {e} /\ returned' = returned /\ faults' = faults /\ UNCHANGED row
      BY <1>5 DEF Publish
    <2>2. PICK answer \in {"waiting", "ack"}, channel \in Channel : Published(r, e, answer, channel)
      BY <2>1, ConfirmedPublishes
    <2> QED
      BY <1>1, <2>1, <2>2, PublishedInv
  <1>6. ASSUME NEW r \in Relays, NEW e \in Events, PublishDisconnected(r, e) PROVE IInv'
    <2>1. Published(r, e, "error", relay[r].channel) /\ UNCHANGED <<row, stored, returned, faults>>
      BY <1>6 DEF PublishDisconnected
    <2>2. relay[r].channel \in Channel
      BY DEF IInv, TypeOK, Relay
    <2> QED
      BY <1>1, <2>1, <2>2, PublishedInv
  <1>7. ASSUME NEW r \in Relays, NEW e \in Events, PublishFails(r, e) PROVE IInv'
    <2>1. /\ stored' = stored \/ stored' = stored \cup {e}
          /\ faults' \in 0..FaultLimit /\ UNCHANGED row /\ returned' = returned
      BY <1>1, <1>7 DEF PublishFails
    <2>2. PICK answer \in {"waiting", "error"}, channel \in Channel : Published(r, e, answer, channel)
      <3>1. CASE Confirmed(r, e, "error")
        BY <3>1, ConfirmedPublishes
      <3>2. CASE Published(r, e, "error", [relay[r].channel EXCEPT !.open = FALSE])
        <4>1. [relay[r].channel EXCEPT !.open = FALSE] \in Channel
          BY DEF IInv, TypeOK, Relay, Channel
        <4> QED
          BY <3>2, <4>1
      <3> QED
        BY <1>7, <3>1, <3>2 DEF PublishFails
    <2>3. stored \subseteq stored' /\ stored' \subseteq Events
      BY <1>1, <2>1
    <2> QED
      BY <1>1, <2>1, <2>2, <2>3, PublishedInv
  <1>14. ASSUME NEW r \in Relays, NEW e \in Events, Unroutable(r, e) PROVE IInv'
    <2>1. returned' = returned \cup {e} /\ faults' \in 0..FaultLimit /\ UNCHANGED <<row, stored>>
      BY <1>1, <1>14 DEF Unroutable
    <2>2. PICK answer \in {"waiting", "ack", "error"}, channel \in Channel : Published(r, e, answer, channel)
      BY <1>14, UnroutablePublishes
    <2> QED
      BY <1>1, <2>1, <2>2, PublishedInv
  <1>15. ASSUME NEW r \in Relays, ConnectionBreaks(r) PROVE IInv'
    BY <1>1, <1>15, BreaksInv DEF ConnectionBreaks
  <1>8. ASSUME NEW r \in Relays, Mark(r) PROVE IInv'
    BY <1>8, MarkInv
  <1>9. ASSUME NEW r \in Relays, MarkFails(r) PROVE IInv'
    BY <1>9, MarkFailsInv
  <1>10. ASSUME NEW r \in Relays, Crash(r) PROVE IInv'
    BY <1>1, <1>10, StartInv DEF Crash
  <1>11. ASSUME NEW r \in Relays, Restart(r) PROVE IInv'
    BY <1>1, <1>11, StartInv DEF Restart
  <1>12. ASSUME Elapse PROVE IInv'
    BY <1>12, ElapseInv
  <1>13. ASSUME UNCHANGED vars PROVE IInv'
    BY <1>13 DEF vars, IInv, TypeOK, BatchesRecorded, LocksHeld, AcksAreTrue
  <1> QED
    BY <1>2, <1>3, <1>4, <1>5, <1>6, <1>7, <1>8, <1>9, <1>10, <1>11, <1>12, <1>13, <1>14, <1>15 DEF Next, RunBatch, Fault

THEOREM Invariance == Spec => []IInv
  BY InitInv, NextInv, PTL DEF Spec

\* Rows and relays hold values of their kinds: no lock, delay or age of a clock
\* reading leaves its range, however often a second passes (Elapse, Marked).
THEOREM OutboxTypesCorrect == Spec => []TypeOK
  <1>1. IInv => TypeOK
    BY DEF IInv
  <1> QED
    BY <1>1, Invariance, PTL

\* A relay whose batch is younger than LockTTL still owns the lock of every event
\* in it that exists, for any number of relays, readings of the clock and faults.
THEOREM LocksAreHonoured == Spec => []LockHonoured
  <1>1. IInv => LockHonoured
    <2> SUFFICES ASSUME IInv, NEW r \in Relays, NEW e \in Events,
                        e \in relay[r].batch, row[e].status \in {"pending", "published"}, row[e].owner # r
                 PROVE  relay[r].age >= LockTTL
      BY DEF LockHonoured
    <2>1. ~(relay[r].age < LockTTL)
      BY DEF IInv, LocksHeld
    <2>2. relay[r].age \in Int /\ LockTTL \in Int
      BY ConstantsAssumption, BackoffBounds DEF IInv, TypeOK, Relay
    <2> QED
      BY <2>1, <2>2
  <1> QED
    BY <1>1, Invariance, PTL

-----------------------------------------------------------------------------
LEMMA InitMaps == Init => Delivery!Init
  BY DEF Init, NewRow, Delivery!Init

\* A step of a relay that leaves the status of every row alone and publishes
\* nothing, or one event of its batch, is a delivery or none at all.
LEMMA BrokerMaps ==
    ASSUME IInv, NEW r \in Relays, NEW e \in relay[r].batch, UNCHANGED row,
           \/ stored' = stored /\ returned' = returned
           \/ stored' = stored \cup {e} /\ returned' = returned
           \/ stored' = stored /\ returned' = returned \cup {e}
    PROVE  [Delivery!Next]_Delivery!vars
  <1>1. e \in Events /\ row[e].status # "absent"
    BY DEF IInv, TypeOK, Relay, BatchesRecorded
  <1>2. CASE stored' = stored /\ returned' = returned
    BY <1>2 DEF Delivery!vars
  <1>3. CASE stored' = stored \cup {e} /\ returned' = returned
    BY <1>1, <1>3 DEF Delivery!Next, Delivery!Deliver
  <1>4. CASE stored' = stored /\ returned' = returned \cup {e}
    BY <1>1, <1>4 DEF Delivery!Next, Delivery!Return
  <1> QED
    BY <1>2, <1>3, <1>4

\* The status of row e becomes `status', that of no other row changes.
LEMMA EntryChanges ==
    ASSUME IInv, NEW e \in Events, NEW status, NEW x, x.status = status, row' = [row EXCEPT ![e] = x]
    PROVE  [d \in Events |-> row'[d].status] = [[d \in Events |-> row[d].status] EXCEPT ![e] = status]
  BY DEF IInv, TypeOK

\* No row changes its status.
LEMMA EntriesStay ==
    ASSUME \A d \in Events : row'[d].status = row[d].status, stored' = stored, returned' = returned
    PROVE  [Delivery!Next]_Delivery!vars
  BY DEF Delivery!vars

LEMMA MarkMaps == ASSUME IInv, NEW r \in Relays, Mark(r) PROVE [Delivery!Next]_Delivery!vars
  <1> DEFINE e == relay[r].current
  <1>1. e \in Events /\ row[e] \in Row /\ stored' = stored /\ returned' = returned
    BY DEF Mark, IInv, TypeOK, BatchesRecorded, Relay
  <1>2. CASE row[e].status = "pending" /\ row[e].owner = r /\ relay[r].answer = "ack"
    <2>1. row' = [row EXCEPT ![e] = Marked(r, row[e])]
      BY <1>2 DEF Mark
    <2>2. Marked(r, row[e]).status = "published"
      BY <1>1, <1>2 DEF Marked, Row
    <2>3. e \in stored \cup returned
      BY <1>2 DEF IInv, AcksAreTrue
    <2>4. PICK d \in Events : d = e
      BY <1>1
    <2>5. Delivery!Settle(d)
      BY <1>1, <1>2, <2>1, <2>2, <2>3, <2>4, EntryChanges DEF Delivery!Settle
    <2> QED
      BY <2>5 DEF Delivery!Next
  <1>3. CASE row[e].status = "pending" /\ row[e].owner = r /\ relay[r].answer # "ack"
    <2>1. row' = [row EXCEPT ![e] = Marked(r, row[e])] /\ row \in [Events -> Row]
      BY <1>3 DEF Mark, IInv, TypeOK
    <2>2. Marked(r, row[e]).status = row[e].status
      BY <1>1, <1>3 DEF Marked, Row
    <2>3. \A d \in Events : row'[d].status = row[d].status
      BY <1>1, <2>1, <2>2
    <2> QED
      BY <1>1, <2>3, EntriesStay
  <1>4. CASE ~(row[e].status = "pending" /\ row[e].owner = r)
    <2>1. row' = row
      BY <1>4 DEF Mark
    <2> QED
      BY <1>1, <2>1, EntriesStay
  <1> QED
    BY <1>2, <1>3, <1>4

LEMMA StepMaps == IInv /\ [Next]_vars => [Delivery!Next]_Delivery!vars
  <1> SUFFICES ASSUME IInv, [Next]_vars PROVE [Delivery!Next]_Delivery!vars
    OBVIOUS
  <1>1. ASSUME NEW e \in Events, NEW delay \in 0..MaxDelay, Insert(e, delay) PROVE Delivery!Record(e)
    <2> DEFINE x == [NewRow EXCEPT !.status = "pending", !.dueIn = delay]
    <2>1. x.status = "pending" /\ row' = [row EXCEPT ![e] = x]
      BY <1>1 DEF Insert, NewRow
    <2> HIDE DEF x
    <2> QED
      BY <1>1, <2>1, EntryChanges DEF Insert, Delivery!Record
  <1>2. ASSUME NEW e \in Events, Delete(e) PROVE Delivery!Withdraw(e)
    <2> DEFINE x == [NewRow EXCEPT !.status = "deleted"]
    <2>1. x.status = "deleted" /\ row' = [row EXCEPT ![e] = x]
      BY <1>2 DEF Delete, NewRow
    <2> HIDE DEF x
    <2> QED
      BY <1>2, <2>1, EntryChanges DEF Delete, Delivery!Withdraw
  <1>3. ASSUME NEW r \in Relays, NEW stall \in 0..MaxStall, NEW batch \in SUBSET Events, ClaimBatch(r, stall, batch)
        PROVE  [Delivery!Next]_Delivery!vars
    <2>1. \A d \in Events : row'[d].status = row[d].status
      BY <1>3 DEF ClaimBatch, IInv, TypeOK, Row
    <2> QED
      BY <1>3, <2>1, EntriesStay DEF ClaimBatch
  <1>4. ASSUME NEW r \in Relays, NEW e \in Events, Publish(r, e) \/ PublishDisconnected(r, e) \/ PublishFails(r, e) \/ Unroutable(r, e)
        PROVE  [Delivery!Next]_Delivery!vars
    <2>1. e \in relay[r].batch /\ UNCHANGED row
      BY <1>4 DEF Publish, PublishDisconnected, PublishFails, Unroutable, Confirmed, Published
    <2>2. \/ stored' = stored /\ returned' = returned
          \/ stored' = stored \cup {e} /\ returned' = returned
          \/ stored' = stored /\ returned' = returned \cup {e}
      BY <1>4 DEF Publish, PublishDisconnected, PublishFails, Unroutable
    <2> QED
      BY <2>1, <2>2, BrokerMaps
  <1>5. ASSUME NEW r \in Relays, MarkFails(r) \/ Crash(r) \/ Restart(r) \/ ConnectionBreaks(r)
        PROVE  [Delivery!Next]_Delivery!vars
    BY <1>5, EntriesStay DEF MarkFails, Crash, Restart, ConnectionBreaks
  <1>6. ASSUME Elapse PROVE [Delivery!Next]_Delivery!vars
    <2>1. \A d \in Events : row'[d].status = row[d].status
      BY <1>6 DEF Elapse, IInv, TypeOK, Row
    <2> QED
      BY <1>6, <2>1, EntriesStay DEF Elapse
  <1>7. ASSUME UNCHANGED vars PROVE [Delivery!Next]_Delivery!vars
    BY <1>7 DEF vars, Delivery!vars
  <1> QED
    BY <1>1, <1>2, <1>3, <1>4, <1>5, <1>6, <1>7, MarkMaps DEF Next, RunBatch, Fault, Delivery!Next

\* The relays implement a transactional outbox: an event is marked published
\* only after the broker stored a copy or answered that no queue takes it,
\* whoever published it and whatever crashed, lapsed, hung or was lost in between
\* (MarkPublished, MarkFailed).
THEOREM RelaysDeliver == Spec => DeliverySpec
  BY InitMaps, StepMaps, Invariance, PTL DEF Spec, DeliverySpec, Delivery!Spec

=============================================================================
