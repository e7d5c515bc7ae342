-------------------------- MODULE Deployment_proofs --------------------------
(***************************************************************************)
(* What Deployment promises, for any number of builders, builds and faults.*)
(*                                                                         *)
(* The argument: a token is claimed by one process only, because a claim   *)
(* is granted on a queued row or to the process that holds it, and no step *)
(* queues the same token again.  What that process leaves on its disk      *)
(* decides whether it compiles, and is never overwritten, so it is also    *)
(* what every call says, however late it is executed.                      *)
(***************************************************************************)
EXTENDS Deployment, TLAPS

\* A lease is held for a build only, and a deployment has a token once it exists.
RowAgrees ==
    /\ row.live => row.status = "building"
    /\ row.status = "absent" <=> row.token = NoToken

\* Process n of host b does not start to compile t any more: it is doing so, it
\* has a result, or it is gone.
Spent(b, n, t) ==
    \/ builder[b].at = "building" /\ builder[b].token = t /\ builder[b].starts = n
    \/ disk[b][t] # NoResult
    \/ builder[b].starts > n

\* A token that was compiled once is not queued any more, and whoever holds it
\* has spent it.
CompiledIsSpent ==
    \A t \in Tokens :
        /\ builds[t] \in {0, 1}
        /\ builds[t] = 1 =>
             /\ t <= row.token
             /\ row.token = t =>
                  /\ row.status # "queued"
                  /\ \A b \in Builders, n \in Nat :
                       row.status = "building" /\ row.worker = <<b, n>> => Spent(b, n, t)

\* A result is never overwritten.
BuildingIsNew ==
    \A b \in Builders : builder[b].at = "building" => disk[b][builder[b].token] = NoResult

\* A late call says what is on the disk of its host.
LateIsTrue ==
    \A c \in late : c.result = "good" => disk[c.worker[1]][c.token] = "good"

\* An inference runs with the engine of the deployment.
RequestIsReady == request # NoArtifact => row.status = "ready" /\ request = row.compiled

IInv ==
    /\ TypeOK
    /\ RowAgrees
    /\ CompiledIsSpent
    /\ BuildingIsNew
    /\ LateIsTrue
    /\ RequestIsReady
    /\ ServedInProduction
    /\ BuildNotLost

-----------------------------------------------------------------------------
\* The steps of the row

\* What a step may do to the row: nothing, request a build, end an expired one,
\* grant a claim, store a completion that says what is on the disk of its
\* worker, renew a lease or let it run out.
RowStep ==
    \/ row' = row
    \/ \E t \in Tokens :
         /\ Queued(t) /\ model = "production"
         /\ row.status = "absent" \/ (row.status = "failed" /\ t = row.token + 1)
    \/ Expired /\ row' = [row EXCEPT !.status = "failed"]
    \/ \E t \in Tokens, w \in WorkerIds : Claimable(t, w) /\ row' = Claimed(w)
    \/ \E t \in Tokens, w \in WorkerIds, result \in Results :
         /\ Stores(t, w, result) /\ row' = Completed(t, w, result)
         /\ result = "good" => disk[w[1]][t] = "good"
    \/ row.live /\ \E live \in BOOLEAN : row' = [row EXCEPT !.live = live]

\* Every step is one of these, whichever actor takes it and however late a call
\* is executed.
LEMMA StepsOfRow == TypeOK /\ LateIsTrue /\ [Next]_vars => RowStep
<1> SUFFICES ASSUME TypeOK, LateIsTrue, [Next]_vars PROVE RowStep
  OBVIOUS
<1> USE DEF RowStep, builderVars, messageVars, inferenceVars
<1>1. ASSUME NEW b \in Builders, builder[b].at # "idle"
      PROVE TokenOf(b) \in Tokens /\ Id(b) \in WorkerIds /\ Id(b)[1] = b
  BY <1>1 DEF TypeOK, Builder, TokenOf, Id, WorkerIds
<1>2. CASE Create \/ Retry
  <2>1. \E t \in Tokens : Queued(t) /\ model = "production"
           /\ (row.status = "absent" \/ (row.status = "failed" /\ t = row.token + 1))
    BY <1>2 DEF Create, Retry
  <2> QED
    BY <2>1
<1>3. ASSUME NEW b \in Builders, ClaimCall(b) PROVE RowStep
  <2>1. CASE row' = row
    BY <2>1
  <2>2. CASE Claimable(TokenOf(b), Id(b)) /\ row' = Claimed(Id(b))
    <3>1. \E t \in Tokens, w \in WorkerIds : Claimable(t, w) /\ row' = Claimed(w)
      BY <1>1, <1>3, <2>2 DEF ClaimCall
    <3> QED
      BY <3>1
  <2> QED
    BY <1>3, <2>1, <2>2 DEF ClaimCall
<1>4. ASSUME NEW b \in Builders, Heartbeat(b) PROVE RowStep
  BY <1>4 DEF Heartbeat, Holds
<1>5. ASSUME NEW b \in Builders, CompleteCall(b) PROVE RowStep
  <2>1. CASE row' = row
    BY <2>1
  <2>2. CASE Stores(TokenOf(b), Id(b), Result(b)) /\ row' = Completed(TokenOf(b), Id(b), Result(b))
    <3>1. Result(b) \in Results /\ (Result(b) = "good" => disk[Id(b)[1]][TokenOf(b)] = "good")
      BY <1>1, <1>5, <2>2 DEF CompleteCall, Stores, Result, Results, Engines
    <3> QED
      BY <1>1, <1>5, <2>2, <3>1 DEF CompleteCall
  <2> QED
    BY <1>5, <2>1, <2>2 DEF CompleteCall
<1>6. ASSUME NEW b \in Builders, RefusedCall(b) PROVE RowStep
  BY <1>1, <1>6 DEF RefusedCall, Results
<1>7. ASSUME NEW c \in late, LateCall(c) PROVE RowStep
  <2>1. c \in Call
    BY DEF TypeOK
  <2>2. c.token \in Tokens /\ c.worker \in WorkerIds
    BY <2>1 DEF Call
  <2> QED
    BY <1>7, <2>2 DEF LateCall, LateIsTrue, Stores, Results, Engines
<1>8. CASE ExpireLease \/ Lapse
  BY <1>8 DEF ExpireLease, Lapse
<1>9. CASE row' = row
  BY <1>9
<1> QED
  BY <1>2, <1>3, <1>4, <1>5, <1>6, <1>7, <1>8, <1>9
  DEF Next, User, Relay, Work, BuilderFault, Archive, Dispatch, DispatchUnmarked, Deliver,
      Compile, BuildInterrupted, CallLost, Disconnect, Crash, LateCallDropped, Select, Record, vars

\* A step leaves the row a row.
LEMMA RowTyped == TypeOK /\ RowStep => row' \in Row
<1> SUFFICES ASSUME TypeOK, RowStep PROVE row' \in Row
  OBVIOUS
<1> USE DEF TypeOK, Row, Tokens, WorkerIds
<1>1. ASSUME NEW t \in Tokens, Queued(t) PROVE row' \in Row
  BY <1>1 DEF Queued
<1>2. ASSUME NEW w \in WorkerIds, row' = Claimed(w) PROVE row' \in Row
  BY <1>2 DEF Claimed
<1>3. ASSUME NEW t \in Tokens, NEW w \in WorkerIds, NEW result, row' = Completed(t, w, result)
      PROVE row' \in Row
  <2>1. <<t, w[1]>> \in Artifacts
    BY DEF Artifacts
  <2> QED
    BY <1>3, <2>1 DEF Completed
<1> QED
  BY <1>1, <1>2, <1>3 DEF RowStep

\* A lease and a token stay where they belong.
LEMMA RowAgreesPreserved == TypeOK /\ RowAgrees /\ RowStep => RowAgrees'
<1> SUFFICES ASSUME TypeOK, RowAgrees, RowStep PROVE RowAgrees'
  OBVIOUS
<1> USE DEF TypeOK, Row, RowAgrees
<1>1. ASSUME NEW t \in Tokens, Queued(t) PROVE RowAgrees'
  BY <1>1 DEF Queued, Tokens, NoToken
<1>2. ASSUME NEW t \in Tokens, NEW w \in WorkerIds, Claimable(t, w), row' = Claimed(w)
      PROVE RowAgrees'
  BY <1>2 DEF Claimable, Claimed
<1>3. ASSUME NEW t \in Tokens, NEW w \in WorkerIds, NEW result,
             Stores(t, w, result), row' = Completed(t, w, result)
      PROVE RowAgrees'
  BY <1>3 DEF Stores, Holds, Completed
<1> QED
  BY <1>1, <1>2, <1>3 DEF RowStep, Expired

\* What is ready stays as it is: a call is accepted for a build only, and what is
\* ready is neither requested again nor held under a lease.
LEMMA ReadyIsFinal == RowAgrees /\ RowStep /\ row.status = "ready" => row' = row
BY DEF RowAgrees, RowStep, Expired, Claimable, Stores, Holds


-----------------------------------------------------------------------------
\* The types of the other variables

\* What a busy builder works on is a build.
LEMMA BuilderTyped == TypeOK /\ [Next]_vars => builder' \in [Builders -> Builder]
<1> SUFFICES ASSUME TypeOK, [Next]_vars PROVE builder' \in [Builders -> Builder]
  OBVIOUS
<1> USE DEF TypeOK, builderVars, messageVars, inferenceVars
<1>1. CASE builder' = builder
  BY <1>1
<1>2. ASSUME NEW b \in Builders, NEW to \in Builder, builder' = [builder EXCEPT ![b] = to]
      PROVE builder' \in [Builders -> Builder]
  BY <1>2
<1>3. ASSUME NEW b \in Builders, Idle(b) PROVE builder' \in [Builders -> Builder]
  <2>1. Started(builder[b].starts) \in Builder
    BY DEF Started, Builder
  <2> QED
    BY <1>2, <1>3, <2>1 DEF Idle
<1>4. ASSUME NEW b \in Builders, builder[b].at # "idle",
             NEW at \in {"claiming", "building", "finishing", "refused"}, At(b, at)
      PROVE builder' \in [Builders -> Builder]
  <2>1. [builder[b] EXCEPT !.at = at] \in Builder
    BY <1>4 DEF Builder
  <2> QED
    BY <1>2, <1>4, <2>1 DEF At
<1>5. ASSUME NEW b \in Builders, Deliver(b) PROVE builder' \in [Builders -> Builder]
  <2>1. PICK t \in Tokens : builder' = [builder EXCEPT ![b].at = "claiming", ![b].token = t]
    BY <1>5 DEF Deliver
  <2>2. [builder[b] EXCEPT !.at = "claiming", !.token = t] \in Builder
    BY DEF Builder
  <2>3. builder' = [builder EXCEPT ![b] = [builder[b] EXCEPT !.at = "claiming", !.token = t]]
    BY <2>1
  <2> QED
    BY <1>2, <2>2, <2>3
<1>6. ASSUME NEW b \in Builders, Crash(b) PROVE builder' \in [Builders -> Builder]
  <2>1. Started(builder[b].starts + 1) \in Builder
    BY DEF Started, Builder
  <2> QED
    BY <1>2, <1>6, <2>1 DEF Crash
<1>7. ASSUME NEW b \in Builders, Work(b) \/ Heartbeat(b) \/ Disconnect(b) \/ CallLost(b)
      PROVE builder' \in [Builders -> Builder]
  BY <1>1, <1>3, <1>4, <1>5, <1>7 DEF Work, ClaimCall, Compile, Heartbeat, BuildInterrupted,
     CompleteCall, RefusedCall, Disconnect, CallLost, Ack, Requeue
<1> QED
  BY <1>1, <1>6, <1>7 DEF Next, User, Relay, BuilderFault, Create, Retry, Archive, Dispatch,
     DispatchUnmarked, ExpireLease, LateCall, LateCallDropped, Select, Record, Lapse, vars

\* Messages and compilations are counted for builds only.
LEMMA CountsTyped ==
    TypeOK /\ [Next]_vars =>
        /\ outbox' \in [Tokens -> {"none", "pending", "published"}]
        /\ queue' \in [Tokens -> Nat]
        /\ builds' \in [Tokens -> Nat]
<1> DEFINE Goal == /\ outbox' \in [Tokens -> {"none", "pending", "published"}]
                   /\ queue' \in [Tokens -> Nat]
                   /\ builds' \in [Tokens -> Nat]
<1> SUFFICES ASSUME TypeOK, [Next]_vars PROVE Goal
  OBVIOUS
<1> USE DEF TypeOK, builderVars, messageVars, inferenceVars
<1>1. ASSUME NEW t \in Tokens, NEW status \in {"pending", "published"},
             outbox' = [outbox EXCEPT ![t] = status]
      PROVE outbox' \in [Tokens -> {"none", "pending", "published"}]
  BY <1>1
<1>2. ASSUME NEW t \in Tokens, queue' = [queue EXCEPT ![t] = @ + 1] PROVE queue' \in [Tokens -> Nat]
  BY <1>2
<1>3. ASSUME NEW b \in Builders, builder[b].at # "idle" PROVE TokenOf(b) \in Tokens
  BY <1>3 DEF Builder, TokenOf
<1>4. CASE Create \/ Retry
  BY <1>1, <1>4 DEF Create, Retry, Queued
<1>5. CASE Dispatch \/ DispatchUnmarked
  BY <1>1, <1>2, <1>5 DEF Dispatch, DispatchUnmarked, Pending, Dispatched
<1>6. ASSUME NEW b \in Builders, Deliver(b) PROVE Goal
  BY <1>6 DEF Deliver
<1>7. ASSUME NEW b \in Builders, ClaimCall(b) PROVE Goal
  BY <1>3, <1>7 DEF ClaimCall, Ack
<1>8. ASSUME NEW b \in Builders, Crash(b) PROVE Goal
  BY <1>8 DEF Crash
<1>9. ASSUME NEW b \in Builders,
             BuildInterrupted(b) \/ CompleteCall(b) \/ RefusedCall(b) \/ Disconnect(b)
      PROVE Goal
  BY <1>2, <1>3, <1>9 DEF BuildInterrupted, CompleteCall, RefusedCall, Disconnect, Requeue, Ack
<1>10. CASE UNCHANGED <<outbox, queue, builds>>
  BY <1>10
<1> QED
  BY <1>4, <1>5, <1>6, <1>7, <1>8, <1>9, <1>10 DEF Next, User, Relay, Work, BuilderFault, Archive,
     ExpireLease, Heartbeat, Compile, CallLost, LateCall, LateCallDropped, Select, Record, Lapse, vars

\* Results are kept, and calls given up, for builds only, and faults are counted.
LEMMA ResultsTyped ==
    TypeOK /\ [Next]_vars =>
        /\ disk' \in [Builders -> [Tokens -> Results \cup {NoResult}]]
        /\ late' \subseteq Call
        /\ faults' \in 0..FaultLimit
<1> DEFINE Goal == /\ disk' \in [Builders -> [Tokens -> Results \cup {NoResult}]]
                   /\ late' \subseteq Call
                   /\ faults' \in 0..FaultLimit
<1> SUFFICES ASSUME TypeOK, [Next]_vars PROVE Goal
  OBVIOUS
<1> USE DEF TypeOK, builderVars, messageVars, inferenceVars
<1>1. ASSUME Faulty PROVE faults' \in 0..FaultLimit
  BY <1>1, ConstantsAssumption DEF Faulty
<1>2. ASSUME NEW b \in Builders, builder[b].at # "idle"
      PROVE TokenOf(b) \in Tokens /\ Id(b) \in WorkerIds /\ Result(b) \in Results \cup {NoResult}
  BY <1>2 DEF Builder, TokenOf, Id, WorkerIds, Result
<1>3. ASSUME NEW b \in Builders, Compile(b) \/ BuildInterrupted(b) PROVE Goal
  <2>1. PICK result \in Results : disk' = [disk EXCEPT ![b][TokenOf(b)] = result]
    BY <1>3 DEF Compile, BuildInterrupted, Results
  <2>2. TokenOf(b) \in Tokens
    BY <1>2, <1>3 DEF Compile, BuildInterrupted
  <2>3. disk' \in [Builders -> [Tokens -> Results \cup {NoResult}]]
    BY <2>1, <2>2
  <2> QED
    BY <1>3, <2>3 DEF Compile, BuildInterrupted
<1>4. ASSUME NEW b \in Builders, CallLost(b) PROVE Goal
  <2>1. Reported(b) \in Results \cup {NoResult}
    BY <1>2, <1>4 DEF CallLost, Reported, Results
  <2>2. late' \subseteq Call
    BY <1>2, <1>4, <2>1 DEF CallLost, Call
  <2> QED
    BY <1>1, <1>4, <2>2 DEF CallLost
<1>5. CASE UNCHANGED disk /\ late' \subseteq late /\ (Faulty \/ UNCHANGED faults)
  BY <1>1, <1>5
<1> QED
  BY <1>3, <1>4, <1>5 DEF Next, User, Relay, Work, BuilderFault, Create, Retry, Archive, Dispatch,
     DispatchUnmarked, ExpireLease, Deliver, ClaimCall, Heartbeat, CompleteCall, RefusedCall,
     Disconnect, Crash, LateCall, LateCallDropped, Select, Record, Lapse, vars

\* The model and its inferences.
LEMMA InferenceTyped ==
    TypeOK /\ [Next]_vars =>
        /\ model' \in {"production", "archived"}
        /\ request' \in Artifacts \cup {NoArtifact}
        /\ served' \subseteq Artifacts \X {"production", "archived"}
<1> DEFINE Goal == /\ model' \in {"production", "archived"}
                   /\ request' \in Artifacts \cup {NoArtifact}
                   /\ served' \subseteq Artifacts \X {"production", "archived"}
<1> SUFFICES ASSUME TypeOK, [Next]_vars PROVE Goal
  OBVIOUS
<1> USE DEF TypeOK, builderVars, messageVars, inferenceVars
<1>1. CASE Archive
  BY <1>1 DEF Archive
<1>2. CASE Select
  BY <1>2 DEF Select, Row
<1>3. CASE Record
  BY <1>3 DEF Record
<1>4. CASE UNCHANGED <<model, request, served>>
  BY <1>4
<1> QED
  BY <1>1, <1>2, <1>3, <1>4 DEF Next, User, Relay, Work, BuilderFault, Create, Retry, Dispatch,
     DispatchUnmarked, ExpireLease, Deliver, ClaimCall, Compile, Heartbeat, BuildInterrupted,
     CompleteCall, RefusedCall, CallLost, Disconnect, Crash, LateCall, LateCallDropped, Lapse, vars

\* Hence a step keeps every variable what it is.
LEMMA TypesPreserved == TypeOK /\ LateIsTrue /\ [Next]_vars => TypeOK'
BY StepsOfRow, RowTyped, BuilderTyped, CountsTyped, ResultsTyped, InferenceTyped DEF TypeOK

-----------------------------------------------------------------------------
\* The invariant

\* A build whose result is to be kept had none: it is compiled where there is
\* none, and a builder has one build at a time.
LEMMA BuildingIsNewPreserved == TypeOK /\ BuildingIsNew /\ [Next]_vars => BuildingIsNew'
<1> SUFFICES ASSUME TypeOK, BuildingIsNew, [Next]_vars,
                    NEW h \in Builders, builder'[h].at = "building"
             PROVE disk'[h][builder'[h].token] = NoResult
  BY DEF BuildingIsNew
<1> USE DEF TypeOK, BuildingIsNew, builderVars, messageVars, inferenceVars, TokenOf, Builder
<1>1. CASE UNCHANGED <<builder[h], disk[h]>>
  BY <1>1
<1>2. ASSUME NEW b \in Builders, ClaimCall(b) PROVE disk'[h][builder'[h].token] = NoResult
  <2>1. CASE b # h
    BY <1>1, <1>2, <2>1 DEF ClaimCall, At, Ack, Idle
  <2>2. CASE b = h
    <3>1. At(h, "building") /\ Result(h) = NoResult /\ disk' = disk
      BY <1>2, <2>2 DEF ClaimCall, At, Ack, Idle, Started
    <3> QED
      BY <3>1 DEF At, Result
  <2> QED
    BY <2>1, <2>2
<1>3. ASSUME NEW b \in Builders, Compile(b) \/ BuildInterrupted(b)
      PROVE disk'[h][builder'[h].token] = NoResult
  <2>1. b # h
    BY <1>3 DEF Compile, BuildInterrupted, At, Requeue, Idle, Started
  <2>2. builder'[h] = builder[h] /\ disk'[h] = disk[h]
    BY <1>3, <2>1 DEF Compile, BuildInterrupted, At, Requeue, Idle
  <2> QED
    BY <1>1, <2>2
<1>4. ASSUME NEW b \in Builders, Deliver(b) PROVE disk'[h][builder'[h].token] = NoResult
  BY <1>4 DEF Deliver
<1>5. ASSUME NEW b \in Builders,
             CompleteCall(b) \/ RefusedCall(b) \/ Disconnect(b) \/ Crash(b)
      PROVE disk'[h][builder'[h].token] = NoResult
  BY <1>5 DEF CompleteCall, RefusedCall, Disconnect, Crash, Ack, Requeue, Idle, Started, At
<1> QED
  BY <1>1, <1>2, <1>3, <1>4, <1>5 DEF Next, User, Relay, Work, BuilderFault, Create, Retry, Archive,
     Dispatch, DispatchUnmarked, ExpireLease, Heartbeat, CallLost, LateCall, LateCallDropped,
     Select, Record, Lapse, vars

\* Results change from none to some only.
LEMMA ResultsAreKept ==
    TypeOK /\ BuildingIsNew /\ [Next]_vars =>
        \A b \in Builders, t \in Tokens : disk[b][t] # NoResult => disk'[b][t] = disk[b][t]
<1> SUFFICES ASSUME TypeOK, BuildingIsNew, [Next]_vars,
                    NEW h \in Builders, NEW t \in Tokens, disk[h][t] # NoResult
             PROVE disk'[h][t] = disk[h][t]
  OBVIOUS
<1>1. ASSUME NEW b \in Builders, Compile(b) \/ BuildInterrupted(b) PROVE disk'[h][t] = disk[h][t]
  BY <1>1 DEF TypeOK, BuildingIsNew, Compile, BuildInterrupted, TokenOf
<1>2. CASE UNCHANGED disk
  BY <1>2
<1> QED
  BY <1>1, <1>2 DEF builderVars, Next, User, Relay, Work, BuilderFault, Create, Retry, Archive,
     Dispatch, DispatchUnmarked, ExpireLease, Deliver, ClaimCall, Heartbeat, CompleteCall, RefusedCall,
     CallLost, Disconnect, Crash, LateCall, LateCallDropped, Select, Record, Lapse, vars

\* A call says what was on the disk when it was given up, which is kept.
LEMMA LatePreserved == TypeOK /\ BuildingIsNew /\ LateIsTrue /\ [Next]_vars => LateIsTrue'
<1> SUFFICES ASSUME TypeOK, BuildingIsNew, LateIsTrue, [Next]_vars,
                    NEW c \in late', c.result = "good"
             PROVE disk'[c.worker[1]][c.token] = "good"
  BY DEF LateIsTrue
<1>1. CASE c \in late
  <2>1. c.worker[1] \in Builders /\ c.token \in Tokens
    BY <1>1 DEF TypeOK, Call, WorkerIds
  <2> QED
    BY <1>1, <2>1, ResultsAreKept DEF LateIsTrue, NoResult
<1>2. ASSUME NEW b \in Builders, CallLost(b), c \notin late
      PROVE disk'[c.worker[1]][c.token] = "good"
  BY <1>2 DEF CallLost, builderVars, Reported, Result, Id, NoResult
<1>3. CASE late' \subseteq late
  BY <1>1, <1>3
<1> QED
  BY <1>1, <1>2, <1>3 DEF Next, User, Relay, Work, BuilderFault, Create, Retry, Archive,
     Dispatch, DispatchUnmarked, ExpireLease, Deliver, ClaimCall, Compile, BuildInterrupted,
     Heartbeat, CompleteCall, RefusedCall, Disconnect, Crash, LateCall, LateCallDropped,
     Select, Record, Lapse, vars

\* Inference only reads what is ready, and what is ready stays.
LEMMA InferencePreserved ==
    RowAgrees /\ RequestIsReady /\ ServedInProduction /\ RowStep /\ [Next]_vars =>
        RequestIsReady' /\ ServedInProduction'
<1> SUFFICES ASSUME RowAgrees, RequestIsReady, ServedInProduction, RowStep, [Next]_vars
             PROVE RequestIsReady' /\ ServedInProduction'
  OBVIOUS
<1> USE DEF RequestIsReady, ServedInProduction
<1>1. CASE Select
  BY <1>1 DEF Select, inferenceVars
<1>2. CASE Record
  BY <1>2 DEF Record, Usable
<1>3. CASE UNCHANGED <<request, served>>
  BY <1>3, ReadyIsFinal
<1> QED
  BY <1>1, <1>2, <1>3 DEF inferenceVars, Next, User, Relay, Work, BuilderFault, Create, Retry, Archive,
     Dispatch, DispatchUnmarked, ExpireLease, Deliver, ClaimCall, Compile, BuildInterrupted,
     Heartbeat, CallLost, CompleteCall, RefusedCall, Disconnect, Crash, LateCall, LateCallDropped, Lapse, vars

\* Whoever does not start to compile a build any more never does again.
LEMMA SpentStays ==
    TypeOK /\ BuildingIsNew /\ [Next]_vars =>
        \A b \in Builders, n \in Nat, t \in Tokens : Spent(b, n, t) => Spent(b, n, t)'
<1> SUFFICES ASSUME TypeOK, BuildingIsNew, [Next]_vars,
                    NEW h \in Builders, NEW n \in Nat, NEW t \in Tokens, Spent(h, n, t)
             PROVE Spent(h, n, t)'
  OBVIOUS
<1> USE DEF TypeOK, Builder, Spent, builderVars
<1>1. CASE disk[h][t] # NoResult
  BY <1>1, ResultsAreKept
<1>2. CASE disk' = disk /\ builder'[h] = builder[h]
  BY <1>2
<1>3. ASSUME NEW b \in Builders, Compile(b) \/ BuildInterrupted(b) PROVE Spent(h, n, t)'
  <2>1. CASE b = h /\ builder[h].token = t
    <3>1. disk'[h][t] \in Results
      BY <1>3, <2>1 DEF Compile, BuildInterrupted, TokenOf, Results
    <3> QED
      BY <3>1 DEF Results, Engines, NoResult
  <2>2. CASE b = h /\ builder[h].token # t
    <3>1. builder[h].starts > n \/ disk[h][t] # NoResult
      BY <2>2
    <3>2. builder'[h].starts = builder[h].starts
      BY <1>3, <2>2 DEF Compile, BuildInterrupted, At, Requeue, Idle, Started
    <3> QED
      BY <1>1, <3>1, <3>2
  <2>3. CASE b # h
    <3>1. builder'[h] = builder[h] /\ disk'[h] = disk[h]
      BY <1>3, <2>3 DEF Compile, BuildInterrupted, At, Requeue, Idle
    <3> QED
      BY <3>1
  <2> QED
    BY <2>1, <2>2, <2>3
<1>4. ASSUME NEW b \in Builders, Crash(b) PROVE Spent(h, n, t)'
  BY <1>4 DEF Crash, Started
<1>5. ASSUME NEW b \in Builders, builder[b].at # "building", disk' = disk,
             \/ \E at \in {"building", "finishing", "refused"} : At(b, at)
             \/ Idle(b)
             \/ Deliver(b)
      PROVE Spent(h, n, t)'
  <2>1. builder'[h] = builder[h] \/ (h = b /\ builder'[h].starts = builder[h].starts)
    BY <1>5 DEF At, Idle, Deliver, Started
  <2> QED
    BY <1>2, <1>5, <2>1
<1>6. ASSUME NEW b \in Builders,
             Deliver(b) \/ ClaimCall(b) \/ CompleteCall(b) \/ RefusedCall(b) \/ Disconnect(b)
      PROVE Spent(h, n, t)'
  BY <1>5, <1>6 DEF Deliver, ClaimCall, CompleteCall, RefusedCall, Disconnect, Ack, Requeue
<1> QED
  BY <1>2, <1>3, <1>4, <1>6 DEF Next, User, Relay, Work, BuilderFault, Create, Retry, Archive,
     Dispatch, DispatchUnmarked, ExpireLease, Heartbeat, CallLost, LateCall, LateCallDropped,
     Select, Record, Lapse, vars

\* A compilation starts with a claim that is granted where there is no result.
LEMMA BuildsChange ==
    [Next]_vars => builds' = builds \/ \E b \in Builders :
        /\ builder[b].at = "claiming" /\ Result(b) = NoResult /\ disk' = disk
        /\ Claimable(TokenOf(b), Id(b)) /\ row' = Claimed(Id(b)) /\ At(b, "building")
        /\ builds' = [builds EXCEPT ![TokenOf(b)] = @ + 1]
BY DEF ClaimCall, builderVars, Next, User, Relay, Work, BuilderFault, Create, Retry, Archive,
   Dispatch, DispatchUnmarked, ExpireLease, Deliver, Compile, Heartbeat, BuildInterrupted,
   CompleteCall, RefusedCall, CallLost, Disconnect, Crash, LateCall, LateCallDropped,
   Select, Record, Lapse, vars

\* No step queues a token again, and a build that is being made changes hands
\* only between claims of the same process.
LEMMA TokensGrow ==
    TypeOK /\ RowAgrees /\ RowStep =>
        /\ row.token <= row'.token
        /\ row'.token = row.token /\ row.status # "queued" /\ row'.status \in {"queued", "building"} =>
             row.status = "building" /\ row'.status = "building" /\ row'.worker = row.worker
<1> SUFFICES ASSUME TypeOK, RowAgrees, RowStep
             PROVE /\ row.token <= row'.token
                   /\ row'.token = row.token /\ row.status # "queued"
                        /\ row'.status \in {"queued", "building"} =>
                        row.status = "building" /\ row'.status = "building" /\ row'.worker = row.worker
  OBVIOUS
<1> USE DEF TypeOK, RowAgrees, Row, Tokens, NoToken
<1>1. ASSUME NEW t \in Tokens, Queued(t), row.status = "absent" \/ t = row.token + 1
      PROVE row.token < row'.token
  BY <1>1 DEF Queued
<1>2. ASSUME NEW t \in Tokens, NEW w \in WorkerIds, Claimable(t, w), row' = Claimed(w)
      PROVE /\ row'.token = row.token
            /\ row.status # "queued" =>
                 row.status = "building" /\ row'.status = "building" /\ row'.worker = row.worker
  BY <1>2 DEF Claimable, Claimed
<1>3. ASSUME NEW t \in Tokens, NEW w \in WorkerIds, NEW result,
             Stores(t, w, result), row' = Completed(t, w, result)
      PROVE row'.token = row.token /\ row'.status \in {"ready", "failed"}
  BY <1>3 DEF Stores, Holds, Completed
<1>4. ASSUME NEW live \in BOOLEAN, row.live, row' = [row EXCEPT !.live = live]
      PROVE /\ row'.token = row.token /\ row'.status = row.status /\ row'.worker = row.worker
            /\ row.status = "building"
  BY <1>4
<1>5. ASSUME row' = row \/ row' = [row EXCEPT !.status = "failed"]
      PROVE row'.token = row.token /\ (row' = row \/ row'.status = "failed")
  BY <1>5
<1>6. row.token \in Nat /\ row'.token \in Nat
  BY RowTyped
<1>7. row'.token = row.token \/ row.token < row'.token
  BY <1>1, <1>2, <1>3, <1>4, <1>5 DEF RowStep
<1> QED
  BY <1>1, <1>2, <1>3, <1>4, <1>5, <1>6, <1>7 DEF RowStep

\* A token is compiled once: who may claim it again has already spent it.
LEMMA CompiledIsSpentPreserved ==
    /\ TypeOK /\ RowAgrees /\ BuildingIsNew /\ CompiledIsSpent
    /\ RowStep /\ [Next]_vars
    => CompiledIsSpent'
<1> SUFFICES ASSUME TypeOK, RowAgrees, BuildingIsNew, CompiledIsSpent, RowStep, [Next]_vars,
                    row' \in Row, NEW t \in Tokens
             PROVE /\ builds'[t] \in {0, 1}
                   /\ builds'[t] = 1 =>
                        /\ t <= row'.token
                        /\ row'.token = t =>
                             /\ row'.status # "queued"
                             /\ \A b \in Builders, n \in Nat :
                                  row'.status = "building" /\ row'.worker = <<b, n>> => Spent(b, n, t)'
  BY RowTyped DEF CompiledIsSpent
<1>1. builds[t] \in {0, 1}
  BY DEF CompiledIsSpent
<1>2. row.token \in Nat /\ row'.token \in Nat /\ t \in Nat
  BY DEF TypeOK, Row, Tokens, NoToken
<1>3. ASSUME builds[t] = 1, builds'[t] = 1
      PROVE /\ t <= row'.token
            /\ row'.token = t =>
                 /\ row'.status # "queued"
                 /\ \A b \in Builders, n \in Nat :
                      row'.status = "building" /\ row'.worker = <<b, n>> => Spent(b, n, t)'
  <2>1. t <= row.token /\ row.token <= row'.token
    BY <1>3, TokensGrow DEF CompiledIsSpent
  <2>2. ASSUME row'.token = t PROVE row.token = t /\ row.status # "queued"
    BY <1>2, <1>3, <2>1, <2>2 DEF CompiledIsSpent
  <2>3. ASSUME row'.token = t, row'.status \in {"queued", "building"}
        PROVE row.status = "building" /\ row'.status = "building" /\ row'.worker = row.worker
    BY <2>2, <2>3, TokensGrow
  <2>4. ASSUME row'.token = t, NEW b \in Builders, NEW n \in Nat,
               row'.status = "building", row'.worker = <<b, n>>
        PROVE Spent(b, n, t)'
    <3>1. Spent(b, n, t)
      BY <1>3, <2>2, <2>3, <2>4 DEF CompiledIsSpent
    <3> QED
      BY <3>1, SpentStays
  <2> QED
    BY <1>2, <2>1, <2>3, <2>4
<1>4. CASE builds' = builds
  BY <1>1, <1>3, <1>4
<1>5. ASSUME NEW b \in Builders,
             builder[b].at = "claiming" /\ Result(b) = NoResult /\ disk' = disk,
             Claimable(TokenOf(b), Id(b)) /\ row' = Claimed(Id(b)) /\ At(b, "building"),
             builds' = [builds EXCEPT ![TokenOf(b)] = @ + 1]
      PROVE /\ builds'[t] \in {0, 1}
            /\ builds'[t] = 1 =>
                 /\ t <= row'.token
                 /\ row'.token = t =>
                      /\ row'.status # "queued"
                      /\ \A h \in Builders, n \in Nat :
                           row'.status = "building" /\ row'.worker = <<h, n>> => Spent(h, n, t)'
  <2>1. CASE t # TokenOf(b)
    <3>1. builds'[t] = builds[t]
      BY <1>5, <2>1 DEF TypeOK
    <3> QED
      BY <1>1, <1>3, <3>1
  <2>2. CASE t = TokenOf(b)
    <3>1. row'.token = t /\ row.token = t /\ row'.status = "building" /\ row'.worker = Id(b)
      BY <1>5, <2>2 DEF Claimable, Claimed, TypeOK, Row
    <3>2. ASSUME NEW n \in Nat, n = builder[b].starts PROVE Spent(b, n, t)'
      BY <1>5, <2>2, <3>2 DEF Spent, At, TypeOK, Builder, TokenOf
    <3>3. builder[b].starts \in Nat /\ ~Spent(b, builder[b].starts, t)
      BY <1>5, <2>2 DEF Spent, Result, TypeOK, Builder, TokenOf
    <3>4. builds[t] = 0
      <4>1. CASE builds[t] = 1
        <5>1. row.status = "building" /\ row.worker = <<b, builder[b].starts>>
          BY <1>5, <2>2, <3>1, <4>1 DEF CompiledIsSpent, Claimable, Id
        <5> QED
          BY <3>1, <3>3, <4>1, <5>1 DEF CompiledIsSpent
      <4> QED
        BY <1>1, <4>1
    <3>5. builds'[t] = 1
      BY <1>5, <2>2, <3>4 DEF TypeOK
    <3>6. ASSUME NEW h \in Builders, NEW n \in Nat, row'.worker = <<h, n>> PROVE Spent(h, n, t)'
      <4>1. h = b /\ n = builder[b].starts
        BY <3>1, <3>6 DEF Id
      <4> QED
        BY <3>2, <4>1
    <3> QED
      BY <1>2, <3>1, <3>5, <3>6
  <2> QED
    BY <2>1, <2>2
<1> QED
  BY <1>4, <1>5, BuildsChange

\* A queued build can be found: its message is published before it is marked,
\* delivered before it leaves the queue, and returned or claimed by whoever has it.
LEMMA BuildNotLostPreserved ==
    TypeOK /\ RowAgrees /\ BuildNotLost /\ RowStep /\ [Next]_vars => BuildNotLost'
<1> SUFFICES ASSUME TypeOK, RowAgrees, BuildNotLost, RowStep, [Next]_vars,
                    row'.status = "queued", model' = "production"
             PROVE \/ outbox'[row'.token] = "pending"
                   \/ queue'[row'.token] > 0
                   \/ \E b \in Builders :
                        builder'[b].token = row'.token /\ builder'[b].at = "claiming"
  BY DEF BuildNotLost, TokenOf
<1> USE DEF TypeOK, TokenOf, messageVars, builderVars
<1>1. ASSUME NEW t \in Tokens, Queued(t)
      PROVE outbox'[row'.token] = "pending"
  BY <1>1 DEF Queued, Row
<1>2. CASE row' = row
  <2> DEFINE t == row.token
             Found == \/ outbox'[t] = "pending"
                      \/ queue'[t] > 0
                      \/ \E b \in Builders : builder'[b].token = t /\ builder'[b].at = "claiming"
  <2>1. t \in Tokens
    BY <1>2 DEF RowAgrees, Row
  <2>2. model = "production"
    BY DEF builderVars, inferenceVars, Next, User, Relay, Work, BuilderFault, Create, Retry, Archive,
       Dispatch, DispatchUnmarked, ExpireLease, Deliver, ClaimCall, Compile, Heartbeat,
       BuildInterrupted, CompleteCall, RefusedCall, CallLost, Disconnect, Crash, LateCall,
       LateCallDropped, Select, Record, Lapse, vars
  <2>3. \/ outbox[t] = "pending"
        \/ queue[t] > 0
        \/ \E b \in Builders : builder[b].token = t /\ builder[b].at = "claiming"
    BY <1>2, <2>2 DEF BuildNotLost
  <2>4. CASE UNCHANGED <<outbox, queue, builder>>
    BY <1>2, <2>3, <2>4
  <2>5. CASE Create \/ Retry
    BY <1>1, <1>2, <2>5 DEF Create, Retry
  <2>6. CASE Dispatch
    BY <2>1, <2>3, <2>6 DEF Dispatch, Dispatched, Pending
  <2>7. CASE DispatchUnmarked
    BY <2>1, <2>3, <2>7 DEF DispatchUnmarked, Pending
  <2>8. ASSUME NEW b \in Builders, Deliver(b) PROVE Found
    <3>1. PICK u \in Tokens : /\ queue' = [queue EXCEPT ![u] = @ - 1]
                              /\ builder' = [builder EXCEPT ![b].at = "claiming", ![b].token = u]
                              /\ builder[b].at = "idle" /\ outbox' = outbox
      BY <2>8 DEF Deliver
    <3>2. CASE u = t
      BY <3>1, <3>2 DEF Builder
    <3>3. CASE u # t
      BY <2>1, <2>3, <3>1, <3>3
    <3> QED
      BY <3>2, <3>3
  <2>9. ASSUME NEW b \in Builders, builder[b].at # "claiming", outbox' = outbox,
               queue' = queue \/ \E u \in Tokens : queue' = [queue EXCEPT ![u] = @ + 1],
               \A h \in Builders \ {b} : builder'[h] = builder[h]
        PROVE Found
    <3>1. queue[t] > 0 => queue'[t] > 0
      BY <2>1, <2>9
    <3> QED
      BY <2>3, <2>9, <3>1
  <2>10. ASSUME NEW b \in Builders, ClaimCall(b) PROVE Found
    <3>1. CASE builder[b].token = t
      <4>1. row'.status = "building"
        BY <1>2, <2>2, <2>10, <3>1 DEF ClaimCall, Claimable, Claimed, Row
      <4> QED
        BY <4>1
    <3>2. CASE builder[b].token # t
      <4>1. outbox' = outbox /\ queue' = queue /\ \A h \in Builders \ {b} : builder'[h] = builder[h]
        BY <2>10 DEF ClaimCall, At, Ack, Idle
      <4> QED
        BY <2>3, <3>2, <4>1
    <3> QED
      BY <3>1, <3>2
  <2>11. ASSUME NEW b \in Builders,
                Compile(b) \/ BuildInterrupted(b) \/ CompleteCall(b) \/ RefusedCall(b)
         PROVE Found
    <3>1. builder[b].token \in Tokens /\ builder[b].at # "claiming" /\ outbox' = outbox
      BY <2>11 DEF Builder, Compile, BuildInterrupted, CompleteCall, RefusedCall
    <3>2. queue' = queue \/ \E u \in Tokens : queue' = [queue EXCEPT ![u] = @ + 1]
      BY <2>11, <3>1 DEF Compile, BuildInterrupted, CompleteCall, RefusedCall, Ack, Requeue
    <3>3. \A h \in Builders \ {b} : builder'[h] = builder[h]
      BY <2>11 DEF Compile, BuildInterrupted, CompleteCall, RefusedCall, At, Ack, Requeue, Idle
    <3> QED
      BY <2>9, <3>1, <3>2, <3>3
  <2>12. ASSUME NEW b \in Builders, Disconnect(b) \/ Crash(b) PROVE Found
    <3>1. outbox' = outbox /\ \A h \in Builders \ {b} : builder'[h] = builder[h]
      BY <2>12 DEF Disconnect, Crash, Requeue, Idle
    <3>2. queue'[t] >= queue[t] /\ (builder[b].token = t => queue'[t] > 0)
      BY <2>1, <2>12 DEF Disconnect, Crash, Requeue, Builder
    <3>3. queue[t] \in Nat /\ queue'[t] \in Nat
      BY <2>1, <2>12 DEF Disconnect, Crash, Requeue, Builder
    <3>4. queue[t] > 0 => queue'[t] > 0
      BY <3>2, <3>3
    <3>5. ASSUME NEW h \in Builders, builder[h].token = t, builder[h].at = "claiming" PROVE Found
      BY <3>1, <3>2, <3>5
    <3> QED
      BY <2>3, <3>1, <3>4, <3>5
  <2> QED
    BY <1>2, <2>4, <2>5, <2>6, <2>7, <2>8, <2>10, <2>11, <2>12
    DEF Next, User, Relay, Work, BuilderFault, Archive, ExpireLease, Heartbeat, CallLost, LateCall,
        LateCallDropped, Select, Record, Lapse, vars
<1> QED
  BY <1>1, <1>2 DEF RowAgrees, Row, RowStep, Expired, Claimable, Claimed, Stores, Holds, Completed

-----------------------------------------------------------------------------
\* Nothing was done yet.
LEMMA InitEstablishes == Init => IInv
<1> SUFFICES ASSUME Init PROVE IInv
  OBVIOUS
<1> USE DEF Init
<1>1. row \in Row
  BY DEF Row, NoRow
<1>2. builder \in [Builders -> Builder]
  BY DEF Builder, Started
<1>3. TypeOK
  BY <1>1, <1>2, ConstantsAssumption DEF TypeOK
<1>4. RowAgrees /\ CompiledIsSpent /\ BuildingIsNew /\ LateIsTrue /\ RequestIsReady
  BY DEF RowAgrees, CompiledIsSpent, BuildingIsNew, LateIsTrue, RequestIsReady, NoRow, Started
<1>5. ServedInProduction /\ BuildNotLost
  BY DEF ServedInProduction, BuildNotLost, NoRow
<1> QED
  BY <1>3, <1>4, <1>5 DEF IInv

\* Each part is kept by the steps that touch it.
LEMMA StepPreserves == IInv /\ [Next]_vars => IInv'
BY StepsOfRow, TypesPreserved, RowAgreesPreserved, BuildingIsNewPreserved, LatePreserved,
   InferencePreserved, CompiledIsSpentPreserved, BuildNotLostPreserved DEF IInv

\* The argument of the header: the invariant holds in every reachable state.
LEMMA InvariantHolds == Spec => []IInv
BY InitEstablishes, StepPreserves, PTL DEF Spec

\* Rows, messages and processes hold values of their kinds.
THEOREM TypesAreCorrect == Spec => []TypeOK
<1>1. IInv => TypeOK
  BY DEF IInv
<1> QED
  BY <1>1, InvariantHolds, PTL

\* However often a message is delivered, to however many builders, and however
\* late a claim or a completion is executed, a token is compiled once.
THEOREM TokensAreCompiledOnce == Spec => []CompiledOnce
<1>1. IInv => CompiledOnce
  BY DEF IInv, CompiledIsSpent, CompiledOnce
<1> QED
  BY <1>1, InvariantHolds, PTL

\* An inference is recorded for a published model and the deployment's engine
\* only, although both are read before the prediction.
THEOREM ServedModelsArePublished == Spec => []ServedInProduction
<1>1. IInv => ServedInProduction
  BY DEF IInv
<1> QED
  BY <1>1, InvariantHolds, PTL

\* A queued deployment is never left without a message or a builder that has it.
THEOREM QueuedBuildsAreFound == Spec => []BuildNotLost
<1>1. IInv => BuildNotLost
  BY DEF IInv
<1> QED
  BY <1>1, InvariantHolds, PTL

\* A deployment becomes ready with the verified engine of its last build, from
\* the worker that holds it, and keeps it.
THEOREM ActivationsAreFenced == Spec => ActivationIsFenced
<1> DEFINE Fenced ==
      /\ row.status # "ready" /\ row'.status = "ready" =>
           /\ row'.compiled[1] = row.token
           /\ row'.compiled[2] = row.worker[1]
           /\ disk[row.worker[1]][row.token] = "good"
           /\ row.live /\ model = "production"
      /\ row.status = "ready" => row' = row
<1>1. IInv /\ [Next]_vars => [Fenced]_vars
  <2> SUFFICES ASSUME IInv, RowStep PROVE Fenced
    BY StepsOfRow DEF IInv
  <2>1. row \in Row
    BY DEF IInv, TypeOK
  <2>2. row.status = "ready" => row' = row
    BY ReadyIsFinal DEF IInv
  <2>3. ASSUME NEW t \in Tokens, NEW w \in WorkerIds, NEW result \in Results,
               Stores(t, w, result), row' = Completed(t, w, result), row'.status = "ready",
               result = "good" => disk[w[1]][t] = "good"
        PROVE Fenced
    BY <2>1, <2>2, <2>3 DEF Stores, Holds, Completed, Row
  <2>4. ASSUME row.status # "ready", row'.status = "ready"
        PROVE \E t \in Tokens, w \in WorkerIds, result \in Results :
                /\ Stores(t, w, result) /\ row' = Completed(t, w, result)
                /\ result = "good" => disk[w[1]][t] = "good"
    BY <2>1, <2>4 DEF RowStep, Queued, Expired, Claimable, Claimed, Row
  <2> QED
    BY <2>2, <2>3, <2>4
<1> QED
  BY <1>1, InvariantHolds, PTL DEF Spec, ActivationIsFenced

=============================================================================
