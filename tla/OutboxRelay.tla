----------------------------- MODULE OutboxRelay -----------------------------
(***************************************************************************)
(* The outbox of the control plane and the relays that publish it to       *)
(* RabbitMQ (outbox/relay.go, postgres/outbox_store.go,                    *)
(* rabbitmq/publisher.go, cmd/outbox-relay/main.go).                       *)
(*                                                                         *)
(* A relay locks a batch of due events for LockTTL seconds, publishes them *)
(* one by one, waits for the broker's confirm and marks the row.  It reads *)
(* the clock once per batch, so the lock and the backoff are counted from  *)
(* the start of the batch.  Relays run concurrently, crash, lose their     *)
(* connection or the answer of the broker or of the database.              *)
(*                                                                         *)
(* A relay publishes on one channel for as long as it runs, and every call *)
(* of Publish leaves two listeners of capacity one on it.  The client's    *)
(* reader hands every confirm and every return to all listeners and waits  *)
(* for room, so the channels of earlier calls fill up until it stops; from *)
(* then on Publish waits on the context of the process, which never ends.  *)
(*                                                                         *)
(* Times are kept relative to the present: Elapse lets a second pass for   *)
(* all of them.  A time that passed long ago is kept at a limit beyond     *)
(* which no guard tells it apart, so behaviours never run out of time.     *)
(***************************************************************************)
EXTENDS Integers, FiniteSets

CONSTANTS
    Events,      \* rows that may be inserted
    Relays,      \* relay processes
    LockTTL,     \* how long a batch is locked (60 seconds)
    BatchLimit,  \* rows per batch (50)
    BackoffCap,  \* failures after which the backoff stops doubling (6)
    MaxDelay,    \* bound: how far ahead an event may be scheduled
    MaxStall,    \* how old a clock reading may be when it is used
    FaultLimit   \* bound: crashes, overrun locks, lost connections, lost answers, messages
                 \* that are refused or find no queue

ASSUME ConstantsAssumption ==
    /\ {LockTTL, BatchLimit} \subseteq Nat \ {0}
    /\ {BackoffCap, MaxDelay, MaxStall, FaultLimit} \subseteq Nat

VARIABLES
    row,       \* outbox_events
    relay,     \* the relay processes
    stored,    \* events of which the broker has stored at least one copy
    returned,  \* events that the broker returned because no queue takes them
    faults     \* faults so far

vars == <<row, relay, stored, returned, faults>>

-----------------------------------------------------------------------------
NoRelay == "no relay"
NoEvent == "no event"

ASSUME NamesAssumption == NoRelay \notin Relays /\ NoEvent \notin Events

Backoff(failures) == 2 ^ (IF failures < BackoffCap THEN failures ELSE BackoffCap)

\* Older readings are not told apart: by then every lock of the batch has lapsed
\* and every backoff counted from it is over.
MaxAge == MaxStall + (IF LockTTL > Backoff(BackoffCap) THEN LockTTL ELSE Backoff(BackoffCap))

\* A time that passed, as seen by the oldest clock reading in use.
Passed(seconds) == IF seconds < -MaxStall THEN -MaxStall ELSE seconds

\* lockLeft: seconds until the lock lapses.
Row == [status : {"absent", "pending", "published", "deleted"},
        dueIn : -MaxStall..MaxDelay \cup -MaxStall..2 ^ BackoffCap,
        owner : Relays \cup {NoRelay}, lockLeft : -MaxStall..LockTTL,
        failures : 0..BackoffCap]

\* confirms: the confirm channels of the calls of Publish so far: there are none;
\* each has room; one is full, so that the next confirm blocks the reader of the
\* client; the reader is blocked.  returns: a return channel is full.
Channel == [open : BOOLEAN, confirms : {"none", "room", "full", "blocked"}, returns : BOOLEAN]

\* age: how long ago the batch read the clock; current: the event that was
\* published last and is not marked yet; answer: what Publish returned of it.
Relay == [channel : Channel, age : 0..MaxAge, batch : SUBSET Events,
          current : Events \cup {NoEvent}, answer : {"none", "waiting", "ack", "error"}]

\* Rows and relays hold values of these kinds; no event is ever scheduled further
\* ahead than the longest backoff, or than the delay it was inserted with.
TypeOK ==
    /\ row \in [Events -> Row]
    /\ relay \in [Relays -> Relay]
    /\ stored \subseteq Events
    /\ returned \subseteq Events
    /\ faults \in 0..FaultLimit

NewRow == [status |-> "absent", dueIn |-> 0, owner |-> NoRelay, lockLeft |-> -MaxStall,
           failures |-> 0]
NewRelay == [channel |-> [open |-> TRUE, confirms |-> "none", returns |-> FALSE],
             age |-> 0, batch |-> {}, current |-> NoEvent, answer |-> "none"]

Init ==
    /\ row = [e \in Events |-> NewRow]
    /\ relay = [r \in Relays |-> NewRelay]
    /\ stored = {}
    /\ returned = {}
    /\ faults = 0

-----------------------------------------------------------------------------
\* A lifecycle transaction inserts an event that is due in `delay' seconds.
Insert(e, delay) ==
    /\ row[e].status = "absent"
    /\ row' = [row EXCEPT ![e] = [NewRow EXCEPT !.status = "pending", !.dueIn = delay]]
    /\ UNCHANGED <<relay, stored, returned, faults>>

\* DeleteTrainingRun deletes the events of its job, whoever has locked them.
Delete(e) ==
    /\ row[e].status \in {"pending", "published"}
    /\ row' = [row EXCEPT ![e] = [NewRow EXCEPT !.status = "deleted"]]
    /\ UNCHANGED <<relay, stored, returned, faults>>

\* Mutant of Claimable: another relay's lock is ignored.
Claimable_ignoringLock(e, stall) == row[e].status = "pending" /\ row[e].dueIn <= -stall

\* Mutant of Claimable: the lock of a relay that died is never taken over.
Claimable_lockedForever(e, stall) ==
    row[e].status = "pending" /\ row[e].dueIn <= -stall /\ row[e].owner = NoRelay

\* Rows a relay whose clock reading is `stall' seconds old may lock.
Claimable(e, stall) ==
    /\ row[e].status = "pending"
    /\ row[e].dueIn <= -stall
    /\ row[e].owner # NoRelay => row[e].lockLeft <= -stall

\* OutboxStore.Claim: rows another relay is claiming are skipped, so any choice
\* of claimable rows may come back.
ClaimBatch(r, stall, batch) ==
    /\ relay[r].batch = {}
    /\ batch # {} /\ Cardinality(batch) <= BatchLimit
    /\ \A e \in batch : Claimable(e, stall)
    /\ row' = [e \in Events |->
          IF e \in batch THEN [row[e] EXCEPT !.owner = r, !.lockLeft = LockTTL - stall]
                         ELSE row[e]]
    /\ relay' = [relay EXCEPT ![r] =
          [@ EXCEPT !.age = stall, !.batch = batch]]
    /\ UNCHANGED <<stored, returned, faults>>

\* The client's reader hands out what it receives.
Reading(r) == relay[r].channel.confirms # "blocked"

\* Publish waits for, or has taken, an answer about event e.
Published(r, e, answer, channel) ==
    /\ e \in relay[r].batch
    /\ relay[r].current = NoEvent
    /\ Reading(r)
    /\ relay' = [relay EXCEPT ![r] =
          [@ EXCEPT !.current = e, !.answer = answer, !.channel = channel]]

\* A confirm arrives: every earlier call's channel must take it, and this call's
\* gets it last.  Publish takes it, or waits for ever behind a full channel.
Confirmed(r, e, answer) ==
    LET channel == relay[r].channel IN
    /\ channel.open
    /\ IF channel.confirms = "full"
       THEN Published(r, e, "waiting", [channel EXCEPT !.confirms = "blocked"])
       ELSE Published(r, e, answer,
                      [channel EXCEPT !.confirms = IF @ = "none" THEN "room" ELSE "full"])

\* Publisher.Publish on a working connection: the broker stores and confirms.
Publish(r, e) ==
    /\ Confirmed(r, e, "ack")
    /\ stored' = stored \cup {e}
    /\ UNCHANGED <<row, returned, faults>>

\* The broker refuses the message, or the connection breaks before the confirm
\* arrives, whether or not the message was stored.
PublishFails(r, e) ==
    /\ relay[r].channel.open
    /\ faults < FaultLimit
    /\ \/ Confirmed(r, e, "error") /\ UNCHANGED stored
       \/ /\ Published(r, e, "error", [relay[r].channel EXCEPT !.open = FALSE])
          /\ stored' \in {stored, stored \cup {e}}
    /\ faults' = faults + 1
    /\ UNCHANGED <<row, returned>>

\* The queue is gone: the broker returns the message and confirms it as well.
\* Publish takes whichever the select finds: the return, and the confirm stays in
\* its channel; or the confirm, and the event counts as published.
Unroutable(r, e) ==
    LET channel == relay[r].channel
        earlier == channel.confirms # "none" IN
    /\ channel.open
    /\ faults < FaultLimit
    /\ returned' = returned \cup {e}
    /\ IF channel.returns
       THEN Published(r, e, "waiting", [channel EXCEPT !.confirms = "blocked"])
       ELSE \/ Published(r, e, "error", [channel EXCEPT !.returns = earlier,
                    !.confirms = IF @ = "full" THEN "blocked" ELSE "full"])
            \/ /\ channel.confirms # "full"
               /\ Published(r, e, "ack", [channel EXCEPT !.returns = TRUE,
                    !.confirms = IF earlier THEN "full" ELSE "room"])
    /\ faults' = faults + 1
    /\ UNCHANGED <<row, stored>>

\* The channel is opened once, at the start of the process: without connection
\* every call of Publish returns an error, and the loop goes on.
PublishDisconnected(r, e) ==
    /\ ~relay[r].channel.open
    /\ Published(r, e, "error", relay[r].channel)
    /\ UNCHANGED <<row, stored, returned, faults>>

\* A connection that breaks while Publish waits ends the wait: the client closes
\* the listeners for returns, and stops at those for confirms.
ConnectionBreaks(r) ==
    /\ relay[r].answer = "waiting"
    /\ faults < FaultLimit
    /\ relay' = [relay EXCEPT ![r].answer = "error", ![r].channel.open = FALSE]
    /\ faults' = faults + 1
    /\ UNCHANGED <<row, stored, returned>>

\* Mutant of Marked: an answer that was not a confirm counts as one.
Marked_unconfirmed(r, x) ==
    [x EXCEPT !.status = "published", !.owner = NoRelay, !.lockLeft = -MaxStall]

\* What MarkPublished or MarkFailed makes of row x, counted from the clock
\* reading of the batch.
Marked(r, x) ==
    IF relay[r].answer = "ack"
    THEN [x EXCEPT !.status = "published", !.owner = NoRelay, !.lockLeft = -MaxStall]
    ELSE [x EXCEPT !.dueIn = Passed(Backoff(x.failures) - relay[r].age),
                   !.failures = IF @ < BackoffCap THEN @ + 1 ELSE @,
                   !.owner = NoRelay, !.lockLeft = -MaxStall]

\* On to the rest of the batch.
NextEvent(r) ==
    LET rest == relay[r].batch \ {relay[r].current} IN
    relay' = [relay EXCEPT ![r] =
        [@ EXCEPT !.batch = rest, !.age = IF rest = {} THEN 0 ELSE relay[r].age,
                  !.current = NoEvent, !.answer = "none"]]

\* The row is marked if the relay is still the owner of its lock; the relay goes
\* on to the next event of the batch in any case.
Mark(r) ==
    LET e == relay[r].current IN
    /\ e # NoEvent /\ relay[r].answer # "waiting"
    /\ IF row[e].status = "pending" /\ row[e].owner = r
       THEN row' = [row EXCEPT ![e] = Marked(r, @)]
       ELSE UNCHANGED row
    /\ NextEvent(r)
    /\ UNCHANGED <<stored, returned, faults>>

\* The database does not take the mark: the row stays locked until it lapses.
MarkFails(r) ==
    /\ relay[r].current # NoEvent /\ relay[r].answer # "waiting"
    /\ faults < FaultLimit
    /\ NextEvent(r)
    /\ faults' = faults + 1
    /\ UNCHANGED <<row, stored, returned>>

\* The process dies and is started again; its batch is forgotten.
Crash(r) ==
    /\ faults < FaultLimit
    /\ relay' = [relay EXCEPT ![r] = NewRelay]
    /\ faults' = faults + 1
    /\ UNCHANGED <<row, stored, returned>>

\* An operator restarts a relay that has lost its connection or hangs.
Restart(r) ==
    /\ ~relay[r].channel.open \/ ~Reading(r)
    /\ relay' = [relay EXCEPT ![r] = NewRelay]
    /\ UNCHANGED <<row, stored, returned, faults>>

\* Relays that will have overrun their lock when one more second has passed; one
\* that waits for ever does so in any case.
Overrunning == {r \in Relays : Reading(r) /\ relay[r].batch # {} /\ relay[r].age + 1 >= LockTTL}

\* A second passes.  A relay works much faster than that; that a batch takes
\* longer than its lock is one of the faults.
Elapse ==
    /\ Overrunning # {} => faults < FaultLimit
    /\ faults' = IF Overrunning = {} THEN faults ELSE faults + 1
    /\ row' = [e \in Events |-> [row[e] EXCEPT !.dueIn = Passed(@ - 1),
                                               !.lockLeft = Passed(@ - 1)]]
    /\ relay' = [r \in Relays |->
          [relay[r] EXCEPT !.age = IF relay[r].batch # {} /\ @ < MaxAge THEN @ + 1 ELSE @]]
    /\ UNCHANGED <<stored, returned>>

-----------------------------------------------------------------------------
\* The loop of cmd/outbox-relay, one batch after another.
RunBatch(r) ==
    \/ \E stall \in 0..MaxStall, batch \in SUBSET Events : ClaimBatch(r, stall, batch)
    \/ \E e \in Events : Publish(r, e) \/ PublishDisconnected(r, e)
    \/ Mark(r)

Fault(r) ==
    \/ \E e \in Events : PublishFails(r, e) \/ Unroutable(r, e)
    \/ ConnectionBreaks(r) \/ MarkFails(r) \/ Crash(r)

Next ==
    \/ \E e \in Events : Delete(e) \/ \E delay \in 0..MaxDelay : Insert(e, delay)
    \/ \E r \in Relays : RunBatch(r) \/ Fault(r) \/ Restart(r)
    \/ Elapse

\* The relays keep running and time keeps passing.  Nobody need notice that a
\* relay has stopped: Restart is not fair.
Spec == Init /\ [][Next]_vars /\ WF_vars(Elapse) /\ \A r \in Relays : WF_vars(RunBatch(r))

-----------------------------------------------------------------------------
\* A relay that still works on an event which is not, or no longer, locked by
\* it has overrun its lock: before LockTTL seconds are over no other relay
\* publishes or marks the events of its batch, although the lock is counted
\* from a clock reading that was old when the lock was taken (OutboxStore.Claim).
LockHonoured ==
    \A r \in Relays, e \in Events :
        e \in relay[r].batch /\ row[e].status \in {"pending", "published"} /\ row[e].owner # r
            => relay[r].age >= LockTTL

\* Every recorded event is marked published in the end, unless its job is deleted,
\* in spite of crashes, lost answers and the locks of relays that died or hang
\* (RunBatch).  It takes a relay that still reads its channel, and each stops at
\* the third confirm (Publisher.Publish); and no relay without a connection, for
\* such a one goes on claiming what is due, and every time it fails it.
EventuallyPublished ==
    \A e \in Events : row[e].status = "pending" ~>
        \/ row[e].status \in {"published", "deleted"}
        \/ \A r \in Relays : ~Reading(r)
        \/ \E r \in Relays : Reading(r) /\ ~relay[r].channel.open

Delivery == INSTANCE EventDelivery WITH
    entry <- [e \in Events |-> row[e].status],
    delivered <- stored

\* An event is marked published only when the broker has stored a copy of it or
\* has returned it for want of a queue, whichever relay publishes it, fails or
\* takes over (MarkPublished, MarkFailed).
DeliverySpec == Delivery!Spec
=============================================================================
