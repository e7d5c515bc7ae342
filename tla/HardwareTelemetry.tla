--------------------------- MODULE HardwareTelemetry ---------------------------
(***************************************************************************)
(* The measurements of one host (internal/hardware).  A collector posts a  *)
(* sample every few seconds and gives up a post that is not answered in    *)
(* time; such a post may still arrive, late, or be stored after the next.  *)
(* The control plane stamps a sample when it arrives, keeps the newest for *)
(* the list of nodes and all of a day for the history, and raises an alert *)
(* for a resource that was under pressure in every sample of a minute.     *)
(*                                                                         *)
(* Time is counted in seconds; in each, samples arrive one after the       *)
(* other.  A sample is what was under pressure in it.  The collector's     *)
(* clock is the server's.  The other windows of the history, which are     *)
(* only drawn, are left out.                                               *)
(***************************************************************************)
EXTENDS Integers, FiniteSets

CONSTANTS
    Resources,    \* what may come under pressure: memory, a GPU, a disk
    Tolerance,    \* how far a sample's own time may lie from its arrival (30 s)
    Stale,        \* the age at which a node is no longer online (15 s)
    GapLimit,     \* the longest gap in continuous pressure (15 s)
    Hold,         \* how long pressure lasts before it is an alert (60 s)
    Window,       \* the samples read to decide on alerts (90 s)
    Retention,    \* how long samples are kept (24 h)
    Overlap,      \* bound: posts under way at one time
    MaxTime       \* bound: the time at which the model stops

ASSUME TelemetryAssumption ==
    /\ {Tolerance, Stale, GapLimit, Hold, Window, Retention, Overlap, MaxTime} \subseteq Nat
    /\ Window <= Retention
    \* The window holds the pressure, the gap before it and the age of the last sample.
    /\ Hold # 0 /\ Hold + GapLimit + Stale <= Window

VARIABLES
    time,      \* the clock of both
    measured,  \* whether the collector measured in this second
    arrivals,  \* how many samples were stamped in this second
    posts,     \* posts under way
    node,      \* the row of hardware_nodes
    samples,   \* the rows of hardware_samples
    stored     \* every sample that was ever stored

telemetryVars == <<time, arrivals, measured, posts, node, samples, stored>>

-----------------------------------------------------------------------------
Unstamped == -1
NoNode == [sampled |-> Unstamped, received |-> Unstamped, order |-> 0, pressed |-> {}]

\* received is the second of the arrival, and order the place among those of that second.
Samples ==
    [sampled : Unstamped..MaxTime, received : Unstamped..MaxTime, order : Nat, pressed : SUBSET Resources]

TelemetryTypeOK ==
    /\ time \in 0..MaxTime /\ arrivals \in Nat /\ measured \in BOOLEAN
    /\ posts \subseteq Samples /\ samples \subseteq stored /\ stored \subseteq Samples
    /\ node \in Samples

TelemetryInit ==
    /\ time = 0 /\ arrivals = 0 /\ measured = FALSE
    /\ posts = {} /\ node = NoNode /\ samples = {} /\ stored = {}

-----------------------------------------------------------------------------
Tick ==
    /\ time < MaxTime
    /\ time' = time + 1 /\ arrivals' = 0 /\ measured' = FALSE
    /\ UNCHANGED <<posts, node, samples, stored>>

\* The collector posts what it measured, once in a second at most.  Nothing is queued or sent again.
Measure(pressed) ==
    /\ Cardinality(posts) < Overlap
    /\ ~measured
    /\ measured' = TRUE
    /\ posts' = posts \cup {[sampled |-> time, received |-> Unstamped, order |-> 0, pressed |-> pressed]}
    /\ UNCHANGED <<time, arrivals, node, samples, stored>>

\* A post is lost, or its handler is interrupted before the commit.
Lose(s) == posts' = posts \ {s} /\ UNCHANGED <<time, arrivals, measured, node, samples, stored>>

\* Mutant of Valid: the sample's own time is not looked at.
Valid_anyTime(s) == TRUE

\* Validate
Valid(s) == s.sampled \in (time - Tolerance)..(time + Tolerance)

\* ingest, as far as it stamps the sample.
Arrive(s) ==
    /\ s.received = Unstamped
    /\ IF Valid(s)
       THEN /\ arrivals' = arrivals + 1
            /\ posts' = (posts \ {s}) \cup {[s EXCEPT !.received = time, !.order = arrivals + 1]}
       ELSE posts' = posts \ {s} /\ UNCHANGED arrivals
    /\ UNCHANGED <<time, measured, node, samples, stored>>

\* Mutant of NewerSample: the sample that is stored last is shown.
NewerSample_lastStored(s) == TRUE

\* The condition of the upsert on hardware_nodes.
NewerSample(s) == node = NoNode \/ node.sampled < s.sampled

\* Ingest: a sample that is not newer than the last is refused as a whole.
Ingest(s) ==
    /\ s.received # Unstamped
    /\ posts' = posts \ {s}
    /\ IF NewerSample(s)
       THEN node' = s /\ samples' = samples \cup {s} /\ stored' = stored \cup {s}
       ELSE UNCHANGED <<node, samples, stored>>
    /\ UNCHANGED <<time, arrivals, measured>>

\* RunRetention
Prune ==
    /\ samples' = {s \in samples : s.received >= time - Retention}
    /\ UNCHANGED <<time, arrivals, measured, posts, node, stored>>

TelemetryStep ==
    \/ Tick
    \/ \E pressed \in SUBSET Resources : Measure(pressed)
    \/ \E s \in posts : Lose(s) \/ Arrive(s) \/ Ingest(s)
    \/ Prune

-----------------------------------------------------------------------------
\* Status
Status(s) ==
    IF time - s.received > Stale THEN "stale" ELSE "online"

\* Of each second the last sample: what History keeps of samples, in buckets of a second.
Thinned(S) == {s \in S : \A t \in S : t.received = s.received => t.order <= s.order}

\* Mutant of Recent: the window is as long as pressure must last, with no room for the gap
\* before it and the age of the last sample.
Recent_holdOnly == Thinned({s \in samples : s.received >= time - Hold})

\* History of the last minute and a half.
Recent == Thinned({s \in samples : s.received >= time - Window})

Last(S) == CHOOSE s \in S : \A t \in S : t.received <= s.received

\* Alerts: walks back from the last sample while a resource is under pressure and no gap is
\* too long; start[i] is where the walk has come to after instant i.
PressureStart(S, r) ==
    LET last == Last(S).received
        start[i \in 0..last] ==
            IF i = last THEN last
            ELSE LET from == start[i + 1] IN
                 IF /\ \E s \in S : s.received = i /\ r \in s.pressed
                    /\ from - i <= GapLimit
                    /\ ~\E s \in S : s.received \in i + 1..from - 1
                 THEN i ELSE from
    IN  start[0]

Alerts ==
    LET S == Recent IN
    IF Cardinality(S) < 2 \/ Status(Last(S)) # "online" THEN {}
    ELSE {r \in Last(S).pressed : Last(S).received - PressureStart(S, r) >= Hold}

-----------------------------------------------------------------------------
\* The history of all time, at the resolution at which it is read.
Kept == Thinned(stored)

\* r was under pressure in every sample of Kept from s to the last, and none came late.
PressedSince(s, r) ==
    LET run == {t \in Kept : t.received >= s.received} IN
    /\ \A t \in run : r \in t.pressed
    /\ \A t \in run \ {s} : \E u \in run : u.received < t.received /\ t.received - u.received <= GapLimit

\* The alerts shown are those of the whole history, of each second the last sample: neither
\* the window read nor retention hides an alert or makes one up.  (A second that holds two
\* samples loses the first, which could have ended the pressure.)
AlertsComplete ==
    Alerts = {r \in Resources :
                /\ Kept # {} /\ Status(Last(Kept)) = "online"
                /\ \E s \in Kept : PressedSince(s, r) /\ Last(Kept).received - s.received >= Hold}

\* The node shows the newest measurement that was ever stored, however the posts were ordered.
NewestShown == \A s \in stored : s.sampled <= node.sampled

\* What an online node shows was measured a short time ago.
OnlineIsFresh ==
    node # NoNode /\ Status(node) = "online" => time - node.sampled <= Stale + Tolerance

\* What is shown of a host is recent, in order and complete, whatever the network does to
\* its posts.
TelemetrySound == AlertsComplete /\ NewestShown /\ OnlineIsFresh
=============================================================================
