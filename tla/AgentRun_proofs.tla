--------------------------- MODULE AgentRun_proofs ---------------------------
(***************************************************************************)
(* What a run of the agent keeps to, for any number of runs, users,        *)
(* runners and faults and any budget of rounds and tool calls.             *)
(*                                                                         *)
(* The argument: a runner whose epoch is that of the row holds the run and *)
(* works on what the row says, or is about to save a step from it.  Other  *)
(* runners may still send what they had saved the intent of.  An intent is *)
(* saved once for each confirmation, or round, so at most one runner ever  *)
(* has it in hand; and what it was for does not come back.                 *)
(***************************************************************************)
EXTENDS AgentRun, FiniteSetTheorems, TLAPS

\* A proposal is confirmed before it is written, and it is neither older than a
\* tool call nor one of which the run was told.
StateOK(s) ==
    /\ s.confirmed => s.proposal # NoProposal
    /\ s.writePending => s.confirmed
    /\ s.proposal <= s.tools
    /\ \A n \in ToolNumbers : s.told[n] # "nothing" => n <= s.tools /\ n # s.proposal

\* A state may be saved with a status.
StatusOK(status, s) ==
    /\ (status \in {"queued", "running", "waiting_auth"} /\ s.proposal # NoProposal) => s.confirmed
    /\ s.modelPending => status \in Ended \cup {"running"}

RowOK(x) ==
    /\ StateOK(x.state) /\ StatusOK(x.status, x.state)
    /\ x.status = "absent" => x = NoRow
    /\ x.status = "queued" => ~x.cancel

\* What a runner works on, once its state is saved.
On(b) == IF b.at = "save" THEN b.next ELSE b.at

\* What a runner knows where it stands, whether or not it lost its run.
StageOK(b) ==
    LET s == b.state IN
    /\ StateOK(s)
    /\ On(b) \in {"catalog", "ask", "reply"} => s.round < MaxRounds
    /\ On(b) \in {"inquire", "invoke", "answer"} => s.confirmed
    /\ On(b) \in {"invoke", "answer"} => s.writePending
    /\ On(b) \in {"read", "validate", "propose"} => s.tools < MaxTools /\ ~s.confirmed
    /\ On(b) = "validate" => s.tools + 1 < MaxTools
    /\ On(b) # "idle" => (s.modelPending <=> On(b) \in {"ask", "reply"}) /\ (s.proposal # NoProposal => s.confirmed)
    /\ b.at = "save" => /\ (b.next = "idle") <=> (b.to # "running")
                        /\ b.to # "queued" /\ StatusOK(b.to, s)
                        /\ b.next \notin {"save", "answer", "reply"}

-----------------------------------------------------------------------------
\* Runner w has left, or is about to leave, with write n of run r.
Sending(w, r, n) ==
    r \in runner[w].run /\ runner[w].at \in {"invoke", "answer"} /\ runner[w].state.proposal = n

\* Runner w asks the model for run r.
Asking(w, r) == r \in runner[w].run /\ runner[w].at \in {"ask", "reply"}

Holds(w, r) == r \in runner[w].run /\ runner[w].epoch = row[r].epoch

\* Write n of run r did not take effect and never will.
Dead(r, n) ==
    /\ <<r, n>> \notin happened
    /\ \/ outcome[<<r, n>>] = "rejected"
       \/ <<r, n>> \notin requests /\ \A w \in Runners : ~Sending(w, r, n)

\* What a run was told of its write n.
TrueOf(r, n, answer) ==
    /\ answer = "succeeded" => <<r, n>> \in happened
    /\ answer = "rejected" => Dead(r, n)

\* The user's confirmation of write n has not been used yet.
Permitted(r, n) ==
    \/ row[r].state.proposal = n /\ row[r].state.confirmed /\ ~row[r].state.writePending
    \/ \E w \in Runners : r \in runner[w].run /\ runner[w].at = "invoke" /\ runner[w].state.proposal = n

\* From the saved state x a holder may save what b holds.
Follows(x, b) ==
    LET s == b.state IN
    /\ s.round >= x.round /\ s.tools >= x.tools
    /\ \A n \in ToolNumbers : x.told[n] # "nothing" => s.told[n] = x.told[n]
    /\ \/ s.proposal = NoProposal
       \/ s.proposal > x.tools /\ ~s.confirmed
       \/ s.proposal = x.proposal /\ s.confirmed = x.confirmed /\ s.writePending = x.writePending
       \/ s.proposal = x.proposal /\ b.next = "invoke"
       \/ s.proposal = x.proposal /\ x.writePending /\ ~s.confirmed
    /\ b.next = "invoke" => s.proposal = x.proposal /\ x.confirmed /\ ~x.writePending
    /\ \/ s.modelPending = x.modelPending /\ s.round = x.round /\ b.next # "ask"
       \/ b.next = "ask" /\ ~x.modelPending /\ s.round = x.round
       \/ x.modelPending /\ ~s.modelPending /\ s.round = x.round + 1

\* What the holder of run r is about to save is true, and nobody else has in hand
\* what the save is the end of.
SaveOK(w, r) ==
    LET x == row[r].state  s == runner[w].state IN
    /\ Follows(x, runner[w])
    /\ \A n \in ToolNumbers : TrueOf(r, n, s.told[n])
    /\ x.modelPending => \A v \in Runners : ~Asking(v, r)
    /\ (s.proposal # NoProposal /\ s.proposal = x.proposal /\ x.writePending /\ ~s.confirmed) =>
          \A v \in Runners : ~Sending(v, r, s.proposal)

HoldersWork ==
    \A w \in Runners : \A r \in runner[w].run :
        /\ runner[w].epoch <= row[r].epoch
        /\ \A v \in Runners : r \in runner[v].run /\ runner[v].epoch = runner[w].epoch => v = w
        /\ Holds(w, r) => /\ row[r].status = "running"
                          /\ IF runner[w].at = "save" THEN SaveOK(w, r) ELSE runner[w].state = row[r].state

RowsReady == \A r \in Runs : RowOK(row[r])

StagesReached == \A w \in Runners : runner[w].at # "idle" => StageOK(runner[w])

\* What the platform reports is true.
ReportsTrue ==
    \A o \in RunOperations :
        /\ outcome[o] = "succeeded" => o \in happened
        /\ outcome[o] = "rejected" => o \notin happened

TellsTrue == \A r \in Runs, n \in ToolNumbers : TrueOf(r, n, row[r].state.told[n])

OneSends ==
    \A w \in Runners, r \in Runs, n \in ToolNumbers : Sending(w, r, n) =>
        /\ n <= row[r].state.tools
        /\ row[r].state.proposal = n => row[r].state.writePending
        /\ \A v \in Runners : Sending(v, r, n) => v = w

OneAsks ==
    \A w \in Runners, r \in Runs : Asking(w, r) =>
        /\ row[r].state.modelPending /\ row[r].state.round = runner[w].state.round
        /\ \A v \in Runners : Asking(v, r) => v = w
        /\ runner[w].at = "ask" => asked[r][row[r].state.round + 1] = 0

SendsCounted ==
    \A r \in Runs, n \in ToolNumbers :
        sent[<<r, n>>] <= confirms[<<r, n>>] /\ (Permitted(r, n) => sent[<<r, n>>] < confirms[<<r, n>>])

RoundsCounted ==
    \A r \in Runs, k \in 1..MaxRounds :
        /\ asked[r][k] <= 1
        /\ asked[r][k] # 0 => \/ k <= row[r].state.round
                              \/ k = row[r].state.round + 1 /\ row[r].state.modelPending

IInv ==
    /\ TypeOK
    /\ RowsReady /\ StagesReached /\ HoldersWork
    /\ ReportsTrue /\ TellsTrue
    /\ OneSends /\ OneAsks /\ SendsCounted /\ RoundsCounted

-----------------------------------------------------------------------------
LEMMA InitInv == Init => IInv
  <1> SUFFICES ASSUME Init PROVE IInv
    OBVIOUS
  <1>1. {MaxRounds, MaxTools, MaxEpoch, FaultLimit} \subseteq Nat
    BY ConstantsAssumption
  <1>2. NewState \in State /\ NewState.told = [n \in ToolNumbers |-> "nothing"]
    BY <1>1 DEF NewState, State, NoProposal, CallKinds, ToolNumbers
  <1>3. NoRow \in Row
    BY <1>2 DEF NoRow, Row
  <1>4. TypeOK
    BY <1>1, <1>3 DEF Init, TypeOK, Platform!Init, Platform!Outcomes, RunOperations
  <1>5. \A w \in Runners : runner[w] = Idle /\ Idle.run = {} /\ Idle.at = "idle"
    BY DEF Init, Idle
  <1>6. RowsReady
    BY <1>1, <1>2 DEF Init, RowsReady, RowOK, StateOK, StatusOK, NoRow, NewState, NoProposal, Ended
  <1>7. StagesReached /\ HoldersWork /\ OneSends /\ OneAsks
    BY <1>5 DEF StagesReached, HoldersWork, OneSends, OneAsks, Sending, Asking
  <1>8. ReportsTrue
    BY DEF Init, Platform!Init, ReportsTrue
  <1>9. TellsTrue
    BY <1>2 DEF Init, TellsTrue, TrueOf, NoRow
  <1>10. SendsCounted
    <2>1. \A r \in Runs, n \in ToolNumbers : ~Permitted(r, n)
      BY <1>5 DEF Init, Permitted, NoRow, NewState
    <2> QED
      BY <2>1 DEF Init, SendsCounted, RunOperations
  <1>11. RoundsCounted
    BY DEF Init, RoundsCounted
  <1> QED
    BY <1>4, <1>6, <1>7, <1>8, <1>9, <1>10, <1>11 DEF IInv

\* Who is on a run is busy, with that run alone.
LEMMA OnRun ==
    ASSUME TypeOK, NEW w \in Runners, NEW r \in runner[w].run
    PROVE  runner[w] \in Busy /\ r \in Runs /\ runner[w].run = {r} /\ runner[w].at # "idle"
  <1>1. runner[w] \in {Idle} \cup Busy /\ Idle.run = {}
    BY DEF TypeOK, Idle
  <1>2. runner[w] \in Busy
    BY <1>1
  <1>3. runner[w].run \in {{q} : q \in Runs} /\ runner[w].at \in Stages
    BY <1>2 DEF Busy
  <1> QED
    BY <1>2, <1>3 DEF Stages

LEMMA AtWork ==
    ASSUME TypeOK, NEW w \in Runners, runner[w].at # "idle"
    PROVE  runner[w] \in Busy /\ \E r \in Runs : runner[w].run = {r}
  <1>1. runner[w] \in {Idle} \cup Busy /\ Idle.at = "idle"
    BY DEF TypeOK, Idle
  <1> QED
    BY <1>1 DEF Busy

-----------------------------------------------------------------------------
(* Steps of runner w that change nothing else. *)

\* Runner w changes its mind, stops or is about to save; it does not come to
\* have anything in hand that was not saved.
Moves(w) ==
    /\ UNCHANGED <<row, requests, happened, outcome, asked, sent, confirms>>
    /\ faults' \in 0..FaultLimit
    /\ runner' \in [Runners -> {Idle} \cup Busy]
    /\ \A v \in Runners : v # w => runner'[v] = runner[v]
    /\ \A r \in runner'[w].run : r \in runner[w].run /\ runner'[w].epoch = runner[w].epoch
    /\ runner'[w].at \in {"invoke", "answer", "ask", "reply"} =>
          runner'[w].at = runner[w].at /\ runner'[w].state = runner[w].state

LEMMA MovesLeave ==
    ASSUME TypeOK, NEW w \in Runners, Moves(w)
    PROVE  /\ \A v \in Runners, r \in Runs, n \in ToolNumbers : Sending(v, r, n)' => Sending(v, r, n)
           /\ \A v \in Runners, r \in Runs : Asking(v, r)' => Asking(v, r)
           /\ \A r \in Runs, n \in ToolNumbers : Dead(r, n) => Dead(r, n)'
           /\ \A r \in Runs, n \in ToolNumbers : \A a : TrueOf(r, n, a) => TrueOf(r, n, a)'
           /\ \A r \in Runs, n \in ToolNumbers : Permitted(r, n)' => Permitted(r, n)
  <1>1. \A v \in Runners, r \in Runs, n \in ToolNumbers : Sending(v, r, n)' => Sending(v, r, n)
    BY DEF Moves, Sending
  <1>2. \A v \in Runners, r \in Runs : Asking(v, r)' => Asking(v, r)
    BY DEF Moves, Asking
  <1>3. \A r \in Runs, n \in ToolNumbers : Dead(r, n) => Dead(r, n)'
    BY <1>1 DEF Moves, Dead
  <1>4. \A r \in Runs, n \in ToolNumbers : \A a : TrueOf(r, n, a) => TrueOf(r, n, a)'
    BY <1>3 DEF Moves, TrueOf
  <1>5. \A r \in Runs, n \in ToolNumbers : Permitted(r, n)' => Permitted(r, n)
    BY DEF Moves, Permitted
  <1> QED
    BY <1>1, <1>2, <1>3, <1>4, <1>5

LEMMA MovesKeep ==
    ASSUME IInv, NEW w \in Runners, Moves(w),
           runner'[w].at # "idle" => StageOK(runner'[w]),
           \A r \in runner'[w].run : Holds(w, r) =>
               IF runner'[w].at = "save" THEN SaveOK(w, r)' ELSE runner'[w].state = row[r].state
    PROVE  IInv'
  <1> USE DEF IInv
  <1>1. TypeOK'
    BY DEF Moves, TypeOK
  <1>2. RowsReady' /\ ReportsTrue'
    BY DEF Moves, RowsReady, ReportsTrue
  <1>3. StagesReached'
    BY DEF Moves, StagesReached
  <1>4. HoldersWork'
    <2>1. \A v \in Runners : \A r \in runner[v].run : r \in Runs
      BY OnRun
    <2> SUFFICES ASSUME NEW v \in Runners, NEW r \in runner'[v].run
                 PROVE  /\ runner'[v].epoch <= row[r].epoch
                        /\ \A u \in Runners : r \in runner'[u].run /\ runner'[u].epoch = runner'[v].epoch => u = v
                        /\ Holds(v, r)' => /\ row[r].status = "running"
                                           /\ IF runner'[v].at = "save" THEN SaveOK(v, r)'
                                                                       ELSE runner'[v].state = row[r].state
      BY DEF Moves, HoldersWork
    <2>2. \A u \in Runners : r \in runner'[u].run => r \in runner[u].run /\ runner'[u].epoch = runner[u].epoch
      BY DEF Moves
    <2>3. r \in Runs
      BY <2>1, <2>2
    <2>4. /\ runner'[v].epoch <= row[r].epoch
          /\ \A u \in Runners : r \in runner'[u].run /\ runner'[u].epoch = runner'[v].epoch => u = v
      BY <2>2 DEF HoldersWork
    <2>5. ASSUME Holds(v, r)' PROVE Holds(v, r)
      BY <2>2, <2>5 DEF Moves, Holds
    <2>6. ASSUME Holds(v, r)' PROVE row[r].status = "running"
      BY <2>2, <2>5, <2>6 DEF HoldersWork
    <2>7. ASSUME Holds(v, r)', v # w
          PROVE  IF runner'[v].at = "save" THEN SaveOK(v, r)' ELSE runner'[v].state = row[r].state
      <3>1. IF runner[v].at = "save" THEN SaveOK(v, r) ELSE runner[v].state = row[r].state
        BY <2>2, <2>5, <2>7 DEF HoldersWork
      <3>2. runner'[v] = runner[v] /\ row' = row
        BY <2>7 DEF Moves
      <3>3. ASSUME runner[v].at = "save" PROVE SaveOK(v, r)'
        <4>1. SaveOK(v, r) /\ runner[v].state.proposal \in ToolNumbers \cup {NoProposal}
          BY <3>1, <3>2, <3>3, OnRun DEF Busy, State
        <4> QED
          BY <2>3, <3>2, <4>1, MovesLeave DEF SaveOK
      <3> QED
        BY <3>1, <3>2, <3>3
    <2> QED
      BY <2>4, <2>5, <2>6, <2>7
  <1>5. TellsTrue'
    BY MovesLeave DEF TellsTrue, Moves
  <1>6. OneSends'
    BY MovesLeave DEF OneSends, Moves
  <1>7. OneAsks'
    BY MovesLeave DEF OneAsks, Moves, Asking
  <1>8. SendsCounted'
    BY MovesLeave DEF SendsCounted, Moves
  <1>9. RoundsCounted'
    BY DEF RoundsCounted, Moves
  <1> QED
    BY <1>1, <1>2, <1>3, <1>4, <1>5, <1>6, <1>7, <1>8, <1>9

Quiet == UNCHANGED <<row, requests, platformVars, historyVars, faults>>

\* What a runner is about to save is sound if it follows from what it works on and
\* what it newly tells the run is true.
LEMMA SavesKeep ==
    ASSUME IInv, NEW w \in Runners, runner[w].at \notin {"idle", "save"}, Quiet,
           NEW b \in Busy, runner' = [runner EXCEPT ![w] = b],
           b.at = "save", b.run = runner[w].run, b.epoch = runner[w].epoch,
           StageOK(b), Follows(runner[w].state, b),
           \A r \in runner[w].run, n \in ToolNumbers : Holds(w, r) =>
               b.state.told[n] = runner[w].state.told[n] \/ TrueOf(r, n, b.state.told[n])',
           (b.state.proposal = runner[w].state.proposal /\ runner[w].state.writePending /\ ~b.state.confirmed) =>
               runner[w].at = "answer"
    PROVE  IInv'
  <1> USE DEF IInv
  <1>1. Moves(w) /\ runner'[w] = b
    BY DEF Quiet, Moves, TypeOK, platformVars, historyVars
  <1>2. StageOK(runner[w]) /\ On(runner[w]) = runner[w].at
    BY DEF StagesReached, On
  <1>3. ASSUME NEW r \in runner[w].run, Holds(w, r) PROVE SaveOK(w, r)'
    <2>1. r \in Runs /\ runner[w] \in Busy /\ runner[w].state = row[r].state /\ row' = row
      BY <1>3, OnRun DEF HoldersWork, Quiet
    <2>2. Follows(row[r].state, b)
      BY <2>1
    <2>3. ASSUME NEW n \in ToolNumbers PROVE TrueOf(r, n, b.state.told[n])'
      <3>1. CASE b.state.told[n] = runner[w].state.told[n]
        BY <1>1, <2>1, <3>1, MovesLeave DEF TellsTrue
      <3>2. CASE TrueOf(r, n, b.state.told[n])'
        BY <3>2
      <3> QED
        BY <3>1, <3>2, <1>3
    <2>4. ASSUME row[r].state.modelPending, NEW v \in Runners PROVE ~Asking(v, r)'
      <3>1. Asking(w, r)
        BY <1>2, <2>1, <2>4 DEF StageOK, Asking
      <3>2. ~Asking(w, r)'
        BY <1>1 DEF Asking
      <3> QED
        BY <1>1, <2>1, <3>1, <3>2, MovesLeave DEF OneAsks
    <2>5. ASSUME b.state.proposal # NoProposal, b.state.proposal = row[r].state.proposal, row[r].state.writePending,
                 ~b.state.confirmed, NEW v \in Runners
          PROVE  ~Sending(v, r, b.state.proposal)'
      <3>1. b.state.proposal \in ToolNumbers
        BY <2>5 DEF Busy, State
      <3>2. Sending(w, r, b.state.proposal)
        BY <2>1, <2>5 DEF Sending
      <3>3. ~Sending(w, r, b.state.proposal)'
        BY <1>1 DEF Sending
      <3> QED
        BY <1>1, <2>1, <3>1, <3>2, <3>3, MovesLeave DEF OneSends
    <2> QED
      BY <1>1, <2>1, <2>2, <2>3, <2>4, <2>5 DEF SaveOK
  <1> QED
    BY <1>1, <1>3, MovesKeep

\* The run is given up, or back, as it was saved.
LEMMA EndsKeep ==
    ASSUME IInv, NEW w \in Runners, runner[w].at \notin {"idle", "save"}, Quiet,
           NEW to \in {"cancelled", "failed", "unknown", "waiting_auth"},
           to = "waiting_auth" => runner[w].at \notin {"ask", "reply"},
           Ending(w, runner[w].state, to)
    PROVE  IInv'
  <1>1. PICK b : b = [runner[w] EXCEPT !.at = "save", !.state = runner[w].state, !.to = to, !.next = "idle"]
    OBVIOUS
  <1>2. runner[w] \in Busy /\ StageOK(runner[w]) /\ On(runner[w]) = runner[w].at
    BY AtWork DEF IInv, StagesReached, On
  <1>3. b \in Busy /\ b.at = "save" /\ b.run = runner[w].run /\ b.epoch = runner[w].epoch
        /\ b.state = runner[w].state /\ b.to = to /\ b.next = "idle"
    BY <1>1, <1>2 DEF Busy, Stages, Active, Ended
  <1>4. runner' = [runner EXCEPT ![w] = b]
    BY <1>1 DEF Ending, Saving
  <1>5. StageOK(b)
    BY <1>2, <1>3 DEF StageOK, StatusOK, On, Ended
  <1>6. b.state \in State
    BY <1>3 DEF Busy
  <1>7. Follows(runner[w].state, b)
    BY <1>3, <1>6, ConstantsAssumption DEF Follows, State
  <1>8. b.state.writePending => b.state.confirmed
    BY <1>5 DEF StageOK, StateOK
  <1> QED
    BY <1>2, <1>3, <1>4, <1>5, <1>7, <1>8, SavesKeep

\* On to another stage of the same work.
LEMMA GoesKeep ==
    ASSUME IInv, NEW w \in Runners, runner[w].at \notin {"idle", "save", "ask", "reply"}, Quiet,
           NEW stage \in {"inquire", "validate", "catalog"}, Goes(w, stage, runner[w].state),
           stage = "catalog" => runner[w].state.round < MaxRounds,
           stage = "inquire" => runner[w].state.confirmed,
           stage = "validate" => runner[w].state.tools + 1 < MaxTools /\ ~runner[w].state.confirmed
    PROVE  IInv'
  <1>1. runner[w] \in Busy /\ StageOK(runner[w]) /\ On(runner[w]) = runner[w].at
    BY AtWork DEF IInv, StagesReached, On
  <1>2. runner'[w] \in Busy /\ runner'[w].at = stage /\ runner'[w].state = runner[w].state
        /\ runner'[w].run = runner[w].run /\ runner'[w].epoch = runner[w].epoch
    BY <1>1 DEF Goes, Busy, Stages, IInv, TypeOK
  <1>3. Moves(w)
    BY <1>2 DEF Quiet, Moves, Goes, IInv, TypeOK, platformVars, historyVars
  <1>4. StageOK(runner'[w])
    BY <1>1, <1>2, ConstantsAssumption DEF StageOK, On, Busy, State
  <1>5. \A r \in runner'[w].run : Holds(w, r) => runner'[w].state = row[r].state
    BY <1>2 DEF IInv, HoldersWork
  <1> QED
    BY <1>2, <1>3, <1>4, <1>5, MovesKeep

\* What Saving makes of a runner.
LEMMA SavingBuilds ==
    ASSUME NEW w \in Runners, runner[w] \in Busy,
           NEW s \in State, NEW to \in Active \cup Ended, NEW next \in Stages \cup {"idle"}, Saving(w, s, to, next)
    PROVE  \E b \in Busy : /\ runner' = [runner EXCEPT ![w] = b]
                           /\ b.at = "save" /\ b.run = runner[w].run /\ b.epoch = runner[w].epoch
                           /\ b.state = s /\ b.to = to /\ b.next = next
  <1>1. PICK b : b = [runner[w] EXCEPT !.at = "save", !.state = s, !.to = to, !.next = next]
    OBVIOUS
  <1>2. runner' = [runner EXCEPT ![w] = b]
    BY <1>1 DEF Saving
  <1>3. b \in Busy /\ b.at = "save" /\ b.run = runner[w].run /\ b.epoch = runner[w].epoch
        /\ b.state = s /\ b.to = to /\ b.next = next
    BY <1>1 DEF Busy, Stages
  <1> QED
    BY <1>2, <1>3

\* What is known of a runner that works on its state.
LEMMA Working ==
    ASSUME IInv, NEW w \in Runners, runner[w].at \notin {"idle", "save"}
    PROVE  /\ runner[w] \in Busy /\ runner[w].state \in State
           /\ StageOK(runner[w]) /\ StateOK(runner[w].state) /\ On(runner[w]) = runner[w].at
           /\ MaxRounds \in Nat /\ MaxTools \in Nat
           /\ {"running", "waiting_confirmation", "succeeded", "failed"} \subseteq Active \cup Ended
           /\ {"invoke", "read", "propose", "top", "ask", "idle"} \subseteq Stages \cup {"idle"}
  <1>1. runner[w] \in Busy /\ StageOK(runner[w]) /\ On(runner[w]) = runner[w].at
    BY AtWork DEF IInv, StagesReached, On
  <1> QED
    BY <1>1, ConstantsAssumption DEF Busy, StageOK, Active, Ended, Stages

-----------------------------------------------------------------------------
(* The stages of a runner. *)

\* A confirmed write that nobody recorded the intent of: the intent is saved.
LEMMA IntentKeeps ==
    ASSUME IInv, NEW w \in Runners, runner[w].at = "top", Quiet, runner[w].state.confirmed, ~runner[w].state.writePending,
           Saving(w, [runner[w].state EXCEPT !.writePending = TRUE], "running", "invoke")
    PROVE  IInv'
  <1> DEFINE s == [runner[w].state EXCEPT !.writePending = TRUE]
  <1>1. /\ s \in State /\ s.writePending
        /\ s.confirmed = runner[w].state.confirmed /\ s.proposal = runner[w].state.proposal
        /\ s.modelPending = runner[w].state.modelPending
        /\ s.round = runner[w].state.round /\ s.tools = runner[w].state.tools /\ s.told = runner[w].state.told
    BY Working DEF State
  <1>2. Saving(w, s, "running", "invoke")
    OBVIOUS
  <1> HIDE DEF s
  <1>3. PICK b \in Busy : /\ runner' = [runner EXCEPT ![w] = b]
                          /\ b.at = "save" /\ b.run = runner[w].run /\ b.epoch = runner[w].epoch
                          /\ b.state = s /\ b.to = "running" /\ b.next = "invoke"
    BY <1>1, <1>2, Working, SavingBuilds
  <1>4. StateOK(s)
    BY <1>1, Working DEF StateOK
  <1>5. StageOK(b)
    BY <1>1, <1>3, <1>4, Working DEF StageOK, StatusOK, On, Ended
  <1>6. Follows(runner[w].state, b)
    <2> DEFINE x == runner[w].state
    <2>1. x.round \in Int /\ x.tools \in Int /\ b.state = s
      BY <1>3, Working DEF State
    <2> HIDE DEF x
    <2>2. s.round >= x.round /\ s.tools >= x.tools
      BY <1>1, <2>1 DEF x
    <2>3. \A n \in ToolNumbers : x.told[n] # "nothing" => s.told[n] = x.told[n]
      BY <1>1 DEF x
    <2>4. s.proposal = x.proposal /\ x.confirmed /\ ~x.writePending
      BY <1>1 DEF x
    <2>5. s.modelPending = x.modelPending /\ s.round = x.round /\ b.next # "ask"
      BY <1>1, <1>3 DEF x
    <2> QED
      BY <1>3, <2>1, <2>2, <2>3, <2>4, <2>5 DEF Follows, x
  <1> QED
    BY <1>1, <1>3, <1>5, <1>6, SavesKeep

\* Reads and validations count as tool calls; the proposal, if any, stays as it is.
LEMMA ToolsKeep ==
    ASSUME IInv, NEW w \in Runners, runner[w].at \notin {"idle", "save", "ask", "reply"}, Quiet,
           NEW s \in State, NEW to \in {"running", "failed"}, NEW next \in {"idle", "top", "read", "propose"},
           Saving(w, s, to, next), next = "idle" <=> to # "running",
           next \in {"read", "propose"} => s.tools < MaxTools /\ ~s.confirmed,
           s.proposal = runner[w].state.proposal, s.confirmed = runner[w].state.confirmed,
           s.writePending = runner[w].state.writePending, s.modelPending = runner[w].state.modelPending,
           s.round = runner[w].state.round, s.told = runner[w].state.told, s.tools >= runner[w].state.tools
    PROVE  IInv'
  <1>1. PICK b \in Busy : /\ runner' = [runner EXCEPT ![w] = b]
                          /\ b.at = "save" /\ b.run = runner[w].run /\ b.epoch = runner[w].epoch
                          /\ b.state = s /\ b.to = to /\ b.next = next
    BY Working, SavingBuilds
  <1>2. StateOK(s)
    BY Working DEF StateOK, State, ToolNumbers, NoProposal
  <1>3. ~runner[w].state.modelPending /\ (runner[w].state.proposal # NoProposal => runner[w].state.confirmed)
    BY Working DEF StageOK
  <1>4. StageOK(b)
    BY <1>1, <1>2, <1>3 DEF StageOK, StatusOK, On, Ended
  <1>5. Follows(runner[w].state, b)
    <2> DEFINE x == runner[w].state
    <2>1. x.round \in Int /\ b.state = s /\ b.next = next
      BY <1>1, Working DEF State
    <2> HIDE DEF x
    <2>2. s.round >= x.round /\ s.tools >= x.tools
      BY <2>1 DEF x
    <2>3. \A n \in ToolNumbers : x.told[n] # "nothing" => s.told[n] = x.told[n]
      BY DEF x
    <2>4. s.proposal = x.proposal /\ s.confirmed = x.confirmed /\ s.writePending = x.writePending
      BY DEF x
    <2>5. s.modelPending = x.modelPending /\ s.round = x.round
      BY DEF x
    <2> QED
      BY <2>1, <2>2, <2>3, <2>4, <2>5 DEF Follows, x
  <1>6. s.writePending => s.confirmed
    BY <1>2 DEF StateOK
  <1> QED
    BY <1>1, <1>4, <1>5, <1>6, SavesKeep

\* A write is put to the user under the next number.
LEMMA ProposesKeep ==
    ASSUME IInv, NEW w \in Runners, runner[w].at \in {"top", "propose"}, Quiet,
           runner[w].state.tools < MaxTools, ~runner[w].state.confirmed,
           Saving(w, Proposed(runner[w].state), "waiting_confirmation", "idle")
    PROVE  IInv'
  <1> DEFINE x == runner[w].state  s == Proposed(runner[w].state)
  <1>1. x \in State /\ x.tools \in Nat /\ x.round \in Nat /\ MaxTools \in Nat /\ StateOK(x)
    BY Working DEF State
  <1>2. /\ s \in State /\ s.proposal = x.tools + 1 /\ s.tools = x.tools + 1 /\ s.round = x.round /\ s.told = x.told
        /\ s.confirmed = x.confirmed /\ s.writePending = x.writePending /\ s.modelPending = x.modelPending
    <2>1. x.tools < MaxTools
      OBVIOUS
    <2>2. PICK k : k = x.tools + 1
      OBVIOUS
    <2>3. k \in 0..MaxTools /\ k \in ToolNumbers
      BY <1>1, <2>1, <2>2 DEF ToolNumbers
    <2>4. s = [x EXCEPT !.proposal = k, !.tools = k]
      BY <1>1, <2>2 DEF Proposed, State
    <2> HIDE DEF x, s
    <2> QED
      BY <1>1, <2>2, <2>3, <2>4 DEF State
  <1>3. Saving(w, s, "waiting_confirmation", "idle")
    OBVIOUS
  <1>4. ~s.confirmed /\ ~s.writePending /\ ~s.modelPending
    BY <1>1, <1>2, Working DEF StageOK, StateOK
  <1> HIDE DEF s
  <1>5. PICK b \in Busy : /\ runner' = [runner EXCEPT ![w] = b]
                          /\ b.at = "save" /\ b.run = runner[w].run /\ b.epoch = runner[w].epoch
                          /\ b.state = s /\ b.to = "waiting_confirmation" /\ b.next = "idle"
    BY <1>2, <1>3, Working, SavingBuilds
  <1>6. StateOK(s)
    BY <1>1, <1>2, <1>4 DEF StateOK, ToolNumbers
  <1>7. StageOK(b)
    BY <1>4, <1>5, <1>6 DEF StageOK, StatusOK, On, Ended
  <1>8. s.modelPending = x.modelPending /\ b.next # "ask" /\ b.next # "invoke" /\ b.state = s
    BY <1>2, <1>5
  <1> HIDE DEF x
  <1>9. Follows(x, b)
    BY <1>1, <1>2, <1>4, <1>8 DEF Follows
  <1> QED
    BY <1>2, <1>4, <1>5, <1>7, <1>9, SavesKeep DEF x

\* The answer to a write goes into the messages, and the proposal is done with.
LEMMA TellsKeep ==
    ASSUME IInv, NEW w \in Runners, runner[w].at \in {"inquire", "answer"}, Quiet, NEW result \in {"succeeded", "rejected"},
           \A r \in runner[w].run, n \in ToolNumbers :
               Holds(w, r) /\ n = runner[w].state.proposal => TrueOf(r, n, result)',
           Saving(w, Told(runner[w].state, result), "running", "top")
    PROVE  IInv'
  <1> DEFINE x == runner[w].state  s == Told(runner[w].state, result)
  <1>1. x \in State /\ x.tools \in Nat /\ x.round \in Nat /\ StateOK(x) /\ x.proposal \in ToolNumbers /\ ~x.modelPending
        /\ x.proposal <= x.tools
    BY Working DEF State, StageOK, StateOK
  <1>2. /\ s \in State /\ s.proposal = NoProposal /\ s.tools = x.tools /\ s.round = x.round
        /\ s.told = [x.told EXCEPT ![x.proposal] = result]
        /\ ~s.confirmed /\ ~s.writePending /\ s.modelPending = x.modelPending
    BY <1>1 DEF Told, State, NoProposal, CallKinds
  <1>3. Saving(w, s, "running", "top")
    OBVIOUS
  <1> HIDE DEF s
  <1>4. PICK b \in Busy : /\ runner' = [runner EXCEPT ![w] = b]
                          /\ b.at = "save" /\ b.run = runner[w].run /\ b.epoch = runner[w].epoch
                          /\ b.state = s /\ b.to = "running" /\ b.next = "top"
    BY <1>2, <1>3, Working, SavingBuilds
  <1>5. s.told[x.proposal] = result /\ \A n \in ToolNumbers : n # x.proposal => s.told[n] = x.told[n]
    BY <1>1, <1>2 DEF State
  <1>6. StateOK(s)
    BY <1>1, <1>2, <1>5 DEF StateOK, ToolNumbers, NoProposal
  <1>7. StageOK(b)
    BY <1>1, <1>2, <1>4, <1>6 DEF StageOK, StatusOK, On, Ended
  <1>8. x.told[x.proposal] = "nothing"
    BY <1>1 DEF StateOK
  <1>9. s.modelPending = x.modelPending /\ b.next # "ask" /\ b.next # "invoke" /\ b.state = s
    BY <1>2, <1>4
  <1>10. \A r \in runner[w].run, n \in ToolNumbers : Holds(w, r) =>
             b.state.told[n] = runner[w].state.told[n] \/ TrueOf(r, n, b.state.told[n])'
    <2> SUFFICES ASSUME NEW r \in runner[w].run, NEW n \in ToolNumbers, Holds(w, r)
                 PROVE  b.state.told[n] = runner[w].state.told[n] \/ TrueOf(r, n, b.state.told[n])'
      OBVIOUS
    <2>1. CASE n # x.proposal
      <3>1. s.told[n] = x.told[n]
        BY <2>1, <1>5
      <3> QED
        BY <3>1, <1>9
    <2>2. CASE n = x.proposal
      <3>1. TrueOf(r, n, result)'
        BY <2>2
      <3>2. b.state.told[n] = result
        BY <2>2, <1>5, <1>9
      <3> QED
        BY <2>2, <3>1, <3>2
    <2> QED
      BY <2>1, <2>2
  <1>11. x.proposal # NoProposal
    BY <1>1 DEF ToolNumbers, NoProposal
  <1>12. b.state.proposal # runner[w].state.proposal
    BY <1>2, <1>4, <1>11
  <1> HIDE DEF x
  <1>13. Follows(x, b)
    <2>1. s.round >= x.round /\ s.tools >= x.tools
      BY <1>1, <1>2
    <2>2. \A n \in ToolNumbers : x.told[n] # "nothing" => s.told[n] = x.told[n]
      BY <1>5, <1>8
    <2>3. s.round = x.round /\ s.proposal = NoProposal
      BY <1>2
    <2> QED
      BY <1>9, <2>1, <2>2, <2>3 DEF Follows
  <1> QED
    BY <1>4, <1>7, <1>10, <1>12, <1>13, SavesKeep DEF x

\* That the model is about to be asked goes on record.
LEMMA AskIntentKeeps ==
    ASSUME IInv, NEW w \in Runners, runner[w].at = "catalog", Quiet,
           Saving(w, [runner[w].state EXCEPT !.modelPending = TRUE], "running", "ask")
    PROVE  IInv'
  <1> DEFINE x == runner[w].state  s == [runner[w].state EXCEPT !.modelPending = TRUE]
  <1>1. x \in State /\ x.tools \in Nat /\ x.round \in Nat /\ StateOK(x) /\ ~x.modelPending /\ x.round < MaxRounds
        /\ (x.proposal # NoProposal => x.confirmed)
    BY Working DEF State, StageOK
  <1>2. /\ s \in State /\ s.modelPending
        /\ s.confirmed = x.confirmed /\ s.proposal = x.proposal /\ s.writePending = x.writePending
        /\ s.round = x.round /\ s.tools = x.tools /\ s.told = x.told
    BY <1>1 DEF State
  <1>3. Saving(w, s, "running", "ask")
    OBVIOUS
  <1> HIDE DEF s
  <1>4. PICK b \in Busy : /\ runner' = [runner EXCEPT ![w] = b]
                          /\ b.at = "save" /\ b.run = runner[w].run /\ b.epoch = runner[w].epoch
                          /\ b.state = s /\ b.to = "running" /\ b.next = "ask"
    BY <1>2, <1>3, Working, SavingBuilds
  <1>5. StateOK(s)
    BY <1>1, <1>2 DEF StateOK
  <1>6. StageOK(b)
    BY <1>1, <1>2, <1>4, <1>5 DEF StageOK, StatusOK, On, Ended
  <1>7. b.state = s /\ b.next = "ask" /\ s.told = x.told /\ ~x.modelPending
    BY <1>1, <1>2, <1>4
  <1>8. b.state.writePending => b.state.confirmed
    BY <1>4, <1>5 DEF StateOK
  <1>9. b.state.told = runner[w].state.told
    BY <1>7
  <1>10. (b.state.proposal = runner[w].state.proposal /\ runner[w].state.writePending) => b.state.confirmed
    BY <1>2, <1>7, <1>8
  <1> HIDE DEF x
  <1>11. Follows(x, b)
    <2>1. s.round >= x.round /\ s.tools >= x.tools /\ s.round = x.round
      BY <1>1, <1>2
    <2>2. s.proposal = x.proposal /\ s.confirmed = x.confirmed /\ s.writePending = x.writePending
      BY <1>2
    <2> QED
      BY <1>7, <2>1, <2>2 DEF Follows
  <1> QED
    BY <1>4, <1>6, <1>9, <1>10, <1>11, SavesKeep DEF x

\* The model's answer closes the request and counts as a round.
LEMMA AnsweredKeeps ==
    ASSUME IInv, NEW w \in Runners, runner[w].at = "reply", Quiet,
           NEW s \in State, NEW to \in {"running", "succeeded", "failed"}, NEW next \in {"idle", "top"},
           Saving(w, s, to, next), next = "idle" <=> to # "running",
           s.proposal = runner[w].state.proposal, s.confirmed = runner[w].state.confirmed,
           s.writePending = runner[w].state.writePending, ~s.modelPending,
           s.round = runner[w].state.round + 1, s.tools = runner[w].state.tools, s.told = runner[w].state.told
    PROVE  IInv'
  <1> DEFINE x == runner[w].state
  <1>1. x \in State /\ x.tools \in Nat /\ x.round \in Nat /\ StateOK(x) /\ x.modelPending /\ (x.proposal # NoProposal => x.confirmed)
    BY Working DEF State, StageOK
  <1>2. PICK b \in Busy : /\ runner' = [runner EXCEPT ![w] = b]
                          /\ b.at = "save" /\ b.run = runner[w].run /\ b.epoch = runner[w].epoch
                          /\ b.state = s /\ b.to = to /\ b.next = next
    BY Working, SavingBuilds
  <1>3. StateOK(s)
    BY <1>1 DEF StateOK
  <1>4. StageOK(b)
    BY <1>1, <1>2, <1>3 DEF StageOK, StatusOK, On, Ended
  <1>5. b.state = s /\ b.next \notin {"ask", "invoke"}
    BY <1>2
  <1>6. b.state.told = runner[w].state.told
    BY <1>5
  <1>7. (b.state.proposal = runner[w].state.proposal /\ runner[w].state.writePending) => b.state.confirmed
    BY <1>3, <1>5 DEF StateOK
  <1>8. s.round = x.round + 1 /\ s.tools = x.tools /\ s.told = x.told
    OBVIOUS
  <1>9. s.proposal = x.proposal /\ s.confirmed = x.confirmed /\ s.writePending = x.writePending
    OBVIOUS
  <1> HIDE DEF x
  <1>10. Follows(x, b)
    <2>1. s.round >= x.round /\ s.tools >= x.tools
      BY <1>1, <1>8
    <2> QED
      BY <1>1, <1>5, <1>8, <1>9, <2>1 DEF Follows
  <1> QED
    BY <1>2, <1>4, <1>6, <1>7, <1>10, SavesKeep DEF x

\* Refused for want of permission, the write is put to the user again.
LEMMA RefusedKeeps ==
    ASSUME IInv, NEW w \in Runners, runner[w].at = "answer", Quiet,
           Saving(w, [runner[w].state EXCEPT !.writePending = FALSE, !.confirmed = FALSE], "waiting_confirmation", "idle")
    PROVE  IInv'
  <1> DEFINE x == runner[w].state  s == [runner[w].state EXCEPT !.writePending = FALSE, !.confirmed = FALSE]
  <1>1. x \in State /\ x.tools \in Nat /\ x.round \in Nat /\ StateOK(x) /\ ~x.modelPending /\ x.writePending
    BY Working DEF State, StageOK
  <1>2. /\ s \in State /\ s.modelPending = x.modelPending /\ ~s.confirmed /\ ~s.writePending /\ s.proposal = x.proposal
        /\ s.round = x.round /\ s.tools = x.tools /\ s.told = x.told
    BY <1>1 DEF State
  <1>3. Saving(w, s, "waiting_confirmation", "idle")
    OBVIOUS
  <1> HIDE DEF s
  <1>4. PICK b \in Busy : /\ runner' = [runner EXCEPT ![w] = b]
                          /\ b.at = "save" /\ b.run = runner[w].run /\ b.epoch = runner[w].epoch
                          /\ b.state = s /\ b.to = "waiting_confirmation" /\ b.next = "idle"
    BY <1>2, <1>3, Working, SavingBuilds
  <1>5. StateOK(s)
    BY <1>1, <1>2 DEF StateOK
  <1>6. StageOK(b)
    BY <1>1, <1>2, <1>4, <1>5 DEF StageOK, StatusOK, On, Ended
  <1>7. b.state = s /\ b.next \notin {"ask", "invoke"} /\ s.told = x.told /\ s.modelPending = x.modelPending
    BY <1>2, <1>4
  <1>8. b.state.told = runner[w].state.told
    BY <1>7
  <1> HIDE DEF x
  <1>9. Follows(x, b)
    <2>1. s.round >= x.round /\ s.tools >= x.tools /\ s.round = x.round
      BY <1>1, <1>2
    <2>2. s.proposal = x.proposal /\ x.writePending /\ ~s.confirmed
      BY <1>1, <1>2
    <2> QED
      BY <1>7, <2>1, <2>2 DEF Follows
  <1> QED
    BY <1>4, <1>6, <1>8, <1>9, SavesKeep DEF x

LEMMA TopKeeps ==
    ASSUME IInv, NEW w \in Runners, Top(w), Quiet
    PROVE  IInv'
  <1> DEFINE s == runner[w].state
  <1>1. runner[w].at = "top" /\ s \in State /\ s.tools \in Nat /\ s.round \in Nat /\ MaxTools \in Nat /\ MaxRounds \in Nat
    BY Working DEF Top, At, State
  <1>2. CASE \E to \in {"cancelled", "failed", "waiting_auth"} : Ending(w, s, to)
    BY <1>1, <1>2, EndsKeep
  <1>3. CASE TakeWrite(w, s)
    <2>1. CASE s.writePending
      BY <1>1, <1>3, <2>1, GoesKeep DEF TakeWrite
    <2>2. CASE ~s.writePending
      BY <1>1, <1>3, <2>2, IntentKeeps DEF TakeWrite
    <2> QED
      BY <2>1, <2>2
  <1>4. CASE TakeCalls(w, s)
    <2>1. ~s.confirmed
      BY <1>4 DEF TakeCalls
    <2>2. CASE Ending(w, s, "failed")
      BY <1>2, <2>2
    <2>3. CASE s.tools < MaxTools /\ Saving(w, s, "running", "read")
      BY <1>1, <2>1, <2>3, ToolsKeep
    <2>4. CASE s.tools < MaxTools /\ Ending(w, Proposed(s), "waiting_confirmation")
      BY <1>1, <2>1, <2>4, ProposesKeep DEF Ending
    <2>5. CASE s.tools + 1 < MaxTools /\ Goes(w, "validate", s)
      BY <1>1, <2>1, <2>5, GoesKeep
    <2> QED
      BY <1>1, <1>4, <2>2, <2>3, <2>4, <2>5 DEF TakeCalls
  <1>5. CASE TakeRound(w, s)
    BY <1>1, <1>2, <1>5, GoesKeep DEF TakeRound
  <1> QED
    BY <1>2, <1>3, <1>4, <1>5 DEF Top, Unauthorised

LEMMA InquireKeeps ==
    ASSUME IInv, NEW w \in Runners, Inquire(w), Quiet
    PROVE  IInv'
  <1> DEFINE s == runner[w].state
  <1>1. runner[w].at = "inquire" /\ s \in State
    BY Working DEF Inquire, At
  <1>2. CASE \E to \in {"unknown", "waiting_auth"} : Ending(w, s, to)
    BY <1>1, <1>2, EndsKeep
  <1>3. ASSUME NEW r \in runner[w].run, NEW result \in Reported(<<r, s.proposal>>), Continuing(w, Told(s, result))
        PROVE  IInv'
    <2>1. r \in Runs /\ runner[w].run = {r} /\ TypeOK
      BY OnRun DEF IInv
    <2>2. s.proposal \in ToolNumbers
      BY <1>1, Working DEF StageOK, StateOK, State
    <2>3. <<r, s.proposal>> \in RunOperations
      BY <2>1, <2>2 DEF RunOperations
    <2>4. result \in {"succeeded", "rejected"} /\ outcome[<<r, s.proposal>>] = result
      BY <2>1, <2>3 DEF Reported, TypeOK, Platform!Outcomes
    <2>5. /\ result = "succeeded" => <<r, s.proposal>> \in happened
          /\ result = "rejected" => <<r, s.proposal>> \notin happened
      BY <2>3, <2>4 DEF IInv, ReportsTrue
    <2>6. \A q \in runner[w].run, n \in ToolNumbers : Holds(w, q) /\ n = s.proposal => TrueOf(q, n, result)'
      <3>1. happened' = happened /\ outcome' = outcome
        BY DEF Quiet, platformVars
      <3> QED
        BY <2>1, <2>4, <2>5, <3>1 DEF TrueOf, Dead
    <2> QED
      BY <1>1, <1>3, <2>4, <2>6, TellsKeep DEF Continuing
  <1> QED
    BY <1>2, <1>3 DEF Inquire, Unauthorised

LEMMA AnswerKeeps ==
    ASSUME IInv, NEW w \in Runners, Answer(w), Quiet
    PROVE  IInv'
  <1> DEFINE s == runner[w].state
  <1>1. runner[w].at = "answer" /\ s \in State
    BY Working DEF Answer, At
  <1>2. s.proposal \in ToolNumbers
    BY <1>1, Working DEF StageOK, StateOK, State
  <1>3. CASE Ending(w, s, "unknown")
    BY <1>1, <1>3, EndsKeep
  <1>4. happened' = happened /\ outcome' = outcome /\ requests' = requests
    BY DEF Quiet, platformVars
  <1>5. ASSUME NEW r \in runner[w].run, outcome[<<r, s.proposal>>] = "succeeded", Continuing(w, Told(s, "succeeded"))
        PROVE  IInv'
    <2>1. r \in Runs /\ runner[w].run = {r}
      BY OnRun DEF IInv
    <2>2. <<r, s.proposal>> \in happened
      BY <1>2, <1>5, <2>1 DEF IInv, ReportsTrue, RunOperations
    <2>3. \A q \in runner[w].run, n \in ToolNumbers : Holds(w, q) /\ n = s.proposal => TrueOf(q, n, "succeeded")'
      BY <1>4, <2>1, <2>2 DEF TrueOf
    <2> QED
      BY <1>1, <1>5, <2>3, TellsKeep DEF Continuing
  <1>6. ASSUME NEW r \in runner[w].run, <<r, s.proposal>> \notin requests, <<r, s.proposal>> \notin happened,
               Continuing(w, Told(s, "rejected"))
        PROVE  IInv'
    <2>1. r \in Runs /\ runner[w].run = {r} /\ TypeOK
      BY OnRun DEF IInv
    <2>2. Sending(w, r, s.proposal)
      BY <1>1 DEF Sending
    <2>3. ASSUME NEW v \in Runners PROVE ~Sending(v, r, s.proposal)
                                         \/ v = w
      BY <1>2, <2>1, <2>2 DEF IInv, OneSends
    <2>4. /\ \A v \in Runners : v # w => runner'[v] = runner[v]
          /\ runner'[w].at = "save"
      BY <1>6, <2>1 DEF Continuing, Saving, TypeOK
    <2>5. \A v \in Runners, n \in ToolNumbers : n = s.proposal => ~Sending(v, r, n)'
      BY <2>3, <2>4 DEF Sending
    <2>6. \A q \in runner[w].run, n \in ToolNumbers : Holds(w, q) /\ n = s.proposal => TrueOf(q, n, "rejected")'
      BY <1>4, <1>6, <2>1, <2>5 DEF TrueOf, Dead
    <2> QED
      BY <1>1, <1>6, <2>6, TellsKeep DEF Continuing
  <1>7. CASE Ending(w, [s EXCEPT !.writePending = FALSE, !.confirmed = FALSE], "waiting_confirmation")
    BY <1>1, <1>7, RefusedKeeps DEF Ending
  <1> QED
    BY <1>3, <1>5, <1>6, <1>7 DEF Answer

LEMMA ReadKeeps ==
    ASSUME IInv, NEW w \in Runners, ReadTools(w) \/ Validate(w), Quiet
    PROVE  IInv'
  <1> DEFINE x == runner[w].state  s == [runner[w].state EXCEPT !.tools = @ + 1]
             t == [runner[w].state EXCEPT !.calls = "none", !.tools = @ + 1]
  <1>1. /\ runner[w].at \in {"read", "validate"} /\ x \in State /\ x.tools \in Nat /\ MaxTools \in Nat
        /\ x.tools < MaxTools /\ ~x.confirmed /\ (runner[w].at = "validate" => x.tools + 1 < MaxTools)
    BY Working DEF ReadTools, Validate, At, State, StageOK
  <1>2. CASE \E to \in {"failed", "waiting_auth"} : Ending(w, x, to)
    BY <1>1, <1>2, EndsKeep
  <1>3. /\ s \in State /\ s.proposal = x.proposal /\ s.confirmed = x.confirmed /\ s.writePending = x.writePending
        /\ s.modelPending = x.modelPending /\ s.round = x.round /\ s.told = x.told /\ s.tools = x.tools + 1
    BY <1>1 DEF State
  <1>4. /\ t \in State /\ t.proposal = x.proposal /\ t.confirmed = x.confirmed /\ t.writePending = x.writePending
        /\ t.modelPending = x.modelPending /\ t.round = x.round /\ t.told = x.told /\ t.tools = x.tools + 1
    <2>1. PICK k : k = x.tools + 1
      OBVIOUS
    <2>2. k \in 0..MaxTools
      BY <1>1, <2>1
    <2>3. t = [x EXCEPT !.calls = "none", !.tools = k]
      BY <1>1, <2>1 DEF State
    <2> HIDE DEF x, s, t
    <2> QED
      BY <1>1, <2>1, <2>2, <2>3 DEF State, CallKinds
  <1>5. ReadTools(w) => (\E to \in {"failed", "waiting_auth"} : Ending(w, x, to)) \/ Saving(w, t, "running", "top")
    BY DEF ReadTools, Unauthorised, Continuing
  <1>6. Validate(w) => \/ \E to \in {"failed", "waiting_auth"} : Ending(w, x, to)
                       \/ Saving(w, t, "running", "top")
                       \/ Saving(w, s, "failed", "idle")
                       \/ runner[w].at = "validate" /\ Saving(w, s, "running", "propose")
    BY DEF Validate, Unauthorised, Continuing, Ending, At
  <1> HIDE DEF s, t
  <1>7. CASE Saving(w, t, "running", "top")
    BY <1>1, <1>4, <1>7, ToolsKeep
  <1>8. CASE Saving(w, s, "failed", "idle")
    BY <1>1, <1>3, <1>8, ToolsKeep
  <1>9. CASE runner[w].at = "validate" /\ Saving(w, s, "running", "propose")
    BY <1>1, <1>3, <1>9, ToolsKeep
  <1> QED
    BY <1>2, <1>5, <1>6, <1>7, <1>8, <1>9

LEMMA ReplyKeeps ==
    ASSUME IInv, NEW w \in Runners, Reply(w), Quiet
    PROVE  IInv'
  <1> DEFINE x == runner[w].state  s == [runner[w].state EXCEPT !.modelPending = FALSE, !.round = @ + 1]
  <1>1. runner[w].at = "reply" /\ x \in State /\ x.round \in Nat /\ MaxRounds \in Nat /\ x.round < MaxRounds
    <2>1. runner[w].at = "reply"
      BY DEF Reply, At
    <2>2. x \in State /\ On(runner[w]) = "reply" /\ StageOK(runner[w]) /\ MaxRounds \in Nat
      BY <2>1, Working
    <2> QED
      BY <2>1, <2>2 DEF State, StageOK
  <1>2. CASE \E to \in {"cancelled", "unknown"} : Ending(w, x, to)
    BY <1>1, <1>2, EndsKeep
  <1>3. /\ s \in State /\ s.proposal = x.proposal /\ s.confirmed = x.confirmed /\ s.writePending = x.writePending
        /\ ~s.modelPending /\ s.round = x.round + 1 /\ s.tools = x.tools /\ s.told = x.told
    <2>1. PICK k : k = x.round + 1
      OBVIOUS
    <2>2. k \in 0..MaxRounds
      BY <1>1, <2>1
    <2>3. s = [x EXCEPT !.modelPending = FALSE, !.round = k]
      BY <1>1, <2>1 DEF State
    <2> HIDE DEF x, s
    <2> QED
      BY <1>1, <2>1, <2>2, <2>3 DEF State
  <1>4. \/ \E to \in {"cancelled", "unknown"} : Ending(w, x, to)
        \/ \E to \in {"failed", "succeeded"} : Saving(w, s, to, "idle")
        \/ \E calls \in CallKinds : Saving(w, [s EXCEPT !.calls = calls], "running", "top")
    BY DEF Reply, Ending, Continuing
  <1> HIDE DEF s
  <1>5. ASSUME NEW to \in {"failed", "succeeded"}, Saving(w, s, to, "idle") PROVE IInv'
    BY <1>1, <1>3, <1>5, AnsweredKeeps
  <1>6. ASSUME NEW calls \in CallKinds, Saving(w, [s EXCEPT !.calls = calls], "running", "top") PROVE IInv'
    <2> DEFINE t == [s EXCEPT !.calls = calls]
    <2>1. /\ t \in State /\ t.proposal = x.proposal /\ t.confirmed = x.confirmed /\ t.writePending = x.writePending
          /\ ~t.modelPending /\ t.round = x.round + 1 /\ t.tools = x.tools /\ t.told = x.told
      BY <1>3 DEF State
    <2>2. Saving(w, t, "running", "top")
      BY <1>6
    <2> HIDE DEF t
    <2> QED
      BY <1>1, <2>1, <2>2, AnsweredKeeps
  <1> QED
    BY <1>2, <1>4, <1>5, <1>6

\* A step of a runner that touches nothing but its own state.
LEMMA LocalKeeps ==
    ASSUME IInv, NEW w \in Runners, Local(w)
    PROVE  IInv'
  <1>1. Quiet
    BY DEF Local, Quiet
  <1>2. CASE Propose(w)
    <2>1. runner[w].at = "propose" /\ runner[w].state.tools < MaxTools /\ ~runner[w].state.confirmed
      BY <1>2, Working DEF Propose, At, StageOK
    <2> QED
      BY <1>1, <1>2, <2>1, ProposesKeep DEF Propose, Ending
  <1>3. CASE Catalog(w)
    <2>1. runner[w].at = "catalog"
      BY <1>3 DEF Catalog, At
    <2>2. CASE \E to \in {"failed", "waiting_auth"} : Ending(w, runner[w].state, to)
      BY <1>1, <2>1, <2>2, EndsKeep
    <2> QED
      BY <1>1, <1>3, <2>1, <2>2, AskIntentKeeps DEF Catalog, Unauthorised
  <1> QED
    BY <1>1, <1>2, <1>3, TopKeeps, InquireKeeps, ReadKeeps, ReplyKeeps, AnswerKeeps DEF Local

-----------------------------------------------------------------------------
(* Beats, and requests that leave. *)

\* A beat that cancels the context changes nothing that the work rests on.
LEMMA BeatsKeep ==
    ASSUME IInv, NEW w \in Runners, runner[w].at # "idle", runner' = [runner EXCEPT ![w].ctx = FALSE],
           UNCHANGED <<row, requests, happened, outcome, asked, sent, confirms>>, faults' \in 0..FaultLimit
    PROVE  IInv'
  <1>1. TypeOK /\ runner[w] \in Busy /\ StageOK(runner[w])
    BY AtWork DEF IInv, StagesReached
  <1>2. PICK b : b = [runner[w] EXCEPT !.ctx = FALSE]
    OBVIOUS
  <1>3. /\ b \in Busy /\ b.at = runner[w].at /\ b.run = runner[w].run /\ b.epoch = runner[w].epoch
        /\ b.state = runner[w].state /\ b.to = runner[w].to /\ b.next = runner[w].next
    BY <1>1, <1>2 DEF Busy
  <1>4. runner' = [runner EXCEPT ![w] = b] /\ runner'[w] = b
    BY <1>1, <1>2 DEF TypeOK
  <1>5. Moves(w)
    BY <1>1, <1>3, <1>4 DEF Moves, TypeOK
  <1>6. StageOK(b)
    BY <1>1, <1>3 DEF StageOK, On
  <1>7. ASSUME NEW r \in runner'[w].run, Holds(w, r)
        PROVE  IF runner'[w].at = "save" THEN SaveOK(w, r)' ELSE runner'[w].state = row[r].state
    <2>1. r \in runner[w].run
      BY <1>3, <1>4
    <2>2. r \in Runs
      BY <1>1, <2>1, OnRun
    <2>3. IF runner[w].at = "save" THEN SaveOK(w, r) ELSE runner[w].state = row[r].state
      BY <1>7, <2>1 DEF IInv, HoldersWork
    <2>4. ASSUME SaveOK(w, r) PROVE SaveOK(w, r)'
      <3>1. row' = row /\ runner[w].state.proposal \in ToolNumbers \cup {NoProposal}
        BY <1>1 DEF Busy, State
      <3>2. Follows(row[r].state, b)
        BY <1>3, <2>4 DEF SaveOK, Follows
      <3>3. \A n \in ToolNumbers : TrueOf(r, n, b.state.told[n])'
        <4>1. \A n \in ToolNumbers : TrueOf(r, n, b.state.told[n])
          BY <1>3, <2>4 DEF SaveOK
        <4> QED
          BY <1>1, <1>5, <2>2, <4>1, MovesLeave
      <3>4. row[r].state.modelPending => \A v \in Runners : ~Asking(v, r)'
        BY <1>1, <1>5, <2>2, <2>4, MovesLeave DEF SaveOK
      <3>5. (b.state.proposal # NoProposal /\ b.state.proposal = row[r].state.proposal /\ row[r].state.writePending /\ ~b.state.confirmed) =>
                \A v \in Runners : ~Sending(v, r, b.state.proposal)'
        <4>1. ASSUME b.state.proposal # NoProposal, b.state.proposal = row[r].state.proposal, row[r].state.writePending,
                     ~b.state.confirmed, NEW v \in Runners
              PROVE  ~Sending(v, r, b.state.proposal)
          BY <1>3, <2>4, <4>1 DEF SaveOK
        <4> QED
          BY <1>1, <1>3, <1>5, <2>2, <3>1, <4>1, MovesLeave
      <3> QED
        BY <1>4, <3>1, <3>2, <3>3, <3>4, <3>5 DEF SaveOK
    <2> QED
      BY <1>3, <1>4, <2>3, <2>4
  <1> QED
    BY <1>4, <1>5, <1>6, <1>7, MovesKeep

\* A runner that crashes, or whose save is refused, has nothing in hand.
LEMMA LeavesKeep ==
    ASSUME IInv, NEW w \in Runners, runner' = [runner EXCEPT ![w] = Idle],
           UNCHANGED <<row, requests, happened, outcome, asked, sent, confirms>>, faults' \in 0..FaultLimit
    PROVE  IInv'
  <1>1. runner'[w] = Idle /\ Idle.run = {} /\ Idle.at = "idle"
    BY DEF IInv, TypeOK, Idle
  <1>2. Moves(w)
    BY <1>1 DEF Moves, IInv, TypeOK
  <1> QED
    BY <1>1, <1>2, MovesKeep

\* A request leaves: the runner waits for the answer, with the same in hand.
Waits(w) ==
    /\ runner' \in [Runners -> {Idle} \cup Busy]
    /\ \A v \in Runners : v # w => runner'[v] = runner[v]
    /\ runner'[w].run = runner[w].run /\ runner'[w].epoch = runner[w].epoch /\ runner'[w].state = runner[w].state
    /\ \/ runner[w].at = "invoke" /\ runner'[w].at = "answer"
       \/ runner[w].at = "ask" /\ runner'[w].at = "reply"

LEMMA WaitsLeave ==
    ASSUME NEW w \in Runners, Waits(w)
    PROVE  /\ \A v \in Runners, r \in Runs, n \in ToolNumbers : Sending(v, r, n)' <=> Sending(v, r, n)
           /\ \A v \in Runners, r \in Runs : Asking(v, r)' <=> Asking(v, r)
  BY DEF Waits, Sending, Asking

LEMMA WaitsKeep ==
    ASSUME IInv, NEW w \in Runners, Waits(w), row' = row, happened' = happened,
           \A r \in Runs, n \in ToolNumbers : Dead(r, n) => Dead(r, n)'
    PROVE  /\ RowsReady' /\ StagesReached' /\ HoldersWork' /\ TellsTrue' /\ OneSends'
           /\ \A v \in Runners, r \in Runs : Asking(v, r)' =>
                 /\ row'[r].state.modelPending /\ row'[r].state.round = runner'[v].state.round
                 /\ \A u \in Runners : Asking(u, r)' => u = v
  <1> USE DEF IInv
  <1>1. RowsReady'
    BY DEF RowsReady
  <1>2. StagesReached'
    <2>1. runner[w].at # "idle" /\ StageOK(runner[w])
      BY DEF Waits, StagesReached
    <2>2. StageOK(runner'[w])
      BY <2>1 DEF StageOK, On, Waits
    <2> QED
      BY <2>2 DEF StagesReached, Waits
  <1>3. \A r \in Runs, n \in ToolNumbers : \A a : TrueOf(r, n, a) => TrueOf(r, n, a)'
    BY DEF TrueOf
  <1>4. HoldersWork'
    <2> SUFFICES ASSUME NEW v \in Runners, NEW r \in runner'[v].run
                 PROVE  /\ runner'[v].epoch <= row[r].epoch
                        /\ \A u \in Runners : r \in runner'[u].run /\ runner'[u].epoch = runner'[v].epoch => u = v
                        /\ Holds(v, r)' => /\ row[r].status = "running"
                                           /\ IF runner'[v].at = "save" THEN SaveOK(v, r)'
                                                                       ELSE runner'[v].state = row[r].state
      BY DEF HoldersWork
    <2>1. \A u \in Runners : runner'[u].run = runner[u].run /\ runner'[u].epoch = runner[u].epoch
                             /\ runner'[u].state = runner[u].state
      BY DEF Waits
    <2>2. r \in Runs
      BY <2>1, OnRun
    <2>3. Holds(v, r)' => Holds(v, r)
      BY <2>1 DEF Holds
    <2>4. ASSUME runner'[v].at = "save", SaveOK(v, r) PROVE SaveOK(v, r)'
      <3>1. runner'[v] = runner[v] /\ runner[v].state.proposal \in ToolNumbers \cup {NoProposal}
        BY <2>1, <2>4, OnRun DEF Waits, Busy, State
      <3> QED
        BY <1>3, <2>2, <2>4, <3>1, WaitsLeave DEF SaveOK
    <2>5. (runner'[v].at = "save") <=> (runner[v].at = "save")
      BY DEF Waits
    <2> QED
      BY <2>1, <2>3, <2>4, <2>5 DEF HoldersWork
  <1>5. TellsTrue'
    BY <1>3 DEF TellsTrue
  <1>6. OneSends'
    BY WaitsLeave DEF OneSends
  <1>7. ASSUME NEW v \in Runners, NEW r \in Runs, Asking(v, r)'
        PROVE  /\ row'[r].state.modelPending /\ row'[r].state.round = runner'[v].state.round
               /\ \A u \in Runners : Asking(u, r)' => u = v
    <2>1. runner'[v].state = runner[v].state
      BY DEF Waits
    <2> QED
      BY <1>7, <2>1, WaitsLeave DEF OneAsks
  <1> QED
    BY <1>1, <1>2, <1>4, <1>5, <1>6, <1>7

\* A write is sent: its confirmation is used up.
LEMMA InvokeKeeps ==
    ASSUME IInv, NEW w \in Runners, Invoke(w)
    PROVE  IInv'
  <1> USE DEF IInv
  <1>1. runner[w].at = "invoke" /\ TypeOK
    BY DEF Invoke, At
  <1>2. CASE ~runner[w].ctx /\ Ending(w, runner[w].state, "unknown") /\ UNCHANGED <<requests, sent>>
    <2>1. Quiet
      BY <1>2 DEF Invoke, Quiet, historyVars
    <2> QED
      BY <1>1, <1>2, <2>1, EndsKeep
  <1>3. ASSUME NEW r \in runner[w].run,
               requests' = requests \cup {<<r, runner[w].state.proposal>>},
               sent' = [sent EXCEPT ![<<r, runner[w].state.proposal>>] = @ + 1],
               Goes(w, "answer", runner[w].state)
        PROVE  IInv'
    <2>1. r \in Runs /\ runner[w] \in Busy /\ runner[w].run = {r}
      BY <1>1, OnRun
    <2>2. PICK p : p = runner[w].state.proposal
      OBVIOUS
    <2>3. p \in ToolNumbers /\ <<r, p>> \in RunOperations
      <3>1. p \in ToolNumbers
        BY <1>1, <2>2, Working DEF StageOK, StateOK, State
      <3> QED
        BY <2>1, <3>1 DEF RunOperations
    <2>4. UNCHANGED <<row, happened, outcome, asked, confirms, faults>>
      BY DEF Invoke, platformVars
    <2>5. Waits(w)
      <3>1. [runner[w] EXCEPT !.at = "answer", !.state = runner[w].state] \in Busy
        BY <2>1 DEF Busy, Stages
      <3> QED
        BY <1>1, <1>3, <2>1, <3>1 DEF Waits, Goes, TypeOK, Busy
    <2>6. Sending(w, r, p)
      BY <1>1, <2>2 DEF Sending
    <2>7. requests' = requests \cup {<<r, p>>} /\ sent' = [sent EXCEPT ![<<r, p>>] = @ + 1]
      BY <1>3, <2>2
    <2>8. ASSUME NEW q \in Runs, NEW n \in ToolNumbers, Dead(q, n) PROVE Dead(q, n)'
      BY <2>4, <2>5, <2>6, <2>7, <2>8, WaitsLeave DEF Dead
    <2>9. TypeOK'
      <3>1. sent' \in [RunOperations -> Nat]
        BY <1>1, <2>3, <2>7 DEF TypeOK
      <3>2. requests' \subseteq RunOperations
        BY <1>1, <2>3, <2>7 DEF TypeOK
      <3>3. runner' \in [Runners -> {Idle} \cup Busy]
        BY <2>5 DEF Waits
      <3> QED
        BY <1>1, <2>4, <3>1, <3>2, <3>3 DEF TypeOK
    <2>10. /\ RowsReady' /\ StagesReached' /\ HoldersWork' /\ TellsTrue' /\ OneSends' /\ ReportsTrue'
      BY <2>4, <2>5, <2>8, WaitsKeep DEF ReportsTrue
    <2>11. OneAsks'
      <3>1. ASSUME NEW v \in Runners, NEW q \in Runs, Asking(v, q)', runner'[v].at = "ask"
            PROVE  asked'[q][row'[q].state.round + 1] = 0
        <4>1. runner[v].at = "ask" /\ Asking(v, q)
          BY <1>1, <2>5, <3>1, WaitsLeave DEF Waits
        <4> QED
          BY <2>4, <4>1 DEF OneAsks
      <3> QED
        BY <2>4, <2>5, <2>8, <3>1, WaitsKeep DEF OneAsks
    <2>12. RoundsCounted'
      BY <2>4 DEF RoundsCounted
    <2>13. SendsCounted'
      <3> SUFFICES ASSUME NEW q \in Runs, NEW n \in ToolNumbers
                   PROVE  sent'[<<q, n>>] <= confirms[<<q, n>>] /\ (Permitted(q, n)' => sent'[<<q, n>>] < confirms[<<q, n>>])
        BY <2>4 DEF SendsCounted
      <3>1. <<q, n>> \in RunOperations /\ sent[<<q, n>>] \in Nat /\ confirms[<<q, n>>] \in Nat
        BY DEF RunOperations, TypeOK
      <3>2. CASE <<q, n>> # <<r, p>>
        <4>1. sent'[<<q, n>>] = sent[<<q, n>>]
          BY <2>7, <3>1, <3>2 DEF TypeOK
        <4>2. Permitted(q, n)' => Permitted(q, n)
          BY <2>4, <2>5 DEF Permitted, Waits
        <4> QED
          BY <4>1, <4>2 DEF SendsCounted
      <3>3. CASE q = r /\ n = p
        <4>1. sent'[<<q, n>>] = sent[<<q, n>>] + 1
          BY <2>7, <3>1, <3>3 DEF TypeOK
        <4>2. Permitted(r, p)
          BY <1>1, <1>3, <2>2 DEF Permitted
        <4>3. sent[<<r, p>>] < confirms[<<r, p>>]
          BY <2>1, <2>3, <4>2 DEF SendsCounted
        <4>4. ~(row[r].state.proposal = p /\ row[r].state.confirmed /\ ~row[r].state.writePending)
          BY <2>1, <2>3, <2>6 DEF OneSends
        <4>5. ASSUME NEW v \in Runners, r \in runner'[v].run, runner'[v].at = "invoke", runner'[v].state.proposal = p
              PROVE  FALSE
          <5>1. Sending(v, r, p)
            BY <2>5, <4>5 DEF Sending, Waits
          <5>2. v = w
            BY <2>1, <2>3, <2>6, <5>1 DEF OneSends
          <5> QED
            BY <1>1, <2>5, <4>5, <5>2 DEF Waits
        <4>6. ~Permitted(r, p)'
          BY <2>4, <4>4, <4>5 DEF Permitted
        <4> QED
          BY <3>1, <3>3, <4>1, <4>3, <4>6
      <3> QED
        BY <3>2, <3>3
    <2> QED
      BY <2>9, <2>10, <2>11, <2>12, <2>13
  <1> QED
    BY <1>2, <1>3 DEF Invoke

\* The model is asked: the round is used up.
LEMMA AskKeeps ==
    ASSUME IInv, NEW w \in Runners, Ask(w)
    PROVE  IInv'
  <1> USE DEF IInv
  <1>1. runner[w].at = "ask" /\ TypeOK
    BY DEF Ask, At
  <1>2. CASE ~runner[w].ctx /\ Ending(w, runner[w].state, "cancelled") /\ UNCHANGED asked
    <2>1. Quiet
      BY <1>2 DEF Ask, Quiet, historyVars
    <2> QED
      BY <1>1, <1>2, <2>1, EndsKeep
  <1>3. ASSUME NEW r \in runner[w].run, asked' = [asked EXCEPT ![r][runner[w].state.round + 1] = @ + 1],
               Goes(w, "reply", runner[w].state)
        PROVE  IInv'
    <2>1. r \in Runs /\ runner[w] \in Busy /\ runner[w].run = {r}
      BY <1>1, OnRun
    <2>2. Asking(w, r)
      BY <1>1 DEF Asking
    <2>3. PICK k : k = row[r].state.round + 1
      OBVIOUS
    <2>4. runner[w].state.round = row[r].state.round /\ row[r].state.modelPending /\ asked[r][k] = 0
      BY <1>1, <2>1, <2>2, <2>3 DEF OneAsks
    <2>5. k \in 1..MaxRounds
      <3>1. runner[w].state.round < MaxRounds /\ runner[w].state.round \in Nat /\ MaxRounds \in Nat
        BY <1>1, Working DEF StageOK, State
      <3> QED
        BY <2>3, <2>4, <3>1
    <2>6. asked' = [asked EXCEPT ![r] = [asked[r] EXCEPT ![k] = @ + 1]]
      BY <1>3, <2>3, <2>4
    <2>7. UNCHANGED <<row, requests, happened, outcome, sent, confirms, faults>>
      BY DEF Ask, platformVars
    <2>8. Waits(w)
      <3>1. [runner[w] EXCEPT !.at = "reply", !.state = runner[w].state] \in Busy
        BY <2>1 DEF Busy, Stages
      <3> QED
        BY <1>1, <1>3, <2>1, <3>1 DEF Waits, Goes, TypeOK, Busy
    <2>9. ASSUME NEW q \in Runs, NEW n \in ToolNumbers, Dead(q, n) PROVE Dead(q, n)'
      BY <2>7, <2>8, <2>9, WaitsLeave DEF Dead
    <2>10. asked \in [Runs -> [1..MaxRounds -> Nat]]
      BY DEF TypeOK
    <2>11. asked'[r] = [asked[r] EXCEPT ![k] = 1] /\ \A q \in Runs : q # r => asked'[q] = asked[q]
      BY <2>1, <2>4, <2>5, <2>6, <2>10
    <2>12. asked' \in [Runs -> [1..MaxRounds -> Nat]]
      BY <2>1, <2>4, <2>5, <2>6, <2>10
    <2>13. TypeOK'
      BY <2>7, <2>8, <2>12 DEF TypeOK, Waits
    <2>14. /\ RowsReady' /\ StagesReached' /\ HoldersWork' /\ TellsTrue' /\ OneSends' /\ ReportsTrue'
      BY <2>7, <2>8, <2>9, WaitsKeep DEF ReportsTrue
    <2>15. OneAsks'
      <3>1. ASSUME NEW v \in Runners, NEW q \in Runs, Asking(v, q)', runner'[v].at = "ask"
            PROVE  asked'[q][row'[q].state.round + 1] = 0
        <4>1. v # w
          BY <1>1, <2>8, <3>1 DEF Waits
        <4>2. runner[v].at = "ask" /\ Asking(v, q)
          BY <2>8, <3>1, <4>1, WaitsLeave DEF Waits
        <4>3. q # r
          BY <2>1, <2>2, <4>1, <4>2 DEF OneAsks
        <4> QED
          BY <2>7, <2>11, <4>2, <4>3 DEF OneAsks
      <3> QED
        BY <2>7, <2>8, <2>9, <3>1, WaitsKeep DEF OneAsks
    <2>16. SendsCounted'
      <3>1. \A q \in Runs, n \in ToolNumbers : Permitted(q, n)' => Permitted(q, n)
        BY <2>7, <2>8, <1>1 DEF Permitted, Waits
      <3> QED
        BY <2>7, <3>1 DEF SendsCounted
    <2>17. RoundsCounted'
      <3> SUFFICES ASSUME NEW q \in Runs, NEW j \in 1..MaxRounds
                   PROVE  /\ asked'[q][j] <= 1
                          /\ asked'[q][j] # 0 => \/ j <= row[q].state.round
                                                 \/ j = row[q].state.round + 1 /\ row[q].state.modelPending
        BY <2>7 DEF RoundsCounted
      <3>1. CASE q = r /\ j = k
        BY <2>3, <2>4, <2>10, <2>11, <3>1, <2>5
      <3>2. CASE q # r \/ j # k
        <4>1. asked'[q][j] = asked[q][j]
          BY <2>10, <2>11, <3>2
        <4> QED
          BY <4>1 DEF RoundsCounted
      <3> QED
        BY <3>1, <3>2
    <2> QED
      BY <2>13, <2>14, <2>15, <2>16, <2>17
  <1> QED
    BY <1>2, <1>3 DEF Ask

-----------------------------------------------------------------------------
(* Checkpoints. *)

\* Runner w saves run r: the row takes the runner's state, and the runner goes on
\* to what the save was for.
Saves(w, r) ==
    LET b == runner[w] IN
    /\ b.at = "save" /\ b.run = {r} /\ row[r].status = "running" /\ b.epoch = row[r].epoch
    /\ row' \in [Runs -> Row] /\ \A q \in Runs : q # r => row'[q] = row[q]
    /\ row'[r].state = b.state /\ row'[r].status = b.to
    /\ row'[r].epoch = row[r].epoch /\ row'[r].cancel = row[r].cancel
    /\ runner' \in [Runners -> {Idle} \cup Busy] /\ \A v \in Runners : v # w => runner'[v] = runner[v]
    /\ IF b.next = "idle" THEN runner'[w] = Idle
       ELSE /\ runner'[w].at = b.next /\ runner'[w].state = b.state /\ runner'[w].run = b.run
            /\ runner'[w].epoch = b.epoch /\ runner'[w].to = b.to /\ runner'[w].next = b.next
    /\ UNCHANGED <<requests, platformVars, historyVars, faults>>

LEMMA SaveSaves ==
    ASSUME TypeOK, NEW w \in Runners, Save(w), Mine(w)
    PROVE  \E r \in Runs : Saves(w, r)
  <1>1. runner[w].at = "save"
    BY DEF Save, At
  <1>2. PICK r \in runner[w].run : row[r].status = "running" /\ row[r].epoch = runner[w].epoch
    BY DEF Mine
  <1>3. r \in Runs /\ runner[w] \in Busy /\ runner[w].run = {r}
    BY <1>2, OnRun
  <1>4. runner[w].state \in State /\ runner[w].to \in Active \cup Ended /\ runner[w].next \in Stages \cup {"idle"}
    BY <1>3 DEF Busy
  <1>5. PICK x : x = [row[r] EXCEPT !.state = runner[w].state, !.status = runner[w].to,
                                    !.live = @ /\ runner[w].to = "running"]
    OBVIOUS
  <1>6. /\ x \in Row /\ x.state = runner[w].state /\ x.status = runner[w].to /\ x.epoch = row[r].epoch
        /\ x.cancel = row[r].cancel
    <2>1. row[r] \in Row /\ row[r].live \in BOOLEAN
      BY <1>3 DEF TypeOK, Row
    <2>2. PICK l \in BOOLEAN : l = (row[r].live /\ runner[w].to = "running")
      OBVIOUS
    <2>3. x = [row[r] EXCEPT !.state = runner[w].state, !.status = runner[w].to, !.live = l]
      BY <1>5, <2>1, <2>2 DEF Row
    <2> QED
      BY <1>4, <2>1, <2>3 DEF Row
  <1>7. row' = [row EXCEPT ![r] = x]
    <2>1. row' = [q \in Runs |-> IF q \notin runner[w].run THEN row[q] ELSE
                      [row[q] EXCEPT !.state = runner[w].state, !.status = runner[w].to,
                                     !.live = @ /\ runner[w].to = "running"]]
      BY DEF Save
    <2>2. \A q \in Runs : q \in runner[w].run <=> q = r
      BY <1>3
    <2>3. row' = [q \in Runs |-> IF q # r THEN row[q] ELSE x]
      BY <1>5, <2>1, <2>2
    <2> QED
      BY <1>3, <2>3 DEF TypeOK
  <1>8. runner' = [runner EXCEPT ![w] = IF runner[w].next = "idle" THEN Idle ELSE [runner[w] EXCEPT !.at = runner[w].next]]
    BY DEF Save
  <1>9. runner[w].next # "idle" => [runner[w] EXCEPT !.at = runner[w].next] \in Busy
    BY <1>3 DEF Busy, Stages
  <1>10. /\ runner' \in [Runners -> {Idle} \cup Busy] /\ \A v \in Runners : v # w => runner'[v] = runner[v]
         /\ runner'[w] = IF runner[w].next = "idle" THEN Idle ELSE [runner[w] EXCEPT !.at = runner[w].next]
    BY <1>8, <1>9 DEF TypeOK
  <1>11. runner[w].next # "idle" =>
            /\ runner'[w].at = runner[w].next /\ runner'[w].state = runner[w].state /\ runner'[w].run = runner[w].run
            /\ runner'[w].epoch = runner[w].epoch /\ runner'[w].to = runner[w].to /\ runner'[w].next = runner[w].next
    BY <1>3, <1>10 DEF Busy
  <1>12. row' \in [Runs -> Row] /\ row'[r] = x /\ \A q \in Runs : q # r => row'[q] = row[q]
    BY <1>3, <1>6, <1>7 DEF TypeOK
  <1>13. Saves(w, r)
    BY <1>1, <1>2, <1>3, <1>6, <1>10, <1>11, <1>12 DEF Saves, Save
  <1> QED
    BY <1>3, <1>13

\* What a save by the holder rests on.
LEMMA SaveRests ==
    ASSUME IInv, NEW w \in Runners, NEW r \in Runs, Saves(w, r)
    PROVE  /\ StageOK(runner[w]) /\ SaveOK(w, r) /\ On(runner[w]) = runner[w].next
           /\ runner[w] \in Busy /\ runner[w].state \in State /\ row[r].state \in State
           /\ row[r].state.tools \in Nat /\ row[r].state.round \in Nat /\ MaxRounds \in Nat
           /\ runner[w].state.tools \in Nat /\ runner[w].state.round \in Nat
  <1>1. runner[w].at = "save" /\ r \in runner[w].run /\ Holds(w, r)
    BY DEF Saves, Holds
  <1>2. StageOK(runner[w]) /\ SaveOK(w, r) /\ runner[w] \in Busy
    BY <1>1, AtWork DEF IInv, StagesReached, HoldersWork
  <1>3. runner[w].state \in State /\ row[r].state \in State
    BY <1>2 DEF Busy, IInv, TypeOK, Row
  <1> QED
    BY <1>1, <1>2, <1>3, ConstantsAssumption DEF State, On

\* Who has write n of run r in hand after the save, and nobody but runner w.
LEMMA SaveSends ==
    ASSUME IInv, NEW w \in Runners, NEW r \in Runs, Saves(w, r)
    PROVE  /\ \A v \in Runners, q \in Runs, n \in ToolNumbers : Sending(v, q, n)' /\ v # w => Sending(v, q, n)
           /\ \A q \in Runs, n \in ToolNumbers : Sending(w, q, n)' =>
                 /\ q = r /\ n = runner[w].state.proposal /\ runner[w].next = "invoke" /\ runner[w].state.writePending
                 /\ n = row[r].state.proposal /\ row[r].state.confirmed /\ ~row[r].state.writePending
                 /\ \A v \in Runners : ~Sending(v, r, n)
           /\ \A q \in Runs, n \in ToolNumbers : q # r /\ Dead(q, n) => Dead(q, n)'
           /\ \A n \in ToolNumbers : n # runner[w].state.proposal /\ Dead(r, n) => Dead(r, n)'
  <1>1. \A v \in Runners, q \in Runs, n \in ToolNumbers : Sending(v, q, n)' /\ v # w => Sending(v, q, n)
    BY DEF Saves, Sending
  <1>2. ASSUME NEW q \in Runs, NEW n \in ToolNumbers, Sending(w, q, n)'
        PROVE  /\ q = r /\ n = runner[w].state.proposal /\ runner[w].next = "invoke" /\ runner[w].state.writePending
               /\ n = row[r].state.proposal /\ row[r].state.confirmed /\ ~row[r].state.writePending
               /\ \A v \in Runners : ~Sending(v, r, n)
    <2>1. runner'[w] # Idle
      BY <1>2 DEF Sending, Idle
    <2>2. q = r /\ n = runner[w].state.proposal /\ runner[w].next \in {"invoke", "answer"}
      BY <1>2, <2>1 DEF Sending, Saves
    <2>3. runner[w].next = "invoke" /\ runner[w].state.writePending
      BY <2>2, SaveRests DEF StageOK, Saves
    <2>4. n = row[r].state.proposal /\ row[r].state.confirmed /\ ~row[r].state.writePending
      BY <2>2, <2>3, SaveRests DEF SaveOK, Follows
    <2>5. \A v \in Runners : ~Sending(v, r, n)
      BY <2>4 DEF IInv, OneSends
    <2> QED
      BY <2>2, <2>3, <2>4, <2>5
  <1>3. happened' = happened /\ outcome' = outcome /\ requests' = requests
    BY DEF Saves, platformVars
  <1>4. \A q \in Runs, n \in ToolNumbers : q # r /\ Dead(q, n) => Dead(q, n)'
    BY <1>1, <1>2, <1>3 DEF Dead
  <1>5. \A n \in ToolNumbers : n # runner[w].state.proposal /\ Dead(r, n) => Dead(r, n)'
    BY <1>1, <1>2, <1>3 DEF Dead
  <1> QED
    BY <1>1, <1>2, <1>4, <1>5

LEMMA SaveAsks ==
    ASSUME IInv, NEW w \in Runners, NEW r \in Runs, Saves(w, r)
    PROVE  /\ \A v \in Runners, q \in Runs : Asking(v, q)' /\ v # w => Asking(v, q) /\ q # r
           /\ \A q \in Runs : Asking(w, q)' => q = r /\ runner[w].next = "ask"
  <1>1. \A v \in Runners, q \in Runs : Asking(v, q)' /\ v # w => Asking(v, q)
    BY DEF Saves, Asking
  <1>2. ASSUME NEW v \in Runners, Asking(v, r) PROVE FALSE
    <2>1. row[r].state.modelPending
      BY <1>2 DEF IInv, OneAsks
    <2> QED
      BY <1>2, <2>1, SaveRests DEF SaveOK
  <1>3. ASSUME NEW q \in Runs, Asking(w, q)' PROVE q = r /\ runner[w].next = "ask"
    <2>1. runner'[w] # Idle
      BY <1>3 DEF Asking, Idle
    <2>2. q = r /\ runner[w].next \in {"ask", "reply"}
      BY <1>3, <2>1 DEF Asking, Saves
    <2> QED
      BY <2>2, SaveRests DEF StageOK, Saves
  <1> QED
    BY <1>1, <1>2, <1>3

LEMMA SaveKeepsHolders ==
    ASSUME IInv, NEW w \in Runners, NEW r \in Runs, Saves(w, r)
    PROVE  TypeOK' /\ RowsReady' /\ StagesReached' /\ TellsTrue' /\ HoldersWork'
  <1> USE DEF IInv
  <1>1. TypeOK'
    BY DEF Saves, TypeOK, platformVars, historyVars
  <1>2. RowsReady'
    <2>1. ASSUME NEW q \in Runs, q # r PROVE RowOK(row'[q])
      BY <2>1 DEF Saves, RowsReady
    <2>2. RowOK(row'[r])
      <3>1. StateOK(runner[w].state) /\ StatusOK(runner[w].to, runner[w].state) /\ runner[w].to # "queued"
        BY SaveRests DEF StageOK, Saves
      <3>2. runner[w].to # "absent"
        BY SaveRests DEF Busy, Active, Ended
      <3> QED
        BY <3>1, <3>2 DEF RowOK, Saves
    <2> QED
      BY <2>1, <2>2 DEF RowsReady
  <1>3. StagesReached'
    <2>1. ASSUME runner'[w].at # "idle" PROVE StageOK(runner'[w])
      <3>1. runner[w].next # "idle"
        BY <2>1 DEF Saves, Idle
      <3>2. /\ runner'[w].at = runner[w].next /\ runner'[w].state = runner[w].state
            /\ runner'[w].to = runner[w].to /\ runner'[w].next = runner[w].next
        BY <3>1 DEF Saves
      <3>3. StageOK(runner[w]) /\ runner[w].at = "save"
        BY SaveRests DEF Saves
      <3>4. runner[w].next # "save"
        BY <3>3 DEF StageOK
      <3>5. On(runner'[w]) = On(runner[w]) /\ runner'[w].at # "save"
        BY <3>2, <3>3, <3>4 DEF On
      <3> QED
        BY <3>2, <3>3, <3>5 DEF StageOK
    <2> QED
      BY <2>1 DEF StagesReached, Saves
  <1>4. TellsTrue'
    <2>1. happened' = happened
      BY DEF Saves, platformVars
    <2>2. ASSUME NEW q \in Runs, q # r, NEW n \in ToolNumbers PROVE TrueOf(q, n, row[q].state.told[n])'
      <3>1. row'[q] = row[q]
        BY <2>2 DEF Saves
      <3>2. TrueOf(q, n, row[q].state.told[n])
        BY DEF TellsTrue
      <3>3. Dead(q, n) => Dead(q, n)'
        BY <2>2, SaveSends
      <3> QED
        BY <2>1, <3>1, <3>2, <3>3 DEF TrueOf
    <2>3. ASSUME NEW n \in ToolNumbers PROVE TrueOf(r, n, row[r].state.told[n])'
      <3>1. row'[r].state = runner[w].state
        BY DEF Saves
      <3>2. TrueOf(r, n, runner[w].state.told[n])
        BY SaveRests DEF SaveOK
      <3>3. runner[w].state.told[n] # "nothing" => n # runner[w].state.proposal
        BY SaveRests DEF StageOK, StateOK
      <3> QED
        BY <2>1, <3>1, <3>2, <3>3, SaveSends DEF TrueOf
    <2> QED
      BY <2>2, <2>3 DEF TellsTrue
  <1>5. HoldersWork'
    <2>1. \A v \in Runners : \A q \in runner'[v].run : q \in runner[v].run /\ runner'[v].epoch = runner[v].epoch
      BY DEF Saves, Idle
    <2>2. \A q \in Runs : row'[q].epoch = row[q].epoch
      BY DEF Saves
    <2> SUFFICES ASSUME NEW v \in Runners, NEW q \in runner'[v].run
                 PROVE  /\ runner'[v].epoch <= row'[q].epoch
                        /\ \A u \in Runners : q \in runner'[u].run /\ runner'[u].epoch = runner'[v].epoch => u = v
                        /\ Holds(v, q)' => /\ row'[q].status = "running"
                                           /\ IF runner'[v].at = "save" THEN SaveOK(v, q)'
                                                                       ELSE runner'[v].state = row'[q].state
      BY DEF HoldersWork
    <2>3. q \in Runs /\ q \in runner[v].run
      BY <2>1, OnRun
    <2>4. /\ runner'[v].epoch <= row'[q].epoch
          /\ \A u \in Runners : q \in runner'[u].run /\ runner'[u].epoch = runner'[v].epoch => u = v
      BY <2>1, <2>2, <2>3 DEF HoldersWork
    <2>5. Holds(v, q)' => Holds(v, q)
      BY <2>1, <2>2, <2>3 DEF Holds
    <2>6. ASSUME v = w, Holds(v, q)'
          PROVE  row'[q].status = "running" /\ runner'[v].at # "save" /\ runner'[v].state = row'[q].state
      <3>1. runner'[w] # Idle /\ q = r
        BY <2>3, <2>6 DEF Saves, Idle
      <3>2. runner[w].next # "idle" /\ runner'[w].at = runner[w].next /\ runner'[w].state = runner[w].state
        BY <3>1 DEF Saves
      <3>3. runner[w].to = "running" /\ runner[w].next # "save"
        BY <3>2, SaveRests DEF StageOK, Saves
      <3> QED
        BY <2>6, <3>1, <3>2, <3>3 DEF Saves
    <2>7. ASSUME v # w, Holds(v, q)'
          PROVE  /\ row'[q].status = "running"
                 /\ IF runner'[v].at = "save" THEN SaveOK(v, q)' ELSE runner'[v].state = row'[q].state
      <3>1. q # r
        BY <2>3, <2>5, <2>7 DEF Saves, Holds, HoldersWork
      <3>2. runner'[v] = runner[v] /\ row'[q] = row[q] /\ happened' = happened
        BY <2>3, <2>7, <3>1 DEF Saves, platformVars
      <3>3. row[q].status = "running" /\ IF runner[v].at = "save" THEN SaveOK(v, q) ELSE runner[v].state = row[q].state
        BY <2>3, <2>5, <2>7 DEF HoldersWork
      <3>4. ASSUME SaveOK(v, q) PROVE SaveOK(v, q)'
        <4>1. runner[v].state.proposal \in ToolNumbers \cup {NoProposal}
          BY <2>3, OnRun DEF Busy, State
        <4>2. \A n \in ToolNumbers : \A a : TrueOf(q, n, a) => TrueOf(q, n, a)'
          BY <2>3, <3>1, <3>2, SaveSends DEF TrueOf
        <4>3. \A n \in ToolNumbers, u \in Runners : Sending(u, q, n)' => Sending(u, q, n)
          BY <2>3, <3>1, SaveSends
        <4>4. \A u \in Runners : Asking(u, q)' => Asking(u, q)
          BY <2>3, <3>1, SaveAsks
        <4> QED
          BY <3>2, <3>4, <4>1, <4>2, <4>3, <4>4 DEF SaveOK
      <3> QED
        BY <3>2, <3>3, <3>4
    <2> QED
      BY <2>4, <2>6, <2>7
  <1> QED
    BY <1>1, <1>2, <1>3, <1>4, <1>5

LEMMA SaveKeeps ==
    ASSUME IInv, NEW w \in Runners, NEW r \in Runs, Saves(w, r)
    PROVE  IInv'
  <1> USE DEF IInv
  <1>1. Follows(row[r].state, runner[w])
    BY SaveRests DEF SaveOK
  <1>2. row'[r].state = runner[w].state /\ \A q \in Runs : q # r => row'[q] = row[q]
    BY DEF Saves
  <1>3. UNCHANGED <<happened, outcome, asked, sent, confirms>>
    BY DEF Saves, platformVars, historyVars
  <1>4. OneSends'
    <2> SUFFICES ASSUME NEW v \in Runners, NEW q \in Runs, NEW n \in ToolNumbers, Sending(v, q, n)'
                 PROVE  /\ n <= row'[q].state.tools
                        /\ row'[q].state.proposal = n => row'[q].state.writePending
                        /\ \A u \in Runners : Sending(u, q, n)' => u = v
      BY DEF OneSends
    <2>1. CASE v = w
      <3>1. /\ q = r /\ n = runner[w].state.proposal /\ runner[w].state.writePending
            /\ \A u \in Runners : ~Sending(u, r, n)
        BY <2>1, SaveSends
      <3>2. n <= runner[w].state.tools
        BY <3>1, SaveRests DEF StageOK, StateOK
      <3> QED
        BY <1>2, <2>1, <3>1, <3>2, SaveSends
    <2>2. CASE v # w
      <3>1. Sending(v, q, n)
        BY <2>2, SaveSends
      <3>2. \A u \in Runners : Sending(u, q, n)' => u = v
        <4>1. ~Sending(w, q, n)'
          BY <3>1, SaveSends
        <4> QED
          BY <3>1, <4>1, SaveSends DEF OneSends
      <3>3. CASE q # r
        BY <1>2, <3>1, <3>2, <3>3 DEF OneSends
      <3>4. CASE q = r
        <4>1. n <= row[r].state.tools /\ (row[r].state.proposal = n => row[r].state.writePending)
          BY <3>1, <3>4 DEF OneSends
        <4>2. n <= runner[w].state.tools
          BY <1>1, <4>1, SaveRests DEF Follows, ToolNumbers
        <4>3. ASSUME runner[w].state.proposal = n PROVE runner[w].state.writePending
          <5>1. n # NoProposal /\ ~(n > row[r].state.tools)
            BY <4>1, SaveRests DEF ToolNumbers, NoProposal
          <5>2. runner[w].next = "invoke" => runner[w].state.writePending
            BY SaveRests DEF StageOK
          <5>3. ~(n = row[r].state.proposal /\ row[r].state.writePending /\ ~runner[w].state.confirmed)
            BY <3>1, <3>4, <4>3, <5>1, SaveRests DEF SaveOK
          <5> QED
            BY <1>1, <4>1, <4>3, <5>1, <5>2, <5>3 DEF Follows
        <4> QED
          BY <1>2, <3>2, <3>4, <4>2, <4>3
      <3> QED
        BY <3>3, <3>4
    <2> QED
      BY <2>1, <2>2
  <1>5. RoundsCounted'
    <2> SUFFICES ASSUME NEW k \in 1..MaxRounds, asked[r][k] # 0
                 PROVE  \/ k <= runner[w].state.round
                        \/ k = runner[w].state.round + 1 /\ runner[w].state.modelPending
      BY <1>2, <1>3 DEF RoundsCounted
    <2>1. \/ k <= row[r].state.round
          \/ k = row[r].state.round + 1 /\ row[r].state.modelPending
      BY DEF RoundsCounted
    <2> QED
      BY <1>1, <2>1, SaveRests DEF Follows
  <1>6. OneAsks'
    <2> SUFFICES ASSUME NEW v \in Runners, NEW q \in Runs, Asking(v, q)'
                 PROVE  /\ row'[q].state.modelPending /\ row'[q].state.round = runner'[v].state.round
                        /\ \A u \in Runners : Asking(u, q)' => u = v
                        /\ runner'[v].at = "ask" => asked[q][row'[q].state.round + 1] = 0
      BY <1>3 DEF OneAsks
    <2>1. CASE v = w
      <3>1. q = r /\ runner[w].next = "ask"
        BY <2>1, SaveAsks
      <3>2. runner'[w].state = runner[w].state
        BY <3>1 DEF Saves
      <3>3. runner[w].state.modelPending /\ runner[w].state.round < MaxRounds
        BY <3>1, SaveRests DEF StageOK
      <3>4. ~row[r].state.modelPending /\ runner[w].state.round = row[r].state.round
        BY <1>1, <3>1, <3>3 DEF Follows
      <3>5. asked[r][row[r].state.round + 1] = 0
        <4>1. row[r].state.round + 1 \in 1..MaxRounds
          BY <3>3, <3>4, SaveRests
        <4> QED
          BY <3>4, <4>1, SaveRests DEF RoundsCounted
      <3> QED
        BY <1>2, <2>1, <3>1, <3>2, <3>3, <3>4, <3>5, SaveAsks
    <2>2. CASE v # w
      <3>1. Asking(v, q) /\ q # r /\ runner'[v] = runner[v]
        <4>1. Asking(v, q) /\ q # r
          BY <2>2, SaveAsks
        <4>2. runner'[v] = runner[v]
          BY <2>2 DEF Saves
        <4> QED
          BY <4>1, <4>2
      <3> QED
        BY <1>2, <2>2, <3>1, SaveAsks DEF OneAsks
    <2> QED
      BY <2>1, <2>2
  <1>7. SendsCounted'
    <2>1. ASSUME NEW q \in Runs, NEW n \in ToolNumbers, Permitted(q, n)' PROVE Permitted(q, n)
      <3>1. CASE \E v \in Runners : q \in runner'[v].run /\ runner'[v].at = "invoke" /\ runner'[v].state.proposal = n
        <4>1. PICK v \in Runners : q \in runner'[v].run /\ runner'[v].at = "invoke" /\ runner'[v].state.proposal = n
          BY <3>1
        <4>2. CASE v = w
          <5>1. Sending(w, q, n)'
            BY <4>1, <4>2 DEF Sending
          <5> QED
            BY <5>1, SaveSends DEF Permitted
        <4>3. CASE v # w
          BY <4>1, <4>3 DEF Permitted, Saves
        <4> QED
          BY <4>2, <4>3
      <3>2. CASE row'[q].state.proposal = n /\ row'[q].state.confirmed /\ ~row'[q].state.writePending
        <4>1. CASE q # r
          BY <1>2, <3>2, <4>1 DEF Permitted
        <4>2. CASE q = r
          <5>1. runner[w].state.proposal = n /\ runner[w].state.confirmed /\ ~runner[w].state.writePending
            BY <1>2, <3>2, <4>2
          <5>2. runner[w].next # "invoke" /\ n # NoProposal
            BY <5>1, SaveRests DEF StageOK, ToolNumbers, NoProposal
          <5>3. row[r].state.proposal = n /\ row[r].state.confirmed /\ ~row[r].state.writePending
            BY <1>1, <5>1, <5>2 DEF Follows
          <5> QED
            BY <4>2, <5>3 DEF Permitted
        <4> QED
          BY <4>1, <4>2
      <3> QED
        BY <2>1, <3>1, <3>2 DEF Permitted
    <2> QED
      BY <1>3, <2>1 DEF SendsCounted
  <1>8. ReportsTrue'
    BY <1>3 DEF ReportsTrue
  <1> QED
    BY <1>4, <1>5, <1>6, <1>7, <1>8, SaveKeepsHolders

-----------------------------------------------------------------------------
(* The queue, users and the lease. *)

\* Runner w starts on a run that it has just claimed.
Starts(w) ==
    /\ runner[w].at = "idle" /\ runner'[w].at = "top" /\ StageOK(runner'[w])
    /\ \E r \in Runs : /\ runner'[w].run = {r} /\ runner'[w].epoch = row'[r].epoch /\ row'[r].epoch > row[r].epoch
                       /\ row'[r].status = "running" /\ runner'[w].state = row'[r].state

\* Steps that change the rows and not what they say of the work: whoever held a run
\* goes on holding it, or its epoch is past.
LEMMA RowsKeep ==
    ASSUME IInv, row' \in [Runs -> Row], runner' \in [Runners -> {Idle} \cup Busy],
           \A v \in Runners : runner'[v] = runner[v] \/ Starts(v),
           \A u, v \in Runners : runner'[u] # runner[u] /\ runner'[v] # runner[v] => u = v,
           UNCHANGED <<requests, happened, outcome, asked, sent, confirms>>, faults' \in 0..FaultLimit,
           \A r \in Runs : /\ RowOK(row'[r]) /\ row'[r].state = row[r].state
                           /\ \/ row'[r].epoch > row[r].epoch
                              \/ /\ row'[r].epoch = row[r].epoch
                                 /\ row[r].status = "running" => row'[r].status = "running"
    PROVE  IInv'
  <1> USE DEF IInv
  <1>1. TypeOK'
    BY DEF TypeOK
  <1>2. RowsReady' /\ ReportsTrue' /\ RoundsCounted'
    BY DEF RowsReady, ReportsTrue, RoundsCounted
  <1>3. StagesReached'
    BY DEF StagesReached, Starts
  <1>4. \A v \in Runners, r \in Runs : r \in runner[v].run => runner[v].at # "idle"
    BY OnRun
  <1>5. \A v \in Runners, r \in Runs, n \in ToolNumbers : Sending(v, r, n)' <=> Sending(v, r, n)
    BY <1>4 DEF Sending, Starts
  <1>6. \A v \in Runners, r \in Runs : Asking(v, r)' <=> Asking(v, r)
    BY <1>4 DEF Asking, Starts
  <1>7. \A r \in Runs, n \in ToolNumbers : \A a : TrueOf(r, n, a) => TrueOf(r, n, a)'
    BY <1>5 DEF TrueOf, Dead
  <1>8. TellsTrue'
    BY <1>7 DEF TellsTrue
  <1>9. OneSends'
    BY <1>5 DEF OneSends
  <1>10. OneAsks'
    <2> SUFFICES ASSUME NEW v \in Runners, NEW r \in Runs, Asking(v, r)'
                 PROVE  /\ row'[r].state.modelPending /\ row'[r].state.round = runner'[v].state.round
                        /\ \A u \in Runners : Asking(u, r)' => u = v
                        /\ runner'[v].at = "ask" => asked[r][row'[r].state.round + 1] = 0
      BY DEF OneAsks
    <2>1. Asking(v, r) /\ runner'[v].at # "top"
      BY <1>6 DEF Asking
    <2>2. runner'[v] = runner[v]
      BY <2>1 DEF Starts
    <2> QED
      BY <1>6, <2>1, <2>2 DEF OneAsks
  <1>11. SendsCounted'
    <2>1. \A r \in Runs, n \in ToolNumbers : Permitted(r, n)' => Permitted(r, n)
      BY DEF Permitted, Starts
    <2> QED
      BY <2>1 DEF SendsCounted
  <1>12. HoldersWork'
    <2>1. \A r \in Runs : row[r].epoch \in Nat /\ row'[r].epoch \in Nat
      BY DEF TypeOK, Row
    <2>2. \A v \in Runners : \A r \in runner[v].run : r \in Runs /\ runner[v].epoch \in Nat /\ runner[v].epoch <= row[r].epoch
      BY OnRun DEF HoldersWork, Busy
    <2> SUFFICES ASSUME NEW v \in Runners, NEW r \in runner'[v].run
                 PROVE  /\ runner'[v].epoch <= row'[r].epoch
                        /\ \A u \in Runners : r \in runner'[u].run /\ runner'[u].epoch = runner'[v].epoch => u = v
                        /\ Holds(v, r)' => /\ row'[r].status = "running"
                                           /\ IF runner'[v].at = "save" THEN SaveOK(v, r)'
                                                                       ELSE runner'[v].state = row'[r].state
      BY DEF HoldersWork
    <2>3. \A u \in Runners : (Starts(u) /\ r \in runner'[u].run) =>
              r \in Runs /\ runner'[u].epoch = row'[r].epoch /\ row'[r].epoch > row[r].epoch
      BY DEF Starts
    <2>4. CASE runner'[v] = runner[v]
      <3>1. r \in Runs /\ r \in runner[v].run /\ runner[v].epoch <= row[r].epoch
        BY <2>2, <2>4
      <3>2. runner'[v].epoch <= row'[r].epoch
        BY <2>1, <2>2, <2>4, <3>1
      <3>3. ASSUME NEW u \in Runners, r \in runner'[u].run, runner'[u].epoch = runner'[v].epoch PROVE u = v
        <4>1. ~Starts(u)
          BY <2>1, <2>2, <2>3, <2>4, <3>1, <3>3
        <4>2. runner'[u] = runner[u]
          BY <4>1
        <4> QED
          BY <2>4, <3>1, <3>3, <4>2 DEF HoldersWork
      <3>4. ASSUME Holds(v, r)'
            PROVE  /\ row'[r].status = "running"
                   /\ IF runner'[v].at = "save" THEN SaveOK(v, r)' ELSE runner'[v].state = row'[r].state
        <4>1. row'[r].epoch = row[r].epoch /\ Holds(v, r)
          BY <2>1, <2>2, <2>4, <3>1, <3>4 DEF Holds
        <4>2. row[r].status = "running" /\ IF runner[v].at = "save" THEN SaveOK(v, r) ELSE runner[v].state = row[r].state
          BY <3>1, <4>1 DEF HoldersWork
        <4>3. row'[r].status = "running" /\ row'[r].state = row[r].state
          BY <2>1, <3>1, <4>1, <4>2
        <4>4. ASSUME SaveOK(v, r) PROVE SaveOK(v, r)'
          <5>1. runner[v].state.proposal \in ToolNumbers \cup {NoProposal}
            BY <3>1, OnRun DEF Busy, State
          <5> QED
            BY <1>5, <1>6, <1>7, <2>4, <3>1, <4>3, <4>4, <5>1 DEF SaveOK
        <4> QED
          BY <2>4, <4>2, <4>3, <4>4
      <3> QED
        BY <3>2, <3>3, <3>4
    <2>5. CASE runner'[v] # runner[v]
      <3>1. Starts(v)
        BY <2>5
      <3>2. /\ r \in Runs /\ runner'[v].epoch = row'[r].epoch /\ row'[r].epoch > row[r].epoch
            /\ row'[r].status = "running" /\ runner'[v].state = row'[r].state /\ runner'[v].at # "save"
        BY <3>1 DEF Starts
      <3>3. ASSUME NEW u \in Runners, r \in runner'[u].run, runner'[u].epoch = runner'[v].epoch PROVE u = v
        <4>1. runner'[u] # runner[u]
          BY <2>1, <2>2, <3>2, <3>3
        <4> QED
          BY <2>5, <4>1
      <3> QED
        BY <2>1, <3>2, <3>3
    <2> QED
      BY <2>4, <2>5
  <1> QED
    BY <1>1, <1>2, <1>3, <1>8, <1>9, <1>10, <1>11, <1>12

\* One row changes, and no runner.
LEMMA RowKeeps ==
    ASSUME IInv, NEW r \in Runs, NEW x \in Row, row' = [row EXCEPT ![r] = x],
           UNCHANGED <<runner, requests, platformVars, historyVars>>, faults' \in 0..FaultLimit,
           x.state = row[r].state, x.epoch = row[r].epoch, row[r].status = "running" => x.status = "running",
           x.status # "absent", StatusOK(x.status, x.state), x.status = "queued" => ~x.cancel
    PROVE  IInv'
  <1>1. row' \in [Runs -> Row] /\ row'[r] = x /\ \A q \in Runs : q # r => row'[q] = row[q]
    BY DEF IInv, TypeOK
  <1>2. \A q \in Runs : RowOK(row[q])
    BY DEF IInv, RowsReady
  <1>3. RowOK(x)
    BY <1>2 DEF RowOK
  <1>4. \A q \in Runs : /\ RowOK(row'[q]) /\ row'[q].state = row[q].state /\ row'[q].epoch = row[q].epoch
                        /\ row[q].status = "running" => row'[q].status = "running"
    BY <1>1, <1>2, <1>3
  <1>5. runner' = runner /\ runner' \in [Runners -> {Idle} \cup Busy]
    BY DEF IInv, TypeOK
  <1>6. UNCHANGED <<requests, happened, outcome, asked, sent, confirms>>
    BY DEF platformVars, historyVars
  <1> QED
    BY <1>1, <1>4, <1>5, <1>6, RowsKeep

LEMMA SubmitKeeps ==
    ASSUME IInv, NEW r \in Runs, NEW c \in Conversations, Submit(r, c)
    PROVE  IInv'
  <1>1. row[r] = NoRow /\ row[r] \in Row
    BY DEF IInv, RowsReady, RowOK, TypeOK, Submit
  <1>2. PICK x : x = [NoRow EXCEPT !.status = "queued", !.conversation = c]
    OBVIOUS
  <1>3. /\ x \in Row /\ x.state = row[r].state /\ x.epoch = row[r].epoch /\ x.status = "queued" /\ ~x.cancel
        /\ x.state.proposal = NoProposal /\ ~x.state.modelPending
    <2>1. x.state = NewState /\ x.epoch = 0 /\ x.status = "queued" /\ x.cancel = FALSE /\ NoRow.state = NewState /\ NoRow.epoch = 0
      BY <1>2 DEF NoRow
    <2>2. NewState.proposal = NoProposal /\ NewState.modelPending = FALSE
      BY DEF NewState
    <2>3. x \in Row
      BY <1>1, <1>2 DEF Row, Active
    <2> QED
      BY <1>1, <2>1, <2>2, <2>3
  <1>4. StatusOK(x.status, x.state)
    BY <1>3 DEF StatusOK
  <1>5. /\ row' = [row EXCEPT ![r] = x] /\ UNCHANGED <<runner, requests, platformVars, historyVars>>
        /\ faults' \in 0..FaultLimit /\ row[r].status # "running"
    BY <1>2 DEF Submit, IInv, TypeOK
  <1> QED
    BY <1>3, <1>4, <1>5, RowKeeps

LEMMA CancelKeeps ==
    ASSUME IInv, NEW r \in Runs, Cancel(r)
    PROVE  IInv'
  <1>1. row[r] \in Row /\ RowOK(row[r]) /\ row[r].status \in Active \cup {"unknown"}
    BY DEF IInv, RowsReady, TypeOK, Cancel
  <1>2. PICK x : x = [row[r] EXCEPT !.cancel = TRUE, !.status = IF @ = "running" THEN @ ELSE "cancelled"]
    OBVIOUS
  <1>3. PICK t : t = IF row[r].status = "running" THEN "running" ELSE "cancelled"
    OBVIOUS
  <1>4. x = [row[r] EXCEPT !.cancel = TRUE, !.status = t] /\ t \in Active \cup Ended
    BY <1>1, <1>2, <1>3 DEF Row, Active, Ended
  <1>5. x \in Row /\ x.state = row[r].state /\ x.epoch = row[r].epoch /\ x.status = t
    BY <1>1, <1>4 DEF Row
  <1>6. StatusOK(t, x.state) /\ t # "queued" /\ t # "absent"
    BY <1>1, <1>3, <1>5 DEF RowOK, StatusOK, Active, Ended
  <1>7. row' = [row EXCEPT ![r] = x] /\ UNCHANGED <<runner, requests, platformVars, historyVars>> /\ faults' \in 0..FaultLimit
    BY <1>2 DEF Cancel, IInv, TypeOK
  <1>8. row[r].status = "running" => t = "running"
    BY <1>3
  <1> QED
    BY <1>5, <1>6, <1>7, <1>8, RowKeeps

LEMMA ResumeKeeps ==
    ASSUME IInv, NEW r \in Runs, Resume(r)
    PROVE  IInv'
  <1>1. row[r] \in Row /\ RowOK(row[r]) /\ row[r].status = "waiting_auth" /\ ~row[r].cancel
    BY DEF IInv, RowsReady, TypeOK, Resume
  <1>2. PICK x : x = [row[r] EXCEPT !.status = "queued"]
    OBVIOUS
  <1>3. x \in Row /\ x.state = row[r].state /\ x.epoch = row[r].epoch /\ x.status = "queued" /\ ~x.cancel
    BY <1>1, <1>2 DEF Row, Active
  <1>4. StatusOK(x.status, x.state)
    BY <1>1, <1>3 DEF RowOK, StatusOK, Ended
  <1>5. /\ row' = [row EXCEPT ![r] = x] /\ UNCHANGED <<runner, requests, platformVars, historyVars>>
        /\ faults' \in 0..FaultLimit
    BY <1>2 DEF Resume, IInv, TypeOK
  <1> QED
    BY <1>1, <1>3, <1>4, <1>5, RowKeeps

LEMMA LeaseKeeps ==
    ASSUME IInv, NEW r \in Runs, Lapse(r) \/ Stall(r)
    PROVE  IInv'
  <1>1. row[r] \in Row /\ RowOK(row[r]) /\ row[r].status = "running"
    BY DEF IInv, RowsReady, TypeOK, Lapse, Stall, LeaseEnds
  <1>2. PICK x : x = [row[r] EXCEPT !.live = FALSE]
    OBVIOUS
  <1>3. /\ x \in Row /\ x.state = row[r].state /\ x.epoch = row[r].epoch /\ x.status = "running"
    BY <1>1, <1>2 DEF Row
  <1>4. StatusOK(x.status, x.state)
    BY <1>1, <1>3 DEF RowOK
  <1>5. row' = [row EXCEPT ![r] = x] /\ UNCHANGED <<runner, requests, platformVars, historyVars>>
    BY <1>2 DEF Lapse, Stall, LeaseEnds
  <1>6. faults' \in 0..FaultLimit
    BY ConstantsAssumption DEF Lapse, Stall, Faulty, IInv, TypeOK
  <1> QED
    BY <1>1, <1>3, <1>4, <1>5, <1>6, RowKeeps

LEMMA RecoveredIs ==
    ASSUME IInv, NEW r \in Runs, LeaseGone(r)
    PROVE  /\ Recovered(row[r]) \in Row /\ RowOK(Recovered(row[r]))
           /\ Recovered(row[r]).state = row[r].state /\ Recovered(row[r]).epoch = row[r].epoch + 1
           /\ Recovered(row[r]).epoch > row[r].epoch
           /\ Recovered(row[r]).status \in {"queued", "cancelled", "unknown"}
  <1>1. row[r] \in Row /\ RowOK(row[r]) /\ row[r].status = "running" /\ row[r].epoch \in Nat
    BY DEF IInv, RowsReady, TypeOK, LeaseGone, Row
  <1>2. PICK t : t = RecoveredStatus(row[r])
    OBVIOUS
  <1>3. /\ t \in {"queued", "cancelled", "unknown"}
        /\ t = "queued" => ~row[r].cancel /\ ~row[r].state.modelPending
    BY <1>2 DEF RecoveredStatus
  <1>4. PICK e \in Nat : e = row[r].epoch + 1
    BY <1>1
  <1>5. Recovered(row[r]) = [row[r] EXCEPT !.status = t, !.epoch = e]
    BY <1>1, <1>2, <1>4 DEF Recovered, Row
  <1>6. PICK x : x = Recovered(row[r])
    OBVIOUS
  <1>7. x \in Row /\ x.state = row[r].state /\ x.epoch = e /\ x.status = t /\ x.cancel = row[r].cancel
    BY <1>1, <1>3, <1>5, <1>6 DEF Row, Active, Ended
  <1>8. StatusOK(t, row[r].state) /\ t # "absent"
    BY <1>1, <1>3 DEF RowOK, StatusOK, Ended
  <1>9. RowOK(x)
    <2>1. t = "queued" => ~x.cancel
      BY <1>3, <1>7
    <2> QED
      BY <1>1, <1>7, <1>8, <2>1 DEF RowOK
  <1> QED
    BY <1>1, <1>3, <1>4, <1>6, <1>7, <1>9

LEMMA ClaimKeeps ==
    ASSUME IInv, NEW w \in Runners, Claim(w)
    PROVE  IInv'
  <1> DEFINE rows == [q \in Runs |-> IF LeaseGone(q) THEN Recovered(row[q]) ELSE row[q]]
  <1>1. UNCHANGED <<requests, happened, outcome, asked, sent, confirms>> /\ faults' \in 0..FaultLimit
    BY DEF Claim, platformVars, historyVars, IInv, TypeOK
  <1>2. runner \in [Runners -> {Idle} \cup Busy] /\ row \in [Runs -> Row]
    BY DEF IInv, TypeOK
  <1>3. \A q \in Runs : /\ rows[q] \in Row /\ RowOK(rows[q]) /\ rows[q].state = row[q].state
                        /\ rows[q].epoch \in Nat /\ row[q].epoch \in Nat
                        /\ \/ rows[q].epoch > row[q].epoch
                           \/ rows[q].epoch = row[q].epoch /\ rows[q].status = row[q].status
    <2> SUFFICES ASSUME NEW q \in Runs
                 PROVE  /\ rows[q] \in Row /\ RowOK(rows[q]) /\ rows[q].state = row[q].state
                        /\ rows[q].epoch \in Nat /\ row[q].epoch \in Nat
                        /\ \/ rows[q].epoch > row[q].epoch
                           \/ rows[q].epoch = row[q].epoch /\ rows[q].status = row[q].status
      OBVIOUS
    <2>1. row[q] \in Row /\ RowOK(row[q]) /\ row[q].epoch \in Nat
      BY DEF IInv, TypeOK, RowsReady, Row
    <2>2. CASE LeaseGone(q)
      <3>1. rows[q] = Recovered(row[q])
        BY <2>2
      <3>2. rows[q].epoch = row[q].epoch + 1
        BY <2>2, <3>1, RecoveredIs
      <3> HIDE DEF rows
      <3> QED
        BY <2>1, <2>2, <3>1, <3>2, RecoveredIs
    <2>3. CASE ~LeaseGone(q)
      BY <2>1, <2>3
    <2> QED
      BY <2>2, <2>3
  <1>4. CASE row' = rows /\ runner' = runner
    <2>1. row' \in [Runs -> Row]
      BY <1>3, <1>4
    <2>2. \A q \in Runs : row'[q] = rows[q]
      BY <1>4
    <2> HIDE DEF rows
    <2> QED
      BY <1>1, <1>2, <1>3, <1>4, <2>1, <2>2, RowsKeep
  <1>5. ASSUME NEW r \in Picks(rows),
               row' = [rows EXCEPT ![r] = [rows[r] EXCEPT !.status = "running", !.epoch = @ + 1, !.live = TRUE]],
               runner' = [runner EXCEPT ![w] = [Idle EXCEPT !.at = "top", !.run = {r},
                              !.epoch = rows[r].epoch + 1, !.state = rows[r].state]]
        PROVE  IInv'
    <2>1. r \in Runs /\ rows[r].status = "queued" /\ runner[w].at = "idle"
      BY DEF Picks, Claimable, Claim
    <2>2. DOMAIN rows = Runs
      OBVIOUS
    <2> HIDE DEF rows
    <2>3. PICK e \in Nat : e = rows[r].epoch + 1 /\ e > row[r].epoch
      BY <1>3, <2>1
    <2>4. PICK x : x = [rows[r] EXCEPT !.status = "running", !.epoch = e, !.live = TRUE]
      OBVIOUS
    <2>5. rows[r] \in Row /\ RowOK(rows[r]) /\ rows[r].state = row[r].state /\ rows[r].state \in State
      BY <1>3, <2>1 DEF Row
    <2>6. x \in Row /\ x.state = row[r].state /\ x.status = "running" /\ x.epoch = e
      BY <2>4, <2>5 DEF Row, Active
    <2>7. StateOK(row[r].state) /\ StatusOK("queued", row[r].state)
      BY <2>1, <2>5 DEF RowOK
    <2>8. RowOK(x)
      BY <2>6, <2>7 DEF RowOK, StatusOK, Ended
    <2>9. row' = [rows EXCEPT ![r] = x]
      BY <1>5, <2>3, <2>4
    <2>10. row' \in [Runs -> Row] /\ row'[r] = x /\ \A q \in Runs : q # r => row'[q] = rows[q]
      <3>1. rows \in [Runs -> Row]
        BY <1>3, <2>2 DEF rows
      <3> QED
        BY <2>1, <2>6, <2>9, <3>1
    <2>11. PICK b : b = [Idle EXCEPT !.at = "top", !.run = {r}, !.epoch = e, !.state = row[r].state]
      OBVIOUS
    <2>12. /\ b \in Busy /\ b.at = "top" /\ b.run = {r} /\ b.epoch = e /\ b.state = row[r].state
      BY <2>1, <2>5, <2>11 DEF Busy, Idle, Stages, Active, Ended
    <2>13. runner' = [runner EXCEPT ![w] = b]
      BY <1>5, <2>3, <2>5, <2>11
    <2>14. /\ runner' \in [Runners -> {Idle} \cup Busy] /\ runner'[w] = b
           /\ \A v \in Runners : v # w => runner'[v] = runner[v]
      BY <1>2, <2>12, <2>13
    <2>15. StageOK(b)
      BY <2>7, <2>12 DEF StageOK, StatusOK, On, Ended
    <2>16. Starts(w)
      BY <2>1, <2>3, <2>6, <2>10, <2>12, <2>14, <2>15 DEF Starts
    <2>17. \A q \in Runs : /\ RowOK(row'[q]) /\ row'[q].state = row[q].state
                           /\ \/ row'[q].epoch > row[q].epoch
                              \/ /\ row'[q].epoch = row[q].epoch
                                 /\ row[q].status = "running" => row'[q].status = "running"
      BY <1>3, <2>3, <2>6, <2>8, <2>10
    <2> QED
      BY <1>1, <2>10, <2>14, <2>16, <2>17, RowsKeep
  <1> QED
    BY <1>4, <1>5 DEF Claim

\* A confirmation makes one more sending possible.
LEMMA ConfirmKeeps ==
    ASSUME IInv, NEW r \in Runs, NEW n \in ToolNumbers, Confirm(r, n)
    PROVE  IInv'
  <1> USE DEF IInv
  <1>1. /\ row[r] \in Row /\ RowOK(row[r]) /\ row[r].status = "waiting_confirmation" /\ ~row[r].cancel
        /\ row[r].state.proposal = n /\ ~row[r].state.confirmed
    BY DEF RowsReady, TypeOK, Confirm, Confirmable
  <1>2. ~row[r].state.writePending /\ ~row[r].state.modelPending
    BY <1>1 DEF RowOK, StateOK, StatusOK, Ended
  <1>3. PICK s : s = [row[r].state EXCEPT !.confirmed = TRUE]
    OBVIOUS
  <1>4. /\ s \in State /\ s.confirmed /\ s.proposal = n /\ ~s.writePending /\ ~s.modelPending
        /\ s.round = row[r].state.round /\ s.tools = row[r].state.tools /\ s.told = row[r].state.told
    <2>1. row[r].state \in State
      BY <1>1 DEF Row
    <2> QED
      BY <1>1, <1>2, <1>3, <2>1 DEF State
  <1>5. PICK x : x = [row[r] EXCEPT !.status = "queued", !.state = s]
    OBVIOUS
  <1>6. x \in Row /\ x.state = s /\ x.status = "queued" /\ x.epoch = row[r].epoch /\ ~x.cancel
    BY <1>1, <1>4, <1>5 DEF Row, Active
  <1>7. row' = [row EXCEPT ![r] = x]
    BY <1>3, <1>5 DEF Confirm
  <1>8. row' \in [Runs -> Row] /\ row'[r] = x /\ \A q \in Runs : q # r => row'[q] = row[q]
    BY <1>6, <1>7 DEF TypeOK
  <1>9. /\ UNCHANGED <<runner, requests, happened, outcome, asked, sent, faults>>
        /\ confirms' = [confirms EXCEPT ![<<r, n>>] = @ + 1]
    BY DEF Confirm, platformVars
  <1>10. TypeOK'
    <2>1. confirms' \in [RunOperations -> Nat]
      BY <1>9 DEF TypeOK, RunOperations
    <2> QED
      BY <1>8, <1>9, <2>1 DEF TypeOK
  <1>11. RowsReady'
    <2>1. StateOK(s) /\ StatusOK("queued", s)
      BY <1>1, <1>4 DEF RowOK, StateOK, StatusOK, ToolNumbers, NoProposal
    <2>2. RowOK(x)
      BY <1>6, <2>1 DEF RowOK
    <2> QED
      BY <1>8, <2>2 DEF RowsReady
  <1>12. StagesReached' /\ ReportsTrue'
    BY <1>9 DEF StagesReached, ReportsTrue
  <1>13. \A v \in Runners, q \in Runs, m \in ToolNumbers : Sending(v, q, m)' <=> Sending(v, q, m)
    BY <1>9 DEF Sending
  <1>14. \A v \in Runners, q \in Runs : Asking(v, q)' <=> Asking(v, q)
    BY <1>9 DEF Asking
  <1>15. \A q \in Runs, m \in ToolNumbers : \A a : TrueOf(q, m, a) => TrueOf(q, m, a)'
    BY <1>9, <1>13 DEF TrueOf, Dead
  <1>16. \A q \in Runs : row'[q].state.told = row[q].state.told /\ row'[q].epoch = row[q].epoch
    BY <1>4, <1>6, <1>8
  <1>17. TellsTrue'
    BY <1>15, <1>16 DEF TellsTrue
  <1>18. HoldersWork'
    <2> SUFFICES ASSUME NEW v \in Runners, NEW q \in runner[v].run
                 PROVE  /\ runner[v].epoch <= row'[q].epoch
                        /\ \A u \in Runners : q \in runner[u].run /\ runner[u].epoch = runner[v].epoch => u = v
                        /\ Holds(v, q)' => /\ row'[q].status = "running"
                                           /\ IF runner[v].at = "save" THEN SaveOK(v, q)'
                                                                      ELSE runner[v].state = row'[q].state
      BY <1>9 DEF HoldersWork
    <2>1. q \in Runs
      BY OnRun
    <2>2. Holds(v, q)' => Holds(v, q) /\ q # r
      BY <1>1, <1>9, <1>16, <2>1 DEF Holds, HoldersWork
    <2>3. ASSUME q # r, SaveOK(v, q) PROVE SaveOK(v, q)'
      <3>1. runner[v].state.proposal \in ToolNumbers \cup {NoProposal}
        BY OnRun DEF Busy, State
      <3> QED
        BY <1>8, <1>9, <1>13, <1>14, <1>15, <2>1, <2>3, <3>1 DEF SaveOK
    <2> QED
      BY <1>8, <1>16, <2>1, <2>2, <2>3 DEF HoldersWork
  <1>19. OneSends'
    <2>1. \A v \in Runners : ~Sending(v, r, n)
      BY <1>1, <1>2 DEF OneSends
    <2>2. \A q \in Runs : row'[q].state.tools = row[q].state.tools
      BY <1>4, <1>6, <1>8
    <2>3. \A v \in Runners, q \in Runs, m \in ToolNumbers : Sending(v, q, m) /\ row'[q].state.proposal = m => q # r
      BY <1>4, <1>6, <1>8, <2>1
    <2> QED
      BY <1>8, <1>13, <2>2, <2>3 DEF OneSends
  <1>20. OneAsks'
    <2>1. \A v \in Runners : ~Asking(v, r)
      BY <1>2 DEF OneAsks
    <2> QED
      BY <1>8, <1>9, <1>14, <2>1 DEF OneAsks
  <1>21. RoundsCounted'
    <2>1. \A q \in Runs : row'[q].state.round = row[q].state.round
      BY <1>4, <1>6, <1>8
    <2>2. \A q \in Runs : row[q].state.modelPending => row'[q].state.modelPending
      BY <1>2, <1>8
    <2> QED
      BY <1>9, <2>1, <2>2 DEF RoundsCounted
  <1>22. SendsCounted'
    <2> SUFFICES ASSUME NEW q \in Runs, NEW m \in ToolNumbers
                 PROVE  sent[<<q, m>>] <= confirms'[<<q, m>>] /\ (Permitted(q, m)' => sent[<<q, m>>] < confirms'[<<q, m>>])
      BY <1>9 DEF SendsCounted
    <2>1. <<q, m>> \in RunOperations /\ sent[<<q, m>>] \in Nat /\ confirms[<<q, m>>] \in Nat
      BY DEF RunOperations, TypeOK
    <2>2. sent[<<q, m>>] <= confirms[<<q, m>>] /\ (Permitted(q, m) => sent[<<q, m>>] < confirms[<<q, m>>])
      BY DEF SendsCounted
    <2>3. CASE <<q, m>> = <<r, n>>
      <3>1. confirms'[<<q, m>>] = confirms[<<q, m>>] + 1
        BY <1>9, <2>1, <2>3 DEF TypeOK
      <3> QED
        BY <2>1, <2>2, <3>1
    <2>4. CASE <<q, m>> # <<r, n>>
      <3>1. confirms'[<<q, m>>] = confirms[<<q, m>>]
        BY <1>9, <2>1, <2>4 DEF TypeOK
      <3>2. Permitted(q, m)' => Permitted(q, m)
        <4>1. row'[q].state.proposal = m => q # r
          BY <1>4, <1>6, <1>8, <2>4
        <4> QED
          BY <1>8, <1>9, <4>1 DEF Permitted
      <3> QED
        BY <2>2, <3>1, <3>2
    <2> QED
      BY <2>3, <2>4
  <1> QED
    BY <1>10, <1>11, <1>12, <1>17, <1>18, <1>19, <1>20, <1>21, <1>22

-----------------------------------------------------------------------------
(* The platform. *)

\* What the platform does leaves a dead write dead.
LEMMA PlatformKeeps ==
    ASSUME IInv, UNCHANGED <<row, runner, historyVars, faults>>, requests' \subseteq requests,
           happened \subseteq happened', happened' \subseteq RunOperations,
           outcome' \in [RunOperations -> Platform!Outcomes], ReportsTrue',
           \A r \in Runs, n \in ToolNumbers : Dead(r, n) => <<r, n>> \notin happened' /\ outcome'[<<r, n>>] = outcome[<<r, n>>]
    PROVE  IInv'
  <1> USE DEF IInv
  <1>1. UNCHANGED <<row, runner, asked, sent, confirms, faults>>
    BY DEF historyVars
  <1>2. TypeOK'
    BY <1>1 DEF TypeOK
  <1>3. RowsReady' /\ StagesReached' /\ OneSends' /\ OneAsks' /\ SendsCounted' /\ RoundsCounted'
    <2>1. RowsReady' /\ StagesReached'
      BY <1>1 DEF RowsReady, StagesReached
    <2>2. OneSends' /\ OneAsks'
      BY <1>1 DEF OneSends, OneAsks, Sending, Asking
    <2>3. SendsCounted' /\ RoundsCounted'
      BY <1>1 DEF SendsCounted, RoundsCounted, Permitted
    <2> QED
      BY <2>1, <2>2, <2>3
  <1>4. \A v \in Runners, r \in Runs, n \in ToolNumbers : Sending(v, r, n)' <=> Sending(v, r, n)
    BY <1>1 DEF Sending
  <1>5. \A r \in Runs, n \in ToolNumbers : \A a : TrueOf(r, n, a) => TrueOf(r, n, a)'
    BY <1>4 DEF TrueOf, Dead
  <1>6. TellsTrue'
    BY <1>1, <1>5 DEF TellsTrue
  <1>7. HoldersWork'
    <2> SUFFICES ASSUME NEW v \in Runners, NEW r \in runner[v].run
                 PROVE  /\ runner[v].epoch <= row[r].epoch
                        /\ \A u \in Runners : r \in runner[u].run /\ runner[u].epoch = runner[v].epoch => u = v
                        /\ Holds(v, r)' => /\ row[r].status = "running"
                                           /\ IF runner[v].at = "save" THEN SaveOK(v, r)'
                                                                      ELSE runner[v].state = row[r].state
      BY <1>1 DEF HoldersWork
    <2>1. r \in Runs
      BY OnRun
    <2>2. Holds(v, r)' => Holds(v, r)
      BY <1>1 DEF Holds
    <2>3. ASSUME SaveOK(v, r) PROVE SaveOK(v, r)'
      BY <1>1, <1>5, <2>1, <2>3 DEF SaveOK, Sending, Asking
    <2> QED
      BY <2>2, <2>3 DEF HoldersWork
  <1> QED
    BY <1>2, <1>3, <1>6, <1>7

LEMMA HandleKeeps ==
    ASSUME IInv, NEW o \in RunOperations, Handle(o) \/ Reconcile(o)
    PROVE  IInv'
  <1>1. /\ TypeOK /\ ReportsTrue /\ UNCHANGED <<row, runner, historyVars, faults>> /\ requests' \subseteq requests
    BY DEF Handle, Reconcile, IInv
  <1>2. outcome \in [RunOperations -> Platform!Outcomes] /\ happened \subseteq RunOperations
    BY <1>1 DEF TypeOK
  <1>3. CASE UNCHANGED platformVars
    BY <1>1, <1>2, <1>3, PlatformKeeps DEF platformVars, ReportsTrue, Dead
  <1>4. CASE Platform!Happen(o) /\ o \in requests
    <2>1. o \notin happened /\ outcome[o] = "unknown" /\ happened' = happened \cup {o}
      BY <1>4 DEF Platform!Happen
    <2>2. /\ outcome' \in [RunOperations -> Platform!Outcomes] /\ outcome'[o] \in {"unknown", "succeeded"}
          /\ \A p \in RunOperations : p # o => outcome'[p] = outcome[p]
      BY <1>2, <1>4, <2>1 DEF Platform!Happen, Platform!Outcomes
    <2>3. ReportsTrue'
      BY <1>1, <2>1, <2>2 DEF ReportsTrue
    <2>4. ASSUME NEW r \in Runs, NEW n \in ToolNumbers, Dead(r, n)
          PROVE  <<r, n>> \notin happened' /\ outcome'[<<r, n>>] = outcome[<<r, n>>]
      <3>1. <<r, n>> # o /\ <<r, n>> \in RunOperations
        BY <1>4, <2>1, <2>4 DEF Dead, RunOperations
      <3> QED
        BY <2>1, <2>2, <2>4, <3>1 DEF Dead
    <2> QED
      BY <1>1, <1>2, <2>1, <2>2, <2>3, <2>4, PlatformKeeps
  <1>5. CASE Platform!Report(o, "rejected") /\ o \in requests
    <2>1. o \notin happened /\ outcome[o] = "unknown" /\ happened' = happened
      BY <1>5 DEF Platform!Report
    <2>2. /\ outcome' \in [RunOperations -> Platform!Outcomes] /\ outcome'[o] = "rejected"
          /\ \A p \in RunOperations : p # o => outcome'[p] = outcome[p]
      BY <1>2, <1>5 DEF Platform!Report, Platform!Outcomes
    <2>3. ReportsTrue'
      BY <1>1, <2>1, <2>2 DEF ReportsTrue
    <2>4. ASSUME NEW r \in Runs, NEW n \in ToolNumbers, Dead(r, n)
          PROVE  <<r, n>> \notin happened' /\ outcome'[<<r, n>>] = outcome[<<r, n>>]
      <3>1. <<r, n>> # o /\ <<r, n>> \in RunOperations
        BY <1>5, <2>1, <2>4 DEF Dead, RunOperations
      <3> QED
        BY <2>1, <2>2, <2>4, <3>1 DEF Dead
    <2> QED
      BY <1>1, <1>2, <2>1, <2>2, <2>3, <2>4, PlatformKeeps
  <1>6. CASE Platform!Report(o, "succeeded")
    <2>1. o \in happened /\ outcome[o] = "unknown" /\ happened' = happened
      BY <1>6 DEF Platform!Report
    <2>2. /\ outcome' \in [RunOperations -> Platform!Outcomes] /\ outcome'[o] = "succeeded"
          /\ \A p \in RunOperations : p # o => outcome'[p] = outcome[p]
      BY <1>2, <1>6 DEF Platform!Report, Platform!Outcomes
    <2>3. ReportsTrue'
      BY <1>1, <2>1, <2>2 DEF ReportsTrue
    <2>4. ASSUME NEW r \in Runs, NEW n \in ToolNumbers, Dead(r, n)
          PROVE  <<r, n>> \notin happened' /\ outcome'[<<r, n>>] = outcome[<<r, n>>]
      <3>1. <<r, n>> # o /\ <<r, n>> \in RunOperations
        BY <2>1, <2>4 DEF Dead, RunOperations
      <3> QED
        BY <2>1, <2>2, <2>4, <3>1 DEF Dead
    <2> QED
      BY <1>1, <1>2, <2>1, <2>2, <2>3, <2>4, PlatformKeeps
  <1> QED
    BY <1>3, <1>4, <1>5, <1>6 DEF Handle, Reconcile

-----------------------------------------------------------------------------
(* The run service as a whole. *)

LEMMA StutterKeeps == IInv /\ UNCHANGED vars => IInv'
  <1> SUFFICES ASSUME IInv, UNCHANGED vars PROVE IInv'
    OBVIOUS
  <1>1. /\ UNCHANGED <<row, runner, requests, happened, outcome, asked, sent, confirms>>
        /\ faults' \in 0..FaultLimit
    BY DEF vars, IInv, TypeOK
  <1>2. row \in [Runs -> Row] /\ runner \in [Runners -> {Idle} \cup Busy] /\ \A r \in Runs : RowOK(row[r])
    BY DEF IInv, TypeOK, RowsReady
  <1> QED
    BY <1>1, <1>2, RowsKeep

LEMMA RunnerKeeps ==
    ASSUME IInv, NEW w \in Runners, Claim(w) \/ Step(w) \/ Beat(w) \/ BeatFails(w) \/ Crash(w)
    PROVE  IInv'
  <1>1. faults \in 0..FaultLimit /\ FaultLimit \in Nat
    BY ConstantsAssumption DEF IInv, TypeOK
  <1>2. CASE Save(w)
    <2>1. CASE Mine(w)
      BY <1>2, <2>1, SaveSaves, SaveKeeps DEF IInv
    <2>2. CASE ~Mine(w)
      <3>1. /\ runner' = [runner EXCEPT ![w] = Idle] /\ faults' \in 0..FaultLimit
            /\ UNCHANGED <<row, requests, happened, outcome, asked, sent, confirms>>
        BY <1>1, <1>2, <2>2 DEF Save, platformVars, historyVars
      <3> QED
        BY <3>1, LeavesKeep
    <2> QED
      BY <2>1, <2>2
  <1>3. CASE Beat(w) \/ BeatFails(w)
    <2>1. /\ runner[w].at # "idle" /\ runner' = [runner EXCEPT ![w].ctx = FALSE] /\ faults' \in 0..FaultLimit
          /\ UNCHANGED <<row, requests, happened, outcome, asked, sent, confirms>>
      BY <1>1, <1>3 DEF Beat, BeatFails, Faulty, platformVars, historyVars
    <2> QED
      BY <2>1, BeatsKeep
  <1>4. CASE Crash(w)
    <2>1. /\ runner' = [runner EXCEPT ![w] = Idle] /\ faults' \in 0..FaultLimit
          /\ UNCHANGED <<row, requests, happened, outcome, asked, sent, confirms>>
      BY <1>1, <1>4 DEF Crash, Faulty, platformVars, historyVars
    <2> QED
      BY <2>1, LeavesKeep
  <1> QED
    BY <1>2, <1>3, <1>4, ClaimKeeps, LocalKeeps, InvokeKeeps, AskKeeps DEF Step

LEMMA NextKeeps == IInv /\ [Next]_vars => IInv'
  <1> SUFFICES ASSUME IInv, [Next]_vars PROVE IInv'
    OBVIOUS
  <1>1. CASE UNCHANGED vars
    BY <1>1, StutterKeeps
  <1>2. CASE UserStep
    BY <1>2, CancelKeeps, ResumeKeeps, SubmitKeeps, ConfirmKeeps DEF UserStep
  <1>3. CASE \E w \in Runners : Claim(w) \/ Step(w) \/ Beat(w) \/ BeatFails(w) \/ Crash(w)
    BY <1>3, RunnerKeeps
  <1>4. CASE \E r \in Runs : Lapse(r) \/ Stall(r)
    BY <1>4, LeaseKeeps
  <1>5. CASE \E o \in RunOperations : Handle(o) \/ Reconcile(o)
    BY <1>5, HandleKeeps
  <1> QED
    BY <1>1, <1>2, <1>3, <1>4, <1>5 DEF Next

\* The invariant holds in every reachable state.
THEOREM Invariance == Spec => []IInv
  <1>1. Init => IInv
    BY InitInv
  <1>2. IInv /\ [Next]_vars => IInv'
    BY NextKeeps
  <1> QED
    BY <1>1, <1>2, PTL DEF Spec

LEMMA IInvSound == IInv => RunsSound
  <1> SUFFICES ASSUME IInv PROVE RunsSound
    OBVIOUS
  <1>1. SentAsConfirmed
    BY DEF IInv, SendsCounted, SentAsConfirmed, RunOperations
  <1>2. AskedOnce
    BY DEF IInv, RoundsCounted, AskedOnce
  <1>3. ToldTruth
    BY DEF IInv, TellsTrue, TrueOf, Dead, ToldTruth
  <1>4. QueuedIsReady
    BY DEF IInv, RowsReady, RowOK, StatusOK, QueuedIsReady, Ended
  <1> QED
    BY <1>1, <1>2, <1>3, <1>4 DEF RunsSound, IInv

\* No write is sent more often than it was confirmed and no round asked for twice,
\* a run is told the truth about its writes, and what waits in the queue can be
\* worked on, whatever runners crash, stall and take each other's runs.
THEOREM RunsAreSound == Spec => []RunsSound
  BY Invariance, IInvSound, PTL

-----------------------------------------------------------------------------
(* Progress. *)

\* The rounds, the tool calls and what the run was told go from row x to row y.
Progresses(x, y) ==
    /\ y.state.round >= x.state.round /\ y.state.tools >= x.state.tools
    /\ \A n \in ToolNumbers : x.state.told[n] # "nothing" => y.state.told[n] = x.state.told[n]
    /\ x.status \in Ended => y.state = x.state /\ y.status \in {x.status, "cancelled"}

LEMMA StaysProgress ==
    ASSUME NEW x \in Row, NEW y \in Row, y.state = x.state,
           x.status \in Ended => y.status \in {x.status, "cancelled"}
    PROVE  Progresses(x, y)
  <1>1. x.state.round \in Int /\ x.state.tools \in Int
    BY ConstantsAssumption DEF Row, State
  <1> QED
    BY <1>1 DEF Progresses

LEMMA UsersProgress ==
    ASSUME IInv, IInv', UserStep, NEW r \in Runs, row[r].status # "absent"
    PROVE  Progresses(row[r], row'[r])
  <1>1. row \in [Runs -> Row] /\ row[r] \in Row /\ row'[r] \in Row
    BY DEF IInv, TypeOK
  <1>2. CASE row'[r] = row[r]
    BY <1>1, <1>2, StaysProgress
  <1>3. CASE \E q \in Runs : Cancel(q)
    <2>1. PICK q \in Runs : Cancel(q)
      BY <1>3
    <2>2. q # r => row'[r] = row[r]
      BY <1>1, <2>1 DEF Cancel
    <2>3. CASE q = r
      <3>1. row'[r] = [row[r] EXCEPT !.cancel = TRUE, !.status = IF @ = "running" THEN @ ELSE "cancelled"]
        BY <1>1, <2>1, <2>3 DEF Cancel
      <3>2. row'[r].state = row[r].state /\ row'[r].status \in {row[r].status, "cancelled"}
        BY <1>1, <3>1 DEF Row
      <3> QED
        BY <1>1, <3>2, StaysProgress
    <2> QED
      BY <1>2, <2>2, <2>3
  <1>4. CASE \E q \in Runs : Resume(q)
    <2>1. PICK q \in Runs : Resume(q)
      BY <1>4
    <2>2. q # r => row'[r] = row[r]
      BY <1>1, <2>1 DEF Resume
    <2>3. CASE q = r
      <3>1. row'[r] = [row[r] EXCEPT !.status = "queued"] /\ row[r].status = "waiting_auth"
        BY <1>1, <2>1, <2>3 DEF Resume
      <3>2. row'[r].state = row[r].state /\ row[r].status \notin Ended
        BY <1>1, <3>1 DEF Row, Ended
      <3> QED
        BY <1>1, <3>2, StaysProgress
    <2> QED
      BY <1>2, <2>2, <2>3
  <1>5. CASE \E q \in Runs, c \in Conversations : Submit(q, c)
    BY <1>1, <1>2, <1>5 DEF Submit
  <1>6. CASE \E q \in Runs, n \in ToolNumbers : Confirm(q, n)
    <2>1. PICK q \in Runs, n \in ToolNumbers : Confirm(q, n)
      BY <1>6
    <2>2. q # r => row'[r] = row[r]
      BY <1>1, <2>1 DEF Confirm
    <2>3. CASE q = r
      <3>1. row'[r] = [row[r] EXCEPT !.status = "queued", !.state.confirmed = TRUE] /\ row[r].status = "waiting_confirmation"
        BY <1>1, <2>1, <2>3 DEF Confirm, Confirmable
      <3>2. row[r].state \in State /\ row'[r].state = [row[r].state EXCEPT !.confirmed = TRUE] /\ row[r].status \notin Ended
        BY <1>1, <3>1 DEF Row, Ended
      <3>3. row[r].state.round \in Int /\ row[r].state.tools \in Int
        BY <3>2, ConstantsAssumption DEF State
      <3>4. /\ row'[r].state.round = row[r].state.round /\ row'[r].state.tools = row[r].state.tools
            /\ row'[r].state.told = row[r].state.told
        BY <3>2 DEF State
      <3> QED
        BY <3>2, <3>3, <3>4 DEF Progresses
    <2> QED
      BY <1>2, <2>2, <2>3
  <1> QED
    BY <1>3, <1>4, <1>5, <1>6 DEF UserStep

LEMMA QueueProgresses ==
    ASSUME IInv, IInv', NEW r \in Runs,
           (\E w \in Runners : Claim(w)) \/ (\E q \in Runs : Lapse(q) \/ Stall(q))
    PROVE  Progresses(row[r], row'[r])
  <1>1. row \in [Runs -> Row] /\ row[r] \in Row /\ row'[r] \in Row
    BY DEF IInv, TypeOK
  <1>2. CASE \E q \in Runs : Lapse(q) \/ Stall(q)
    <2>1. PICK q \in Runs : Lapse(q) \/ Stall(q)
      BY <1>2
    <2>2. row' = [row EXCEPT ![q].live = FALSE]
      BY <2>1 DEF Lapse, Stall, LeaseEnds
    <2>3. row'[r].state = row[r].state /\ row'[r].status = row[r].status
      BY <1>1, <2>2 DEF Row
    <2> QED
      BY <1>1, <2>3, StaysProgress
  <1>3. CASE \E w \in Runners : Claim(w)
    <2> DEFINE rows == [q \in Runs |-> IF LeaseGone(q) THEN Recovered(row[q]) ELSE row[q]]
    <2>1. rows[r].state = row[r].state /\ (row[r].status \in Ended => rows[r].status = row[r].status) /\ rows[r] \in Row
      <3>1. CASE LeaseGone(r)
        <4>1. row[r].status = "running"
          BY <3>1 DEF LeaseGone
        <4> QED
          BY <3>1, <4>1, RecoveredIs DEF Ended
      <3>2. CASE ~LeaseGone(r)
        BY <1>1, <3>2
      <3> QED
        BY <3>1, <3>2
    <2>2. PICK w \in Runners : Claim(w)
      BY <1>3
    <2>3. \/ row' = rows
          \/ \E q \in Picks(rows) :
                row' = [rows EXCEPT ![q] = [rows[q] EXCEPT !.status = "running", !.epoch = @ + 1, !.live = TRUE]]
      BY <2>2 DEF Claim
    <2>4. DOMAIN rows = Runs
      OBVIOUS
    <2> HIDE DEF rows
    <2>5. CASE row'[r] = rows[r]
      BY <1>1, <2>1, <2>5, StaysProgress
    <2>6. CASE /\ rows[r].status = "queued"
               /\ row'[r] = [rows[r] EXCEPT !.status = "running", !.epoch = @ + 1, !.live = TRUE]
      <3>1. row'[r].state = row[r].state
        BY <2>1, <2>6 DEF Row
      <3>2. row[r].status \notin Ended
        BY <2>1, <2>6 DEF Ended
      <3> QED
        BY <1>1, <3>1, <3>2, StaysProgress
    <2> QED
      BY <2>3, <2>4, <2>5, <2>6 DEF Picks, Claimable
  <1> QED
    BY <1>2, <1>3

LEMMA SaveProgresses ==
    ASSUME IInv, IInv', NEW w \in Runners, Save(w), NEW r \in Runs
    PROVE  Progresses(row[r], row'[r])
  <1>1. row[r] \in Row /\ row'[r] \in Row
    BY DEF IInv, TypeOK
  <1>2. CASE row'[r] = row[r]
    BY <1>1, <1>2, StaysProgress
  <1>3. CASE Mine(w)
    <2>1. PICK q \in Runs : Saves(w, q)
      BY <1>3, SaveSaves DEF IInv
    <2>2. q # r => row'[r] = row[r]
      BY <2>1 DEF Saves
    <2>3. CASE q = r
      <3>1. row[r].status \notin Ended /\ row'[r].state = runner[w].state
        BY <2>1, <2>3 DEF Saves, Ended
      <3>2. Follows(row[r].state, runner[w])
        BY <2>1, <2>3, SaveRests DEF SaveOK
      <3> QED
        BY <3>1, <3>2 DEF Follows, Progresses
    <2> QED
      BY <1>2, <2>2, <2>3
  <1>4. CASE ~Mine(w)
    BY <1>2, <1>4 DEF Save
  <1> QED
    BY <1>3, <1>4

LEMMA NextProgresses ==
    ASSUME IInv, IInv', Next, NEW r \in Runs, row[r].status # "absent"
    PROVE  Progresses(row[r], row'[r])
  <1>1. row[r] \in Row /\ row'[r] \in Row
    BY DEF IInv, TypeOK
  <1>2. CASE row' = row
    BY <1>1, <1>2, StaysProgress
  <1>3. CASE \E w \in Runners : Step(w) \/ Beat(w) \/ BeatFails(w) \/ Crash(w)
    BY <1>2, <1>3, SaveProgresses DEF Step, Local, Invoke, Ask, Beat, BeatFails, Crash
  <1>4. CASE \E o \in RunOperations : Handle(o) \/ Reconcile(o)
    BY <1>2, <1>4 DEF Handle, Reconcile
  <1> QED
    BY <1>3, <1>4, UsersProgress, QueueProgresses DEF Next

\* Whoever saves, recovers or restarts a run, its rounds, its tool calls and what it
\* was told are not lost, and a run that ended stays as it was.
THEOREM ProgressIsKept == Spec => ProgressKept
  <1>1. IInv /\ IInv' /\ [Next]_vars =>
            [\A r \in Runs : row[r].status # "absent" =>
               LET old == row[r].state  new == row'[r].state IN
               /\ new.round >= old.round /\ new.tools >= old.tools
               /\ \A n \in ToolNumbers : old.told[n] # "nothing" => new.told[n] = old.told[n]
               /\ row[r].status \in Ended => new = old /\ row'[r].status \in {row[r].status, "cancelled"}]_vars
    <2> SUFFICES ASSUME IInv, IInv', Next, NEW r \in Runs, row[r].status # "absent"
                 PROVE  LET old == row[r].state  new == row'[r].state IN
                        /\ new.round >= old.round /\ new.tools >= old.tools
                        /\ \A n \in ToolNumbers : old.told[n] # "nothing" => new.told[n] = old.told[n]
                        /\ row[r].status \in Ended => new = old /\ row'[r].status \in {row[r].status, "cancelled"}
      OBVIOUS
    <2>1. Progresses(row[r], row'[r])
      BY NextProgresses
    <2> QED
      BY <2>1 DEF Progresses
  <1> QED
    BY <1>1, Invariance, PTL DEF Spec, ProgressKept

-----------------------------------------------------------------------------
(* The limits of the queue. *)

Known(rows) == {r \in Runs : rows[r].status # "absent"}

\* The limits hold of a table, and only finitely many runs were ever submitted.
Limits(rows) ==
    /\ IsFiniteSet(Known(rows))
    /\ Cardinality(WithStatus(rows, {"running"})) <= RunningLimit
    /\ \A u \in Owners : /\ Cardinality(OfOwner(rows, u, {"running"})) <= OwnerRunning
                         /\ Cardinality(OfOwner(rows, u, Active)) <= OwnerActive
    /\ \A c \in Conversations : Cardinality(InConversation(rows, c, Active)) <= 1

\* What is counted is among the runs that were submitted.
LEMMA CountedKnown ==
    ASSUME NEW rows, IsFiniteSet(Known(rows)), NEW S, "absent" \notin S
    PROVE  /\ IsFiniteSet(WithStatus(rows, S)) /\ Cardinality(WithStatus(rows, S)) \in Nat
           /\ \A u : IsFiniteSet(OfOwner(rows, u, S)) /\ Cardinality(OfOwner(rows, u, S)) \in Nat
           /\ \A c : IsFiniteSet(InConversation(rows, c, S)) /\ Cardinality(InConversation(rows, c, S)) \in Nat
  <1>1. /\ WithStatus(rows, S) \in SUBSET Known(rows)
        /\ \A u : OfOwner(rows, u, S) \in SUBSET Known(rows)
        /\ \A c : InConversation(rows, c, S) \in SUBSET Known(rows)
    BY DEF WithStatus, OfOwner, InConversation, Known
  <1>2. \A T \in SUBSET Known(rows) : IsFiniteSet(T) /\ Cardinality(T) \in Nat
    BY FS_Subset, FS_CardinalityType
  <1> QED
    BY <1>1, <1>2

LEMMA Fewer ==
    ASSUME NEW S, IsFiniteSet(S), NEW T, T \subseteq S, NEW k \in Nat, Cardinality(S) <= k
    PROVE  Cardinality(T) <= k
  <1>1. T \in SUBSET S
    OBVIOUS
  <1>2. IsFiniteSet(T) /\ Cardinality(T) <= Cardinality(S)
    BY <1>1, FS_Subset
  <1>3. Cardinality(T) \in Nat /\ Cardinality(S) \in Nat
    BY <1>2, FS_CardinalityType
  <1> QED
    BY <1>2, <1>3

LEMMA OneMore ==
    ASSUME NEW S, IsFiniteSet(S), NEW r, NEW T, T \subseteq S \cup {r}, NEW k \in Nat, Cardinality(S) < k
    PROVE  Cardinality(T) <= k
  <1>1. /\ IsFiniteSet(S \cup {r}) /\ Cardinality(S) \in Nat
        /\ Cardinality(S \cup {r}) = IF r \in S THEN Cardinality(S) ELSE Cardinality(S) + 1
    BY FS_AddElement, FS_CardinalityType
  <1>2. Cardinality(S \cup {r}) <= k
    BY <1>1
  <1> QED
    BY <1>1, <1>2, Fewer

\* From table x to table y no run starts running or comes to count as unfinished.
NotMore(x, y) ==
    \A r \in Runs : /\ y[r].conversation = x[r].conversation
                    /\ y[r].status # "absent" => x[r].status # "absent"
                    /\ y[r].status = "running" => x[r].status = "running"
                    /\ y[r].status \in Active => x[r].status \in Active

LEMMA NotMoreKeeps ==
    ASSUME NEW x, NEW y, Limits(x), NotMore(x, y)
    PROVE  Limits(y)
  <1>1. RunningLimit \in Nat /\ OwnerRunning \in Nat /\ OwnerActive \in Nat /\ 1 \in Nat
    BY ConstantsAssumption
  <1>2. IsFiniteSet(Known(x)) /\ "absent" \notin {"running"} /\ "absent" \notin Active
    BY DEF Limits, Active
  <1>3. IsFiniteSet(Known(y))
    <2>1. Known(y) \in SUBSET Known(x)
      BY DEF Known, NotMore
    <2> QED
      BY <1>2, <2>1, FS_Subset
  <1>4. Cardinality(WithStatus(y, {"running"})) <= RunningLimit
    <2>1. WithStatus(y, {"running"}) \subseteq WithStatus(x, {"running"})
      BY DEF WithStatus, NotMore
    <2> QED
      BY <1>1, <1>2, <2>1, CountedKnown, Fewer DEF Limits
  <1>5. ASSUME NEW u \in Owners
        PROVE  /\ Cardinality(OfOwner(y, u, {"running"})) <= OwnerRunning
               /\ Cardinality(OfOwner(y, u, Active)) <= OwnerActive
    <2>1. /\ OfOwner(y, u, {"running"}) \subseteq OfOwner(x, u, {"running"})
          /\ OfOwner(y, u, Active) \subseteq OfOwner(x, u, Active)
      BY DEF OfOwner, NotMore
    <2> QED
      BY <1>1, <1>2, <2>1, CountedKnown, Fewer DEF Limits
  <1>6. ASSUME NEW c \in Conversations PROVE Cardinality(InConversation(y, c, Active)) <= 1
    <2>1. InConversation(y, c, Active) \subseteq InConversation(x, c, Active)
      BY DEF InConversation, NotMore
    <2> QED
      BY <1>1, <1>2, <2>1, CountedKnown, Fewer DEF Limits
  <1> QED
    BY <1>3, <1>4, <1>5, <1>6 DEF Limits

\* One run starts to run that the limits on running runs admit.
LEMMA StartKeeps ==
    ASSUME NEW x, NEW y, Limits(x), NEW r \in Runs, Claimable(x, r),
           \A q \in Runs : q # r => y[q] = x[q],
           y[r].conversation = x[r].conversation, y[r].status = "running"
    PROVE  Limits(y)
  <1>1. RunningLimit \in Nat /\ OwnerRunning \in Nat /\ OwnerActive \in Nat /\ 1 \in Nat
    BY ConstantsAssumption
  <1>2. /\ IsFiniteSet(Known(x)) /\ "absent" \notin {"running"} /\ "absent" \notin Active
        /\ x[r].status = "queued" /\ "queued" \in Active /\ "running" \in Active
    BY DEF Limits, Active, Claimable
  <1>3. IsFiniteSet(Known(y))
    <2>1. Known(y) \in SUBSET Known(x)
      BY <1>2 DEF Known
    <2> QED
      BY <1>2, <2>1, FS_Subset
  <1>4. Cardinality(WithStatus(y, {"running"})) <= RunningLimit
    <2>1. WithStatus(y, {"running"}) \subseteq WithStatus(x, {"running"}) \cup {r}
      BY DEF WithStatus
    <2> QED
      BY <1>1, <1>2, <2>1, CountedKnown, OneMore DEF Claimable
  <1>5. ASSUME NEW u \in Owners PROVE Cardinality(OfOwner(y, u, {"running"})) <= OwnerRunning
    <2>1. CASE u = x[r].conversation[1]
      <3>1. OfOwner(y, u, {"running"}) \subseteq OfOwner(x, u, {"running"}) \cup {r}
        BY DEF OfOwner
      <3> QED
        BY <1>1, <1>2, <2>1, <3>1, CountedKnown, OneMore DEF Claimable
    <2>2. CASE u # x[r].conversation[1]
      <3>1. OfOwner(y, u, {"running"}) \subseteq OfOwner(x, u, {"running"})
        BY <2>2 DEF OfOwner
      <3> QED
        BY <1>1, <1>2, <3>1, CountedKnown, Fewer DEF Limits
    <2> QED
      BY <2>1, <2>2
  <1>6. ASSUME NEW u \in Owners PROVE Cardinality(OfOwner(y, u, Active)) <= OwnerActive
    <2>1. OfOwner(y, u, Active) \subseteq OfOwner(x, u, Active)
      BY <1>2 DEF OfOwner
    <2> QED
      BY <1>1, <1>2, <2>1, CountedKnown, Fewer DEF Limits
  <1>7. ASSUME NEW c \in Conversations PROVE Cardinality(InConversation(y, c, Active)) <= 1
    <2>1. InConversation(y, c, Active) \subseteq InConversation(x, c, Active)
      BY <1>2 DEF InConversation
    <2> QED
      BY <1>1, <1>2, <2>1, CountedKnown, Fewer DEF Limits
  <1> QED
    BY <1>3, <1>4, <1>5, <1>6, <1>7 DEF Limits

\* One run is submitted that the limits on unfinished runs admit.
LEMMA AdmissionKeeps ==
    ASSUME Limits(row), NEW r \in Runs, NEW c \in Conversations, Admitted(c), NEW y,
           \A q \in Runs : q # r => y[q] = row[q],
           y[r].conversation = c, y[r].status = "queued"
    PROVE  Limits(y)
  <1>1. RunningLimit \in Nat /\ OwnerRunning \in Nat /\ OwnerActive \in Nat /\ 1 \in Nat
    BY ConstantsAssumption
  <1>2. IsFiniteSet(Known(row)) /\ "absent" \notin {"running"} /\ "absent" \notin Active
    BY DEF Limits, Active
  <1>3. IsFiniteSet(Known(y))
    <2>1. Known(y) \in SUBSET (Known(row) \cup {r})
      BY DEF Known
    <2> QED
      BY <1>2, <2>1, FS_Subset, FS_AddElement
  <1>4. Cardinality(WithStatus(y, {"running"})) <= RunningLimit
    <2>1. WithStatus(y, {"running"}) \subseteq WithStatus(row, {"running"})
      BY DEF WithStatus
    <2> QED
      BY <1>1, <1>2, <2>1, CountedKnown, Fewer DEF Limits
  <1>5. ASSUME NEW u \in Owners PROVE Cardinality(OfOwner(y, u, {"running"})) <= OwnerRunning
    <2>1. OfOwner(y, u, {"running"}) \subseteq OfOwner(row, u, {"running"})
      BY DEF OfOwner
    <2> QED
      BY <1>1, <1>2, <2>1, CountedKnown, Fewer DEF Limits
  <1>6. ASSUME NEW u \in Owners PROVE Cardinality(OfOwner(y, u, Active)) <= OwnerActive
    <2>1. CASE u = c[1]
      <3>1. OfOwner(y, u, Active) \subseteq OfOwner(row, u, Active) \cup {r}
        BY DEF OfOwner
      <3> QED
        BY <1>1, <1>2, <2>1, <3>1, CountedKnown, OneMore DEF Admitted
    <2>2. CASE u # c[1]
      <3>1. OfOwner(y, u, Active) \subseteq OfOwner(row, u, Active)
        BY <2>2 DEF OfOwner
      <3> QED
        BY <1>1, <1>2, <3>1, CountedKnown, Fewer DEF Limits
    <2> QED
      BY <2>1, <2>2
  <1>7. ASSUME NEW d \in Conversations PROVE Cardinality(InConversation(y, d, Active)) <= 1
    <2>1. CASE d = c
      <3>1. InConversation(y, d, Active) \subseteq {r}
        BY <2>1 DEF InConversation, Admitted
      <3>2. IsFiniteSet({r}) /\ Cardinality({r}) = 1
        BY FS_Singleton, Zenon
      <3> QED
        BY <1>1, <3>1, <3>2, Fewer
    <2>2. CASE d # c
      <3>1. InConversation(y, d, Active) \subseteq InConversation(row, d, Active)
        BY <2>2 DEF InConversation
      <3> QED
        BY <1>1, <1>2, <3>1, CountedKnown, Fewer DEF Limits
    <2> QED
      BY <2>1, <2>2
  <1> QED
    BY <1>3, <1>4, <1>5, <1>6, <1>7 DEF Limits

LEMMA UserStepLimits ==
    ASSUME TypeOK, Limits(row), UserStep
    PROVE  Limits(row')
  <1>1. row \in [Runs -> Row]
    BY DEF TypeOK
  <1>2. CASE \E q \in Runs : Cancel(q)
    <2>1. PICK q \in Runs : Cancel(q)
      BY <1>2
    <2>2. row' = [row EXCEPT ![q] = [row[q] EXCEPT !.cancel = TRUE, !.status = IF @ = "running" THEN @ ELSE "cancelled"]]
      BY <2>1 DEF Cancel
    <2>3. row[q].status # "absent"
      BY <2>1 DEF Cancel, Active
    <2>4. NotMore(row, row')
      BY <1>1, <2>2, <2>3 DEF NotMore, Row, Active
    <2> QED
      BY <2>4, NotMoreKeeps
  <1>3. CASE \E q \in Runs : Resume(q)
    <2>1. PICK q \in Runs : Resume(q)
      BY <1>3
    <2>2. row' = [row EXCEPT ![q] = [row[q] EXCEPT !.status = "queued"]] /\ row[q].status = "waiting_auth"
      BY <2>1 DEF Resume
    <2>3. NotMore(row, row')
      BY <1>1, <2>2 DEF NotMore, Row, Active
    <2> QED
      BY <2>3, NotMoreKeeps
  <1>4. CASE \E q \in Runs, n \in ToolNumbers : Confirm(q, n)
    <2>1. PICK q \in Runs, n \in ToolNumbers : Confirm(q, n)
      BY <1>4
    <2>2. /\ row' = [row EXCEPT ![q] = [row[q] EXCEPT !.status = "queued", !.state.confirmed = TRUE]]
          /\ row[q].status = "waiting_confirmation"
      BY <2>1 DEF Confirm, Confirmable
    <2>3. NotMore(row, row')
      BY <1>1, <2>2 DEF NotMore, Row, Active
    <2> QED
      BY <2>3, NotMoreKeeps
  <1>5. CASE \E q \in Runs, c \in Conversations : Submit(q, c)
    <2>1. PICK q \in Runs, c \in Conversations : Submit(q, c)
      BY <1>5
    <2>2. /\ row' = [row EXCEPT ![q] = [NoRow EXCEPT !.status = "queued", !.conversation = c]]
          /\ row[q].status = "absent" /\ Admitted(c)
      BY <2>1 DEF Submit
    <2>3. /\ \A p \in Runs : p # q => row'[p] = row[p]
          /\ row'[q].conversation = c /\ row'[q].status = "queued"
      BY <1>1, <2>2 DEF NoRow
    <2> QED
      BY <2>2, <2>3, AdmissionKeeps
  <1> QED
    BY <1>2, <1>3, <1>4, <1>5 DEF UserStep

LEMMA ClaimLimits ==
    ASSUME IInv, Limits(row), NEW w \in Runners, Claim(w)
    PROVE  Limits(row')
  <1> DEFINE rows == [q \in Runs |-> IF LeaseGone(q) THEN Recovered(row[q]) ELSE row[q]]
  <1>1. \A q \in Runs : rows[q] \in Row
    <2>1. \A q \in Runs : row[q] \in Row
      BY DEF IInv, TypeOK
    <2> QED
      BY <2>1, RecoveredIs
  <1>2. NotMore(row, rows)
    <2> SUFFICES ASSUME NEW q \in Runs
                 PROVE  /\ rows[q].conversation = row[q].conversation
                        /\ rows[q].status # "absent" => row[q].status # "absent"
                        /\ rows[q].status = "running" => row[q].status = "running"
                        /\ rows[q].status \in Active => row[q].status \in Active
      BY DEF NotMore
    <2>1. CASE LeaseGone(q)
      <3>1. row[q] \in Row /\ row[q].status = "running"
        BY <2>1 DEF IInv, TypeOK, LeaseGone
      <3>2. rows[q] = [row[q] EXCEPT !.status = RecoveredStatus(row[q]), !.epoch = @ + 1]
        BY <2>1 DEF Recovered
      <3>3. rows[q].conversation = row[q].conversation
        BY <3>1, <3>2 DEF Row
      <3> QED
        BY <3>1, <3>3 DEF Active
    <2>2. CASE ~LeaseGone(q)
      BY <2>2
    <2> QED
      BY <2>1, <2>2
  <1>3. Limits(rows)
    BY <1>2, NotMoreKeeps
  <1>4. CASE row' = rows
    BY <1>3, <1>4
  <1>5. ASSUME NEW r \in Picks(rows),
               row' = [rows EXCEPT ![r] = [rows[r] EXCEPT !.status = "running", !.epoch = @ + 1, !.live = TRUE]]
        PROVE  Limits(row')
    <2>1. r \in Runs /\ Claimable(rows, r)
      BY DEF Picks
    <2>2. DOMAIN rows = Runs
      OBVIOUS
    <2> HIDE DEF rows
    <2>3. /\ \A q \in Runs : q # r => row'[q] = rows[q]
          /\ row'[r] = [rows[r] EXCEPT !.status = "running", !.epoch = @ + 1, !.live = TRUE]
      BY <1>5, <2>1, <2>2
    <2>4. row'[r].conversation = rows[r].conversation /\ row'[r].status = "running"
      BY <1>1, <2>1, <2>3 DEF Row
    <2> QED
      BY <1>3, <2>1, <2>3, <2>4, StartKeeps
  <1> QED
    BY <1>4, <1>5 DEF Claim

LEMMA NextLimits ==
    ASSUME IInv, Limits(row), [Next]_vars
    PROVE  Limits(row')
  <1>1. CASE row' = row
    BY <1>1
  <1>2. CASE UserStep
    BY <1>2, UserStepLimits DEF IInv
  <1>3. ASSUME NEW w \in Runners, Save(w), Mine(w) PROVE Limits(row')
    <2>1. row \in [Runs -> Row] /\ runner[w].at = "save"
      BY <1>3 DEF IInv, TypeOK, Save, At
    <2>2. \A q \in runner[w].run : q \in Runs /\ runner[w].run = {q}
      BY OnRun DEF IInv
    <2>3. PICK r \in runner[w].run : row[r].status = "running"
      BY <1>3 DEF Mine
    <2>4. row' = [q \in Runs |-> IF q \notin runner[w].run THEN row[q] ELSE
                      [row[q] EXCEPT !.state = runner[w].state, !.status = runner[w].to,
                                     !.live = @ /\ runner[w].to = "running"]]
      BY <1>3 DEF Save
    <2>5. \A q \in Runs : row'[q].conversation = row[q].conversation /\ (row'[q] = row[q] \/ row[q].status = "running")
      <3> SUFFICES ASSUME NEW q \in Runs
                   PROVE  row'[q].conversation = row[q].conversation /\ (row'[q] = row[q] \/ row[q].status = "running")
        OBVIOUS
      <3>1. CASE q \notin runner[w].run
        BY <2>4, <3>1
      <3>2. CASE q \in runner[w].run
        <4>1. row[q].status = "running"
          BY <2>2, <2>3, <3>2
        <4>2. row'[q] = [row[q] EXCEPT !.state = runner[w].state, !.status = runner[w].to,
                                       !.live = @ /\ runner[w].to = "running"]
          BY <2>4, <3>2
        <4>3. row[q] \in Row
          BY <2>1
        <4>4. row'[q].conversation = row[q].conversation
          BY <4>2, <4>3 DEF Row
        <4> QED
          BY <4>1, <4>4
      <3> QED
        BY <3>1, <3>2
    <2>6. NotMore(row, row')
      BY <2>5 DEF NotMore, Active
    <2> QED
      BY <2>6, NotMoreKeeps
  <1>4. ASSUME NEW r \in Runs, Lapse(r) \/ Stall(r) PROVE Limits(row')
    <2>1. row \in [Runs -> Row] /\ row' = [row EXCEPT ![r].live = FALSE]
      BY <1>4 DEF IInv, TypeOK, Lapse, Stall, LeaseEnds
    <2>2. NotMore(row, row')
      BY <2>1 DEF NotMore, Row
    <2> QED
      BY <2>2, NotMoreKeeps
  <1>5. ASSUME NEW w \in Runners, Step(w) \/ Beat(w) \/ BeatFails(w) \/ Crash(w), ~(Save(w) /\ Mine(w))
        PROVE  row' = row
    BY <1>5 DEF Step, Local, Invoke, Ask, Save, Beat, BeatFails, Crash
  <1>6. ASSUME NEW o \in RunOperations, Handle(o) \/ Reconcile(o) PROVE row' = row
    BY <1>6 DEF Handle, Reconcile
  <1> QED
    BY <1>1, <1>2, <1>3, <1>4, <1>5, <1>6, ClaimLimits DEF Next, vars

LEMMA InitLimits == Init => Limits(row)
  <1> SUFFICES ASSUME Init PROVE Limits(row)
    OBVIOUS
  <1>1. \A r \in Runs : row[r].status = "absent"
    BY DEF Init, NoRow
  <1>2. /\ Known(row) = {} /\ WithStatus(row, {"running"}) = {}
        /\ \A u : OfOwner(row, u, {"running"}) = {} /\ OfOwner(row, u, Active) = {}
        /\ \A c : InConversation(row, c, Active) = {}
    BY <1>1 DEF Known, WithStatus, OfOwner, InConversation, Active
  <1>3. IsFiniteSet({}) /\ Cardinality({}) = 0 /\ RunningLimit \in Nat /\ OwnerRunning \in Nat /\ OwnerActive \in Nat
    BY FS_EmptySet, ConstantsAssumption
  <1> QED
    BY <1>2, <1>3 DEF Limits

\* However many replicas claim, recover and submit, the limits on running and on
\* unfinished runs hold, of all, of an owner and of a conversation.
THEOREM LimitsAreKept == Spec => []QueueLimitsKept
  <1>1. Init => IInv /\ Limits(row)
    BY InitInv, InitLimits
  <1>2. IInv /\ Limits(row) /\ [Next]_vars => IInv' /\ Limits(row)'
    BY NextKeeps, NextLimits
  <1>3. Limits(row) => QueueLimitsKept
    BY DEF Limits, QueueLimitsKept, RunningLimits, AdmissionLimits
  <1> QED
    BY <1>1, <1>2, <1>3, PTL DEF Spec

=============================================================================
