------------------------- MODULE AgentClient_proofs -------------------------
(***************************************************************************)
(* Theorems about AgentClient, for any number of generations and actions   *)
(* and any times.  The invariant of the executor stands on its own.  That  *)
(* of the client says what a token is used for: a generation whose socket  *)
(* is not made yet, or not open yet, is unheard of everywhere else, which  *)
(* is what makes a comparison of generations after an await sufficient.    *)
(***************************************************************************)
EXTENDS AgentClient, FiniteSetTheorems, TLAPS

Tokens == Generations \cup {None}

ClientType ==
    /\ running \in BOOLEAN /\ connecting \in BOOLEAN /\ retrying \in BOOLEAN
    /\ generation \in Tokens /\ socket \in Tokens /\ accepted \in Tokens
    /\ beatTimer \in Tokens /\ collecting \in Tokens
    /\ preparing \subseteq Generations /\ greeted \subseteq Generations /\ orphans \subseteq Generations
    /\ link \in [Generations -> {"none", "opening", "open", "closing"}]
    /\ sequence \in 0 .. Modulus - 1 /\ beat \in 0 .. Modulus - 1

ExecutorType ==
    /\ active \in BOOLEAN /\ seen \subseteq Actions
    /\ job \in [Actions -> Jobs] /\ starts \in [Actions -> 0 .. 2]

Outcomes == [action : Actions \cup {None}, socket : Tokens, result : {"none", "denied", "ended"}]

OutcomeType == outcome \in Outcomes

-----------------------------------------------------------------------------
(* The executor. *)

\* OneAtATime and KilledInTime, and that a killed process waits for nothing.
Executor ==
    /\ active <=> Busy # {}
    /\ \A a, b \in Busy : a = b
    /\ Busy \subseteq seen
    /\ \A a \in Actions : starts[a] <= Steps[a] /\ (starts[a] > 0 => a \in seen)
    /\ \A a \in Busy : starts[a] = job[a].step
    /\ KilledInTime
    /\ \A a \in Busy : job[a].signal = "kill" => job[a].due = 0

ExecutorInv == ExecutorType /\ Executor

\* What the SMT solver is told about jobs, so that it need not see their fields' types.
Stages == {"idle", "running"}
Signals == {"none", "term", "kill"}
Lefts == (- KillGrace) .. MaxLeft
Dues == 0 .. Limit + KillGrace

JobRecord(pc, g, step, left, due, signal, carrier) ==
    [pc |-> pc, generation |-> g, step |-> step, left |-> left, due |-> due,
     signal |-> signal, carrier |-> carrier]

LEMMA JobFields ==
    ASSUME NEW j \in Jobs
    PROVE  /\ j.pc \in Stages /\ j.generation \in Tokens /\ j.step \in 0 .. 2 /\ j.left \in Lefts
           /\ j.due \in Dues /\ j.signal \in Signals /\ j.carrier \in Tokens
           /\ j = JobRecord(j.pc, j.generation, j.step, j.left, j.due, j.signal, j.carrier)
BY DEF Jobs, Stages, Signals, Lefts, Dues, Tokens, JobRecord

LEMMA JobMade ==
    ASSUME NEW pc \in Stages, NEW g \in Tokens, NEW step \in 0 .. 2, NEW left \in Lefts,
           NEW due \in Dues, NEW signal \in Signals, NEW carrier \in Tokens
    PROVE  JobRecord(pc, g, step, left, due, signal, carrier) \in Jobs
<1>1. Jobs = [pc : Stages, generation : Tokens, step : 0 .. 2, left : Lefts, due : Dues,
              signal : Signals, carrier : Tokens]
  BY DEF Jobs, Stages, Signals, Lefts, Dues, Tokens
<1> DEFINE I == 0 .. 2
<1> HIDE DEF I
<1>2. step \in I /\ Jobs = [pc : Stages, generation : Tokens, step : I, left : Lefts, due : Dues,
                            signal : Signals, carrier : Tokens]
  BY <1>1 DEF I
<1> QED BY <1>2 DEF JobRecord

LEMMA IdleJobType == IdleJob \in Jobs /\ IdleJob.pc = "idle"
<1>1. /\ "idle" \in Stages /\ None \in Tokens /\ 0 \in 0 .. 2 /\ "none" \in Signals
      /\ 0 \in Lefts /\ 0 \in Dues
  BY AgentAssumption DEF Stages, Tokens, Signals, Lefts, Dues
<1>2. IdleJob = JobRecord("idle", None, 0, 0, 0, "none", None)
  BY DEF IdleJob, JobRecord
<1> QED BY <1>1, <1>2, JobMade DEF JobRecord

LEMMA StartedRecord ==
    ASSUME NEW pc, NEW g, NEW s, NEW l, NEW d, NEW signal, NEW carrier, NEW step, NEW left
    PROVE  Started(JobRecord(pc, g, s, l, d, signal, carrier), step, left) =
             JobRecord("running", g, step, left, Least(Limit, left), "none", carrier)
<1> DEFINE due == Least(Limit, left)
<1> HIDE DEF due
<1>1. Started(JobRecord(pc, g, s, l, d, signal, carrier), step, left) =
        [[[[[[pc |-> pc, generation |-> g, step |-> s, left |-> l, due |-> d, signal |-> signal, carrier |-> carrier]
               EXCEPT !.pc = "running"] EXCEPT !.step = step] EXCEPT !.left = left] EXCEPT !.due = due]
            EXCEPT !.signal = "none"]
  BY DEF Started, JobRecord, due
<1> QED BY <1>1 DEF JobRecord, due

LEMMA StartedJob ==
    ASSUME NEW j \in Jobs, NEW step \in 1 .. 2, NEW left \in 1 .. MaxLeft
    PROVE  /\ Started(j, step, left) \in Jobs
           /\ Started(j, step, left).pc = "running" /\ Started(j, step, left).step = step
           /\ Started(j, step, left).signal = "none"
           /\ Started(j, step, left).left = left
           /\ Started(j, step, left).left >= Started(j, step, left).due
           /\ Started(j, step, left).generation = j.generation
           /\ Started(j, step, left).carrier = j.carrier
<1> DEFINE due == Least(Limit, left)
<1>1. due \in Dues /\ left >= due /\ left \in Lefts /\ step \in 0 .. 2
  BY AgentAssumption DEF Least, Dues, Lefts
<1>2. j.generation \in Tokens /\ j.carrier \in Tokens /\ "running" \in Stages /\ "none" \in Signals
  BY JobFields DEF Stages, Signals
<1> DEFINE r == JobRecord(j.pc, j.generation, j.step, j.left, j.due, j.signal, j.carrier)
<1>3. j = r
  BY JobFields
<1>0. Started(r, step, left) = JobRecord("running", j.generation, step, left, due, "none", j.carrier)
  BY StartedRecord
<1> HIDE DEF due, r
<1>4. Started(j, step, left) = JobRecord("running", j.generation, step, left, due, "none", j.carrier)
  BY <1>0, <1>3
<1>5. Started(j, step, left) \in Jobs
  BY <1>1, <1>2, <1>4, JobMade
<1> QED BY <1>1, <1>4, <1>5 DEF JobRecord

LEMMA RequestKeepsExecutor ==
    ASSUME ExecutorInv, NEW g \in Generations, NEW a \in Actions, NEW left \in 0 .. MaxLeft, NEW allowed \in BOOLEAN,
           Request(g, a, left, allowed), ClientType
    PROVE  ExecutorInv'
<1>1. ExecutorType /\ Executor
  BY DEF ExecutorInv
<1>2. CASE UNCHANGED <<active, job, starts>> /\ seen' \in {seen, seen \cup {a}}
  <2>1. Busy' = Busy
    BY <1>2 DEF Busy
  <2> QED BY <1>1, <1>2, <2>1 DEF ExecutorInv, ExecutorType, Executor, KilledInTime
<1>3. ASSUME a \notin seen, left # 0, ~active, seen' = seen \cup {a}, active' = TRUE,
             NEW j \in Jobs, job' = [job EXCEPT ![a] = Started(j, 1, left)],
             starts' = [starts EXCEPT ![a] = @ + 1]
      PROVE  ExecutorInv'
  <2> DEFINE k == Started(j, 1, left)
  <2>1. /\ k \in Jobs /\ k.pc = "running" /\ k.step = 1 /\ k.signal = "none" /\ k.left >= k.due
    BY <1>3, StartedJob, AgentAssumption
  <2> HIDE DEF k
  <2>2. starts[a] = 0 /\ starts'[a] = 1 /\ 1 <= Steps[a] /\ \A b \in Actions : b # a => starts'[b] = starts[b]
    <3>1. starts \in [Actions -> 0 .. 2] /\ starts[a] \in 0 .. 2 /\ Steps[a] \in 1 .. 2
      BY <1>1, AgentAssumption DEF ExecutorType
    <3>2. starts[a] > 0 => a \in seen
      BY <1>1 DEF Executor
    <3>3. starts'[a] = starts[a] + 1 /\ \A b \in Actions : b # a => starts'[b] = starts[b]
      BY <1>3, <3>1
    <3> QED BY <1>3, <3>1, <3>2, <3>3
  <2>3. job'[a] = k /\ \A b \in Actions : b # a => job'[b] = job[b]
    BY <1>1, <1>3 DEF ExecutorType, k
  <2>4. Busy = {}
    BY <1>1, <1>3 DEF Executor
  <2>5. Busy' = {a}
    BY <2>1, <2>3, <2>4 DEF Busy
  <2>6. ExecutorType'
    BY <1>1, <1>3, <2>1, <2>2, <2>3 DEF ExecutorType, k
  <2>7. Executor'
    BY <1>1, <1>3, <2>1, <2>2, <2>3, <2>5 DEF Executor, KilledInTime
  <2> QED BY <2>6, <2>7 DEF ExecutorInv
<1>4. [job[a] EXCEPT !.generation = g, !.carrier = Carrier(g)] \in Jobs
  BY <1>1 DEF ExecutorType, Jobs, ClientType, Tokens, Carrier
<1>5. CASE UNCHANGED jobVars
  BY <1>2, <1>5 DEF jobVars
<1>6. CASE /\ seen' = seen \cup {a}
           /\ IF a \in seen \/ left = 0 \/ ~allowed \/ active
                THEN UNCHANGED <<active, job, starts>>
                ELSE /\ active' = TRUE
                     /\ job' = [job EXCEPT ![a] = Started([@ EXCEPT !.generation = g, !.carrier = Carrier(g)], 1, left)]
                     /\ starts' = [starts EXCEPT ![a] = @ + 1]
  <2> DEFINE j == [job[a] EXCEPT !.generation = g, !.carrier = Carrier(g)]
  <2>1. CASE UNCHANGED <<active, job, starts>>
    BY <1>2, <1>6, <2>1
  <2>2. CASE /\ a \notin seen /\ left # 0 /\ ~active /\ active' = TRUE
             /\ job' = [job EXCEPT ![a] = Started(j, 1, left)]
             /\ starts' = [starts EXCEPT ![a] = @ + 1]
    <3> HIDE DEF j
    <3> QED BY <1>3, <1>4, <1>6, <2>2 DEF j
  <2> QED BY <1>6, <2>1, <2>2
<1> QED BY <1>5, <1>6 DEF Request

LEMMA ProcessEndsKeepsExecutor ==
    ASSUME ExecutorInv, NEW a \in Actions, NEW ok \in BOOLEAN, ProcessEnds(a, ok)
    PROVE  ExecutorInv'
<1>1. ExecutorType /\ Executor /\ job[a] \in Jobs /\ job[a].pc = "running"
  BY DEF ExecutorInv, ExecutorType, ProcessEnds
<1>2. Busy = {a}
  BY <1>1 DEF Busy, Executor
<1>3. CASE job' = [job EXCEPT ![a] = IdleJob] /\ active' = FALSE /\ UNCHANGED <<starts, seen>>
  <2>1. job'[a] = IdleJob /\ \A b \in Actions : b # a => job'[b] = job[b]
    BY <1>1, <1>3 DEF ExecutorType
  <2>2. Busy' = {}
    BY <1>2, <2>1, IdleJobType DEF Busy
  <2>3. ExecutorType'
    BY <1>1, <1>3, IdleJobType DEF ExecutorType
  <2> QED BY <1>1, <1>3, <2>2, <2>3 DEF ExecutorInv, Executor, KilledInTime
<1>4. CASE /\ job[a].step < Steps[a] /\ job[a].left > 0
           /\ job' = [job EXCEPT ![a] = Started(job[a], job[a].step + 1, job[a].left)]
           /\ starts' = [starts EXCEPT ![a] = @ + 1]
           /\ UNCHANGED <<active, seen>>
  <2>1. job[a].step \in 0 .. 2 /\ job[a].left \in 1 .. MaxLeft /\ Steps[a] \in 1 .. 2
    BY <1>1, <1>4, AgentAssumption DEF Jobs
  <2> DEFINE step == job[a].step + 1
  <2> DEFINE k == Started(job[a], step, job[a].left)
  <2>2. step \in 1 .. 2 /\ step <= Steps[a]
    BY <1>4, <2>1
  <2> HIDE DEF step
  <2>3. k \in Jobs /\ k.pc = "running" /\ k.step = step /\ k.signal = "none" /\ k.left >= k.due
    BY <1>1, <2>1, <2>2, StartedJob
  <2>4. job'[a] = k /\ \A b \in Actions : b # a => job'[b] = job[b]
    BY <1>1, <1>4 DEF ExecutorType, step
  <2> HIDE DEF k
  <2>5. Busy' = {a}
    BY <1>2, <2>3, <2>4 DEF Busy
  <2>6. starts'[a] = step /\ a \in seen /\ \A b \in Actions : b # a => starts'[b] = starts[b]
    <3>1. starts \in [Actions -> 0 .. 2] /\ starts[a] \in 0 .. 2
      BY <1>1 DEF ExecutorType
    <3>2. starts[a] = job[a].step /\ (starts[a] > 0 => a \in seen)
      BY <1>1, <1>2 DEF Executor
    <3>3. starts'[a] = starts[a] + 1 /\ \A b \in Actions : b # a => starts'[b] = starts[b]
      BY <1>4, <3>1
    <3>4. a \in seen
      BY <1>1, <1>2 DEF Executor
    <3> QED BY <2>1, <3>1, <3>2, <3>3, <3>4 DEF step
  <2>7. ExecutorType'
    BY <1>1, <1>4, <2>2, <2>3, <2>4, <2>6 DEF ExecutorType, k, step
  <2>8. Executor'
    BY <1>1, <1>2, <1>4, <2>2, <2>3, <2>4, <2>5, <2>6 DEF Executor, KilledInTime
  <2> QED BY <2>7, <2>8 DEF ExecutorInv
<1> QED BY <1>3, <1>4 DEF ProcessEnds, Finish

LEMMA TimeoutKeepsExecutor ==
    ASSUME ExecutorInv, NEW a \in Actions, TimeoutFires(a)
    PROVE  ExecutorInv'
<1>1. ExecutorType /\ Executor /\ job[a] \in Jobs /\ job[a].pc = "running" /\ job[a].due = 0 /\ a \in Busy
  BY DEF ExecutorInv, ExecutorType, TimeoutFires, Busy
<1>2. UNCHANGED <<active, starts, seen>>
  BY DEF TimeoutFires
<1> DEFINE k == IF job[a].signal = "none" THEN [job[a] EXCEPT !.signal = "term", !.due = KillGrace]
                                          ELSE [job[a] EXCEPT !.signal = "kill"]
<1>3. job' = [job EXCEPT ![a] = k]
  BY DEF TimeoutFires
<1>4. /\ k \in Jobs /\ k.pc = "running" /\ k.step = job[a].step /\ k.left = job[a].left
      /\ job[a].signal = "none" => k.signal = "term" /\ k.due = KillGrace
      /\ job[a].signal # "none" => k.signal = "kill" /\ k.due = 0
  <2>1. /\ job[a] = JobRecord(job[a].pc, job[a].generation, job[a].step, job[a].left, job[a].due, job[a].signal, job[a].carrier)
        /\ job[a].pc \in Stages /\ job[a].generation \in Tokens /\ job[a].step \in 0 .. 2 /\ job[a].left \in Lefts
        /\ job[a].due \in Dues /\ job[a].carrier \in Tokens
    BY <1>1, JobFields
  <2>2. KillGrace \in Dues /\ "term" \in Signals /\ "kill" \in Signals
    BY AgentAssumption DEF Dues, Signals
  <2>3. CASE job[a].signal = "none"
    <3>1. k = JobRecord(job[a].pc, job[a].generation, job[a].step, job[a].left, KillGrace, "term", job[a].carrier)
      BY <2>1, <2>3 DEF JobRecord
    <3> QED BY <1>1, <2>1, <2>2, <2>3, <3>1, JobMade DEF JobRecord
  <2>4. CASE job[a].signal # "none"
    <3>1. k = JobRecord(job[a].pc, job[a].generation, job[a].step, job[a].left, job[a].due, "kill", job[a].carrier)
      BY <2>1, <2>4 DEF JobRecord
    <3> QED BY <1>1, <2>1, <2>2, <2>4, <3>1, JobMade DEF JobRecord
  <2> QED BY <2>3, <2>4
<1>5. k.signal = "term" => k.left >= k.due - KillGrace
  BY <1>1, <1>4, AgentAssumption DEF Executor, KilledInTime, Jobs
<1>6. k.signal = "kill" => k.left >= - KillGrace
  <2>1. job[a].signal \in {"none", "term", "kill"} /\ job[a].left \in Int
    BY <1>1 DEF Jobs
  <2> QED BY <1>1, <1>4, <2>1, AgentAssumption DEF Executor, KilledInTime
<1>7. job'[a] = k /\ \A b \in Actions : b # a => job'[b] = job[b]
  BY <1>1, <1>3 DEF ExecutorType
<1>8. ExecutorType'
  BY <1>1, <1>2, <1>3, <1>4 DEF ExecutorType
<1> HIDE DEF k
<1>9. Busy' = Busy
  BY <1>1, <1>4, <1>7 DEF Busy
<1>10. KilledInTime'
  <2>1. k.signal \in {"term", "kill"}
    BY <1>1, <1>4 DEF Jobs
  <2>2. ASSUME NEW b \in Busy
        PROVE  job'[b].left >= CASE job'[b].signal = "none" -> job'[b].due
                                 [] job'[b].signal = "term" -> job'[b].due - KillGrace
                                 [] job'[b].signal = "kill" -> - KillGrace
    BY <1>1, <1>5, <1>6, <1>7, <2>1, <2>2 DEF Executor, KilledInTime, Busy
  <2> QED BY <1>9, <2>2 DEF KilledInTime
<1>11. Executor'
  BY <1>1, <1>2, <1>4, <1>7, <1>9, <1>10 DEF Executor, Busy
<1> QED BY <1>8, <1>11 DEF ExecutorInv

LEMMA TickKeepsExecutor ==
    ASSUME ExecutorInv, Tick
    PROVE  ExecutorInv'
<1>1. ExecutorType /\ Executor /\ UNCHANGED <<active, starts, seen>>
  BY DEF ExecutorInv, Tick
<1>2. job' = [b \in Actions |-> IF b \in Busy THEN [job[b] EXCEPT !.left = @ - 1, !.due = @ - 1] ELSE job[b]]
  BY DEF Tick
<1>3. ASSUME NEW b \in Busy
      PROVE  /\ job'[b] \in Jobs /\ job'[b].pc = "running" /\ job'[b].step = job[b].step
             /\ job'[b].signal \in {"none", "term"}
             /\ job'[b].signal = "none" => job'[b].left >= job'[b].due
             /\ job'[b].signal = "term" => job'[b].left >= job'[b].due - KillGrace
  <2>1. /\ b \in Actions /\ job[b].pc = "running" /\ job[b] \in Jobs /\ job[b].due > 0
        /\ job[b].left \in Int /\ job[b].due \in Int /\ job[b].due <= Limit + KillGrace
        /\ job[b].left <= MaxLeft
    <3>1. b \in Actions /\ job[b].pc = "running" /\ job[b] \in Jobs /\ job[b].due > 0
      BY <1>1 DEF Busy, ExecutorType, Tick
    <3>2. job[b].left \in Lefts /\ job[b].due \in Dues
      BY <3>1, JobFields
    <3> QED BY <3>1, <3>2, AgentAssumption DEF Lefts, Dues
  <2>2. job'[b] = [job[b] EXCEPT !.left = job[b].left - 1, !.due = job[b].due - 1]
    BY <1>2, <2>1
  <2>3. job[b].signal \in {"none", "term"}
    BY <1>1, <2>1 DEF Executor, Jobs
  <2>4. /\ job[b].signal = "none" => job[b].left >= job[b].due
        /\ job[b].signal = "term" => job[b].left >= job[b].due - KillGrace
    BY <1>1 DEF Executor, KilledInTime
  <2>5. job[b].left - 1 \in (- KillGrace) .. MaxLeft /\ job[b].due - 1 \in 0 .. Limit + KillGrace
    BY <2>1, <2>3, <2>4, AgentAssumption
  <2>6. /\ job'[b] \in Jobs /\ job'[b].pc = "running" /\ job'[b].step = job[b].step
        /\ job'[b].signal = job[b].signal /\ job'[b].left = job[b].left - 1 /\ job'[b].due = job[b].due - 1
    <3>1. job[b] = JobRecord(job[b].pc, job[b].generation, job[b].step, job[b].left, job[b].due, job[b].signal, job[b].carrier)
      BY <2>1, JobFields
    <3>2. job'[b] = JobRecord(job[b].pc, job[b].generation, job[b].step, job[b].left - 1, job[b].due - 1, job[b].signal, job[b].carrier)
      BY <2>2, <3>1 DEF JobRecord
    <3>3. job[b].left - 1 \in Lefts /\ job[b].due - 1 \in Dues
      BY <2>5 DEF Lefts, Dues
    <3>4. job'[b] \in Jobs
      <4>1. /\ job[b].pc \in Stages /\ job[b].generation \in Tokens /\ job[b].step \in 0 .. 2
            /\ job[b].signal \in Signals /\ job[b].carrier \in Tokens
        BY <2>1, JobFields
      <4> QED BY <3>2, <3>3, <4>1, JobMade
    <3> QED BY <2>1, <3>2, <3>4 DEF JobRecord
  <2> QED BY <2>1, <2>3, <2>4, <2>6, AgentAssumption
<1>4. \A b \in Actions : b \notin Busy => job'[b] = job[b]
  BY <1>2
<1>5. Busy' = Busy
  BY <1>3, <1>4 DEF Busy
<1>6. ExecutorType'
  BY <1>1, <1>2, <1>3, <1>4 DEF ExecutorType, Busy
<1>7. KilledInTime'
  BY <1>3, <1>5 DEF KilledInTime
<1>8. Executor'
  BY <1>1, <1>3, <1>5, <1>7 DEF Executor
<1> QED BY <1>6, <1>8 DEF ExecutorInv

\* A step of the executor keeps its invariant, and so does one that is none.
ExecutorStep ==
    \/ UNCHANGED jobVars
    \/ \E g \in Generations, a \in Actions, left \in 0 .. MaxLeft, allowed \in BOOLEAN : Request(g, a, left, allowed)
    \/ \E a \in Actions, ok \in BOOLEAN : ProcessEnds(a, ok)
    \/ \E a \in Actions : TimeoutFires(a)
    \/ Tick

LEMMA ExecutorInductive == ExecutorInv /\ ClientType /\ ExecutorStep => ExecutorInv'
<1> SUFFICES ASSUME ExecutorInv, ClientType, ExecutorStep
             PROVE  ExecutorInv'
  OBVIOUS
<1>1. CASE UNCHANGED jobVars
  BY <1>1 DEF jobVars, ExecutorInv, ExecutorType, Executor, KilledInTime, Busy
<1>2. ASSUME NEW g \in Generations, NEW a \in Actions, NEW left \in 0 .. MaxLeft, NEW allowed \in BOOLEAN,
             Request(g, a, left, allowed)
      PROVE  ExecutorInv'
  BY <1>2, RequestKeepsExecutor
<1>3. ASSUME NEW a \in Actions, NEW ok \in BOOLEAN, ProcessEnds(a, ok)
      PROVE  ExecutorInv'
  BY <1>3, ProcessEndsKeepsExecutor
<1>4. ASSUME NEW a \in Actions, TimeoutFires(a)
      PROVE  ExecutorInv'
  BY <1>4, TimeoutKeepsExecutor
<1>5. CASE Tick
  BY <1>5, TickKeepsExecutor
<1> QED BY <1>1, <1>2, <1>3, <1>4, <1>5 DEF ExecutorStep

-----------------------------------------------------------------------------
(* The client. *)

\* Nothing that started on connection g, neither a heartbeat nor an action, exists.
Unheard(g) ==
    /\ accepted # g /\ collecting # g /\ beatTimer # g
    /\ \A a \in Busy : job[a].generation # g

\* Before its socket is open, a generation is known to its connect() only.
NewSockets ==
    \A g \in Generations :
        /\ g \in preparing \/ link[g] = "opening" => Unheard(g)
        /\ g \in preparing => link[g] = "none" /\ socket # g

\* While a connect() is on its way, the client may still hold an earlier socket.
CurrentSocket ==
    running => /\ generation \in Generations
               /\ socket \notin {None, generation} => generation \in preparing

\* The last heartbeat on the socket is the last that was numbered.
Beats ==
    /\ socket = None => beat = 0
    /\ running /\ socket = generation =>
         IF accepted = generation THEN link[generation] = "open" => beat = sequence
                                  ELSE beat = 0 /\ collecting # generation

\* An action whose connection still stands was accepted on its socket.
Carriers ==
    \A a \in Busy :
        running /\ job[a].generation = generation /\ socket = generation /\ link[generation] = "open"
          => job[a].carrier = socket

Connections == NewSockets /\ CurrentSocket /\ Beats /\ Carriers /\ SocketsAreOwned

ClientInv == ClientType /\ Connections

\* A step after which no action is busy that was not, on its generation and its carrier.
JobsKept ==
    /\ Busy' \subseteq Busy
    /\ \A a \in Busy' : job'[a].generation = job[a].generation /\ job'[a].carrier = job[a].carrier

LEMMA SameJobs == UNCHANGED jobVars => JobsKept
BY DEF jobVars, JobsKept, Busy

LEMMA StillUnheard ==
    ASSUME NEW g, Unheard(g), JobsKept, accepted' # g, collecting' # g, beatTimer' # g
    PROVE  Unheard(g)'
BY DEF Unheard, JobsKept

\* The executor's own steps do not touch the client.
LEMMA ExecutorKeepsClient ==
    ASSUME ClientInv, JobsKept, UNCHANGED <<linkVars, beatVars, wireVars, orphans>>
    PROVE  ClientInv'
<1>1. ClientType'
  BY DEF ClientInv, ClientType, linkVars, beatVars, wireVars
<1>2. NewSockets'
  BY DEF ClientInv, Connections, NewSockets, Unheard, JobsKept, linkVars, beatVars
<1>3. CurrentSocket' /\ Beats' /\ SocketsAreOwned'
  BY DEF ClientInv, Connections, CurrentSocket, Beats, SocketsAreOwned, IsCurrentSocket, IsCurrent,
         linkVars, beatVars, wireVars
<1>4. Carriers'
  BY DEF ClientInv, Connections, Carriers, JobsKept, linkVars
<1> QED BY <1>1, <1>2, <1>3, <1>4 DEF ClientInv, Connections

LEMMA ConnectKeepsClient ==
    ASSUME ClientInv, Connect
    PROVE  ClientInv'
<1>1. PICK g \in Generations \ Referenced : generation' = g /\ preparing' = preparing \cup {g}
  BY DEF Connect
<1>2. /\ running' = TRUE /\ connecting' = TRUE /\ retrying' = FALSE
      /\ UNCHANGED <<socket, link, accepted, beatVars, jobVars, wireVars, orphans>>
      /\ running => socket = None
  BY DEF Connect
<1>3. Unheard(g) /\ link[g] = "none" /\ socket # g /\ generation # g /\ g \notin preparing
  BY <1>1 DEF Referenced, Unheard
<1>4. JobsKept /\ ClientType /\ NewSockets /\ CurrentSocket /\ Beats /\ SocketsAreOwned
  BY <1>2, SameJobs DEF ClientInv, Connections
<1>5. ClientType'
  BY <1>1, <1>2, <1>4 DEF ClientType, beatVars, wireVars, Tokens
<1>6. NewSockets'
  BY <1>1, <1>2, <1>3, <1>4 DEF NewSockets, Unheard, JobsKept, beatVars
<1>7. CurrentSocket'
  BY <1>1, <1>2 DEF CurrentSocket
<1>8. Beats' /\ Carriers'
  BY <1>1, <1>2, <1>3, <1>4 DEF Beats, Carriers, wireVars
<1>9. SocketsAreOwned'
  BY <1>1, <1>2, <1>4, AgentAssumption DEF SocketsAreOwned, IsCurrentSocket, IsCurrent, CurrentSocket
<1> QED BY <1>5, <1>6, <1>7, <1>8, <1>9 DEF ClientInv, Connections

LEMMA ConnectFailsKeepsClient ==
    ASSUME ClientInv, NEW g \in Generations, ConnectFails(g)
    PROVE  ClientInv'
<1>1. /\ g \in preparing /\ preparing' = preparing \ {g} /\ connecting' = FALSE /\ running' = FALSE
      /\ orphans' = IF running /\ g # generation THEN orphans \cup ({socket} \ {None}) ELSE orphans
      /\ UNCHANGED <<generation, socket, link, accepted, retrying, beatVars, jobVars, wireVars>>
  BY DEF ConnectFails
<1>2. JobsKept /\ ClientType /\ NewSockets /\ Beats /\ SocketsAreOwned
  BY <1>1, SameJobs DEF ClientInv, Connections
<1>3. ClientType'
  BY <1>1, <1>2 DEF ClientType, beatVars, wireVars, Tokens
<1>4. NewSockets'
  BY <1>1, <1>2 DEF NewSockets, Unheard, JobsKept, beatVars
<1>5. CurrentSocket' /\ Carriers' /\ Beats'
  BY <1>1, <1>2 DEF CurrentSocket, Carriers, Beats, wireVars
<1>6. SocketsAreOwned'
  <2> SUFFICES ASSUME NEW h \in Generations, link[h] \in {"opening", "open"}
               PROVE  h \in orphans'
    BY <1>1 DEF SocketsAreOwned
  <2>1. CASE h \in orphans
    BY <1>1, <2>1
  <2>2. CASE running /\ h = generation /\ socket = h
    BY <1>1, <1>2, <2>2, AgentAssumption DEF NewSockets
  <2> QED BY <1>2, <2>1, <2>2 DEF SocketsAreOwned, IsCurrentSocket, IsCurrent
<1> QED BY <1>3, <1>4, <1>5, <1>6 DEF ClientInv, Connections

LEMMA PreparedKeepsClient ==
    ASSUME ClientInv, NEW g \in Generations, Prepared(g)
    PROVE  ClientInv'
<1>1. /\ g \in preparing /\ preparing' = preparing \ {g}
      /\ UNCHANGED <<running, connecting, generation, accepted, retrying, beatVars, jobVars, greeted, orphans>>
  BY DEF Prepared
<1>2. JobsKept /\ ClientType /\ NewSockets /\ CurrentSocket /\ Beats /\ Carriers /\ SocketsAreOwned
  BY <1>1, SameJobs DEF ClientInv, Connections
<1>3. Unheard(g) /\ link[g] = "none" /\ socket # g
  BY <1>1, <1>2 DEF NewSockets
<1>4. CASE IsCurrent(g)
  <2>1. socket' = g /\ link' = [link EXCEPT ![g] = "opening"] /\ beat' = 0 /\ running /\ generation = g
    BY <1>4 DEF Prepared, IsCurrent
  <2>2. link'[g] = "opening" /\ \A h \in Generations : h # g => link'[h] = link[h]
    BY <1>2, <2>1 DEF ClientType
  <2>3. ClientType'
    BY <1>1, <1>2, <2>1, AgentAssumption DEF ClientType, beatVars, Tokens
  <2>4. NewSockets'
    BY <1>1, <1>2, <1>3, <2>1, <2>2 DEF NewSockets, Unheard, JobsKept, beatVars
  <2>5. CurrentSocket' /\ Carriers'
    BY <1>1, <2>1, <2>2 DEF CurrentSocket, Carriers
  <2>6. Beats'
    BY <1>1, <1>3, <2>1, AgentAssumption DEF Beats, Unheard, beatVars
  <2>7. SocketsAreOwned'
    BY <1>1, <1>2, <1>3, <2>1, <2>2 DEF SocketsAreOwned, IsCurrentSocket, IsCurrent
  <2> QED BY <2>3, <2>4, <2>5, <2>6, <2>7 DEF ClientInv, Connections
<1>5. CASE ~IsCurrent(g)
  <2>1. UNCHANGED <<socket, link, beat>> /\ ~(running /\ generation = g)
    BY <1>5 DEF Prepared, IsCurrent
  <2>2. ClientType'
    BY <1>1, <1>2, <2>1 DEF ClientType, beatVars
  <2>3. NewSockets'
    BY <1>1, <1>2, <2>1 DEF NewSockets, Unheard, JobsKept, beatVars
  <2>4. CurrentSocket' /\ Beats'
    BY <1>1, <1>2, <2>1 DEF CurrentSocket, Beats, beatVars
  <2>5. Carriers' /\ SocketsAreOwned'
    BY <1>1, <1>2, <2>1 DEF Carriers, JobsKept, SocketsAreOwned, IsCurrentSocket, IsCurrent
  <2> QED BY <2>2, <2>3, <2>4, <2>5 DEF ClientInv, Connections
<1> QED BY <1>4, <1>5

LEMMA OpenKeepsClient ==
    ASSUME ClientInv, NEW g \in Generations, Open(g)
    PROVE  ClientInv'
<1>1. /\ link[g] = "opening" /\ link' = [link EXCEPT ![g] = "open"]
      /\ greeted' \in {greeted, greeted \cup {g}}
      /\ UNCHANGED <<running, connecting, generation, preparing, socket, accepted, retrying,
                     beatVars, jobVars, beat, orphans>>
  BY DEF Open
<1>2. JobsKept /\ ClientType /\ NewSockets /\ CurrentSocket /\ Beats /\ Carriers /\ SocketsAreOwned
  BY <1>1, SameJobs DEF ClientInv, Connections
<1>3. Unheard(g) /\ g \notin preparing
  BY <1>1, <1>2 DEF NewSockets
<1>4. link'[g] = "open" /\ \A h \in Generations : h # g => link'[h] = link[h]
  BY <1>1, <1>2 DEF ClientType
<1>5. ClientType'
  BY <1>1, <1>2 DEF ClientType, beatVars
<1>6. NewSockets'
  BY <1>1, <1>2, <1>3, <1>4 DEF NewSockets, Unheard, JobsKept, beatVars
<1>7. CurrentSocket'
  BY <1>1, <1>2 DEF CurrentSocket
<1>8. Beats'
  <2>1. CASE generation = g
    BY <1>1, <1>2, <1>3, <2>1 DEF Beats, Unheard, beatVars
  <2>2. CASE generation # g
    BY <1>1, <1>2, <1>4, <2>2 DEF Beats, CurrentSocket, beatVars
  <2> QED BY <2>1, <2>2
<1>9. Carriers'
  BY <1>1, <1>2, <1>3, <1>4 DEF Carriers, JobsKept, Unheard, CurrentSocket
<1>10. SocketsAreOwned'
  BY <1>1, <1>2, <1>4 DEF SocketsAreOwned, IsCurrentSocket, IsCurrent
<1> QED BY <1>5, <1>6, <1>7, <1>8, <1>9, <1>10 DEF ClientInv, Connections

LEMMA CloseKeepsClient ==
    ASSUME ClientInv, NEW g \in Generations, Close(g)
    PROVE  ClientInv'
<1>1. /\ link[g] # "none" /\ link' = [link EXCEPT ![g] = "none"]
      /\ greeted' = greeted \ {g} /\ orphans' = orphans \ {g} /\ beat' = (IF g = socket THEN 0 ELSE beat)
      /\ UNCHANGED <<running, generation, preparing, collecting, sequence, jobVars>>
  BY DEF Close, Forget
<1>2. JobsKept /\ ClientType /\ NewSockets /\ CurrentSocket /\ Beats /\ Carriers /\ SocketsAreOwned
  BY <1>1, SameJobs DEF ClientInv, Connections
<1>3. link'[g] = "none" /\ \A h \in Generations : h # g => link'[h] = link[h]
  BY <1>1, <1>2 DEF ClientType
<1>4. 0 \in 0 .. Modulus - 1
  BY AgentAssumption
<1>5. CASE IsCurrentSocket(g)
  <2>1. /\ beatTimer' = None /\ socket' = None /\ connecting' = FALSE /\ accepted' = None /\ retrying' = TRUE
        /\ running /\ g = generation /\ g = socket /\ beat' = 0
    BY <1>1, <1>5 DEF Close, IsCurrentSocket, IsCurrent
  <2>2. ClientType'
    BY <1>1, <1>2, <1>4, <2>1 DEF ClientType, Tokens
  <2>3. NewSockets'
    BY <1>1, <1>2, <1>3, <2>1, AgentAssumption DEF NewSockets, Unheard, JobsKept
  <2>4. CurrentSocket' /\ Beats' /\ Carriers'
    BY <1>1, <1>2, <2>1, AgentAssumption DEF CurrentSocket, Beats, Carriers
  <2>5. SocketsAreOwned'
    BY <1>1, <1>2, <1>3, <2>1 DEF SocketsAreOwned, IsCurrentSocket, IsCurrent
  <2> QED BY <2>2, <2>3, <2>4, <2>5 DEF ClientInv, Connections
<1>6. CASE ~IsCurrentSocket(g)
  <2>1. UNCHANGED <<beatTimer, socket, connecting, accepted, retrying>> /\ ~(running /\ g = generation /\ socket = g)
    BY <1>6 DEF Close, IsCurrentSocket, IsCurrent
  <2>2. ClientType'
    BY <1>1, <1>2, <1>4, <2>1 DEF ClientType
  <2>3. NewSockets'
    BY <1>1, <1>2, <1>3, <2>1 DEF NewSockets, Unheard, JobsKept
  <2>4. CurrentSocket'
    BY <1>1, <1>2, <2>1 DEF CurrentSocket
  <2>5. Beats'
    BY <1>1, <1>2, <1>3, <2>1 DEF Beats, CurrentSocket
  <2>6. Carriers' /\ SocketsAreOwned'
    BY <1>1, <1>2, <1>3, <2>1 DEF Carriers, CurrentSocket, JobsKept, SocketsAreOwned, IsCurrentSocket, IsCurrent
  <2> QED BY <2>2, <2>3, <2>4, <2>5, <2>6 DEF ClientInv, Connections
<1> QED BY <1>5, <1>6

LEMMA ClosingLink ==
    ASSUME ClientInv, link' = [h \in Generations |-> IF h = socket THEN Closing(link[h]) ELSE link[h]]
    PROVE  /\ link' \in [Generations -> {"none", "opening", "open", "closing"}]
           /\ \A h \in Generations : /\ h # socket => link'[h] = link[h]
                                     /\ link[h] = "none" => link'[h] = "none"
                                     /\ h = socket => link'[h] \notin {"opening", "open"}
BY DEF ClientInv, ClientType, Closing

LEMMA StopKeepsClient ==
    ASSUME ClientInv, Stop
    PROVE  ClientInv'
<1>1. /\ running' = FALSE /\ connecting' = FALSE /\ generation' = None /\ retrying' = FALSE /\ beatTimer' = None
      /\ socket' = None /\ beat' = 0
      /\ link' = [h \in Generations |-> IF h = socket THEN Closing(link[h]) ELSE link[h]]
      /\ UNCHANGED <<preparing, accepted, collecting, sequence, jobVars, greeted, orphans>>
  BY DEF Stop
<1>2. JobsKept /\ ClientType /\ NewSockets /\ CurrentSocket /\ Beats /\ Carriers /\ SocketsAreOwned
  BY <1>1, SameJobs DEF ClientInv, Connections
<1>3. ClientType'
  <2>1. 0 \in 0 .. Modulus - 1
    BY AgentAssumption
  <2> QED BY <1>1, <1>2, <2>1, ClosingLink DEF ClientType, Tokens
<1>4. NewSockets'
  BY <1>1, <1>2, ClosingLink, AgentAssumption DEF NewSockets, Unheard, JobsKept
<1>5. CurrentSocket' /\ Beats' /\ Carriers'
  BY <1>1 DEF CurrentSocket, Beats, Carriers
<1>6. SocketsAreOwned'
  BY <1>1, <1>2, ClosingLink DEF SocketsAreOwned, IsCurrentSocket, IsCurrent
<1> QED BY <1>3, <1>4, <1>5, <1>6 DEF ClientInv, Connections

LEMMA FailingKeepsClient ==
    ASSUME ClientInv, NEW g \in Generations, FailConnection(g), JobsKept,
           UNCHANGED <<beatVars, greeted, beat, orphans>>
    PROVE  ClientInv'
<1>1. /\ link' = [h \in Generations |-> IF h = socket THEN Closing(link[h]) ELSE link[h]]
      /\ UNCHANGED <<running, connecting, generation, preparing, socket, accepted, retrying>>
      /\ UNCHANGED <<beatTimer, collecting, sequence>>
  BY DEF FailConnection, beatVars
<1>2. ClientType /\ NewSockets /\ CurrentSocket /\ Beats /\ Carriers /\ SocketsAreOwned
  BY DEF ClientInv, Connections
<1>3. ClientType'
  BY <1>1, <1>2, ClosingLink DEF ClientType
<1>4. NewSockets'
  BY <1>1, <1>2, ClosingLink DEF NewSockets, Unheard, JobsKept
<1>5. CurrentSocket'
  BY <1>1, <1>2 DEF CurrentSocket
<1>6. Beats' /\ Carriers'
  BY <1>1, <1>2, ClosingLink DEF CurrentSocket, Beats, Carriers
<1>7. SocketsAreOwned'
  BY <1>1, <1>2, ClosingLink DEF SocketsAreOwned, IsCurrentSocket, IsCurrent
<1> QED BY <1>3, <1>4, <1>5, <1>6, <1>7 DEF ClientInv, Connections

\* A socket that delivers a message is the client's, or the client has none.
LEMMA DeliveringSocket ==
    ASSUME ClientInv, NEW g \in Generations, Delivers(g)
    PROVE  running /\ generation = g /\ g \notin preparing /\ link[g] # "opening" /\ socket \in {g, None}
BY DEF ClientInv, Connections, NewSockets, CurrentSocket, Delivers, IsCurrent

LEMMA BadMessageKeepsClient ==
    ASSUME ClientInv, NEW g \in Generations, BadMessage(g)
    PROVE  ClientInv'
<1>1. FailConnection(g) /\ UNCHANGED <<beatVars, jobVars, wireVars, orphans>>
  BY DEF BadMessage
<1>2. JobsKept
  BY <1>1, SameJobs
<1> QED BY <1>1, <1>2, FailingKeepsClient DEF wireVars

LEMMA AcceptKeepsClient ==
    ASSUME ClientInv, NEW g \in Generations, Accept(g)
    PROVE  ClientInv'
<1>1. Delivers(g) /\ UNCHANGED <<jobVars, wireVars, orphans>>
  BY DEF Accept
<1>2. JobsKept /\ ClientType /\ NewSockets /\ CurrentSocket /\ Beats /\ Carriers /\ SocketsAreOwned
  BY <1>1, SameJobs DEF ClientInv, Connections
<1>3. running /\ generation = g /\ g \notin preparing /\ link[g] # "opening" /\ socket \in {g, None}
  BY <1>1, DeliveringSocket
<1>4. CASE accepted = g
  BY <1>1, <1>2, <1>4, FailingKeepsClient DEF Accept, wireVars
<1>5. CASE accepted # g
  <2>1. /\ accepted' = g /\ connecting' = FALSE /\ sequence' = 0 /\ beatTimer' = g /\ collecting' \in {g, collecting}
        /\ UNCHANGED <<running, generation, preparing, socket, link, retrying>>
    BY <1>5 DEF Accept, Collects
  <2>2. ClientType'
    <3>1. 0 \in 0 .. Modulus - 1
      BY AgentAssumption
    <3> QED BY <1>1, <1>2, <2>1, <3>1 DEF ClientType, Tokens, wireVars
  <2>3. NewSockets'
    BY <1>2, <1>3, <2>1 DEF NewSockets, Unheard, JobsKept
  <2>4. CurrentSocket' /\ Carriers' /\ SocketsAreOwned'
    BY <1>1, <1>2, <2>1 DEF CurrentSocket, Carriers, JobsKept, SocketsAreOwned, IsCurrentSocket, IsCurrent
  <2>5. Beats'
    BY <1>1, <1>2, <1>3, <1>5, <2>1 DEF Beats, wireVars
  <2> QED BY <2>2, <2>3, <2>4, <2>5 DEF ClientInv, Connections
<1> QED BY <1>4, <1>5

LEMMA BeatTimerKeepsClient ==
    ASSUME ClientInv, BeatTimerFires
    PROVE  ClientInv'
<1>1. /\ beatTimer # None
      /\ collecting' = collecting \/ (collecting' = beatTimer /\ accepted = beatTimer /\ generation = beatTimer)
      /\ UNCHANGED <<linkVars, beatTimer, sequence, jobVars, wireVars, orphans>>
  BY DEF BeatTimerFires, Collects, IsCurrent
<1>2. JobsKept /\ ClientType /\ NewSockets /\ CurrentSocket /\ Beats /\ Carriers /\ SocketsAreOwned
  BY <1>1, SameJobs DEF ClientInv, Connections
<1>3. ClientType'
  BY <1>1, <1>2 DEF ClientType, linkVars, wireVars
<1>4. NewSockets'
  BY <1>1, <1>2 DEF NewSockets, Unheard, JobsKept, linkVars
<1>5. CurrentSocket' /\ Beats'
  BY <1>1, <1>2 DEF CurrentSocket, Beats, linkVars, wireVars
<1>6. Carriers' /\ SocketsAreOwned'
  BY <1>1, <1>2 DEF Carriers, JobsKept, SocketsAreOwned, IsCurrentSocket, IsCurrent, linkVars
<1> QED BY <1>3, <1>4, <1>5, <1>6 DEF ClientInv, Connections

LEMMA NextNumber ==
    ASSUME NEW n \in 0 .. Modulus - 1
    PROVE  (n + 1) % Modulus \in 0 .. Modulus - 1
BY AgentAssumption

\* A message finds the socket of the generation it is for, once something was heard of it.
LEMMA HeardCarrier ==
    ASSUME ClientInv, NEW g \in Generations, ~Unheard(g), Carrier(g) # None
    PROVE  running /\ generation = g /\ socket = g /\ link[g] = "open" /\ Carrier(g) = g
BY DEF ClientInv, Connections, NewSockets, CurrentSocket, Carrier, IsCurrent

LEMMA CollectedKeepsClient ==
    ASSUME ClientInv, NEW g \in Generations, NEW ok \in BOOLEAN, Collected(g, ok)
    PROVE  ClientInv'
<1>1. /\ collecting = g /\ collecting' = None
      /\ sequence' = IF ok /\ IsCurrent(g) THEN (sequence + 1) % Modulus ELSE sequence
      /\ beat' = IF ok /\ Carrier(g) # None THEN sequence' ELSE beat
      /\ UNCHANGED <<linkVars, beatTimer, jobVars, greeted, orphans>>
  BY DEF Collected
<1>2. JobsKept /\ ClientType /\ NewSockets /\ CurrentSocket /\ Beats /\ Carriers /\ SocketsAreOwned
  BY <1>1, SameJobs DEF ClientInv, Connections
<1>3. sequence' \in 0 .. Modulus - 1 /\ beat' \in 0 .. Modulus - 1
  <2>1. sequence' \in 0 .. Modulus - 1
    BY <1>1, <1>2, NextNumber DEF ClientType
  <2> QED BY <1>1, <1>2, <2>1 DEF ClientType
<1>4. ClientType'
  BY <1>1, <1>2, <1>3 DEF ClientType, Tokens, linkVars
<1>5. NewSockets'
  BY <1>1, <1>2, AgentAssumption DEF NewSockets, Unheard, JobsKept, linkVars
<1>6. CurrentSocket' /\ Carriers' /\ SocketsAreOwned'
  BY <1>1, <1>2 DEF CurrentSocket, Carriers, JobsKept, SocketsAreOwned, IsCurrentSocket, IsCurrent, linkVars
<1>7. Beats'
  <2>1. CASE ok /\ Carrier(g) # None
    <3>1. running /\ generation = g /\ socket = g
      BY <1>1, <2>1, HeardCarrier DEF Unheard
    <3>2. accepted = g
      BY <1>1, <1>2, <3>1 DEF Beats
    <3> QED BY <1>1, <2>1, <3>1, <3>2, AgentAssumption DEF Beats, linkVars
  <2>2. CASE ~(ok /\ Carrier(g) # None)
    <3>1. beat' = beat /\ UNCHANGED linkVars
      BY <1>1, <2>2
    <3>2. CASE sequence' = sequence
      BY <1>1, <1>2, <3>1, <3>2, AgentAssumption DEF Beats, CurrentSocket, linkVars
    <3>3. CASE ok /\ running /\ generation = g
      <4>1. socket = g => link[g] # "open"
        BY <2>2, <3>3, AgentAssumption DEF Carrier, IsCurrent
      <4> QED BY <1>1, <1>2, <3>1, <3>3, <4>1 DEF Beats, linkVars
    <3> QED BY <1>1, <3>2, <3>3 DEF IsCurrent
  <2> QED BY <2>1, <2>2
<1> QED BY <1>4, <1>5, <1>6, <1>7 DEF ClientInv, Connections

\* A request either leaves the jobs as they were or makes one of this connection.
LEMMA RequestStarts ==
    ASSUME ExecutorType, NEW g \in Generations, NEW a \in Actions, NEW left \in 0 .. MaxLeft, NEW allowed \in BOOLEAN,
           Request(g, a, left, allowed), ClientType
    PROVE  \/ UNCHANGED job
           \/ /\ accepted = g /\ UNCHANGED linkVars
              /\ job'[a].generation = g /\ job'[a].carrier = Carrier(g)
              /\ \A b \in Actions : b # a => job'[b] = job[b]
<1> DEFINE j == [job[a] EXCEPT !.generation = g, !.carrier = Carrier(g)]
<1>1. job \in [Actions -> Jobs] /\ job[a] \in Jobs
  BY DEF ExecutorType
<1>2. j \in Jobs /\ j.generation = g /\ j.carrier = Carrier(g)
  BY <1>1 DEF Jobs, ClientType, Tokens, Carrier
<1>3. \/ UNCHANGED job
      \/ accepted = g /\ UNCHANGED linkVars /\ left # 0 /\ job' = [job EXCEPT ![a] = Started(j, 1, left)]
  <2> HIDE DEF j
  <2>1. CASE UNCHANGED jobVars
    BY <2>1 DEF jobVars
  <2>2. CASE /\ accepted = g /\ UNCHANGED linkVars
             /\ IF a \in seen \/ left = 0 \/ ~allowed \/ active
                  THEN UNCHANGED <<active, job, starts>>
                  ELSE job' = [job EXCEPT ![a] = Started([@ EXCEPT !.generation = g, !.carrier = Carrier(g)], 1, left)]
    BY <2>2 DEF j
  <2> QED BY <2>1, <2>2 DEF Request
<1> HIDE DEF j
<1>4. CASE accepted = g /\ UNCHANGED linkVars /\ left # 0 /\ job' = [job EXCEPT ![a] = Started(j, 1, left)]
  <2>1. left \in 1 .. MaxLeft /\ 1 \in 1 .. 2
    BY <1>4, AgentAssumption
  <2>2. Started(j, 1, left).generation = g /\ Started(j, 1, left).carrier = Carrier(g)
    BY <1>2, <2>1, StartedJob
  <2>3. job'[a] = Started(j, 1, left) /\ \A b \in Actions : b # a => job'[b] = job[b]
    BY <1>1, <1>4
  <2> QED BY <1>4, <2>2, <2>3
<1> QED BY <1>3, <1>4

LEMMA RequestKeepsClient ==
    ASSUME ClientInv, ExecutorType, NEW g \in Generations, NEW a \in Actions, NEW left \in 0 .. MaxLeft,
           NEW allowed \in BOOLEAN, Request(g, a, left, allowed)
    PROVE  ClientInv'
<1>1. Delivers(g) /\ UNCHANGED <<beatVars, greeted, beat, orphans>>
  BY DEF Request
<1>2. ClientType /\ NewSockets /\ CurrentSocket /\ Beats /\ Carriers /\ SocketsAreOwned
  BY DEF ClientInv, Connections
<1>3. running /\ generation = g /\ g \notin preparing /\ link[g] # "opening" /\ socket \in {g, None}
  BY <1>1, DeliveringSocket
<1>4. UNCHANGED linkVars \/ (FailConnection(g) /\ UNCHANGED jobVars)
  BY DEF Request
<1>5. CASE FailConnection(g) /\ UNCHANGED jobVars
  BY <1>1, <1>5, SameJobs, FailingKeepsClient
<1>6. CASE UNCHANGED linkVars /\ UNCHANGED job
  <2>1. JobsKept
    BY <1>6 DEF JobsKept, Busy
  <2> QED BY <1>1, <1>6, <2>1, ExecutorKeepsClient DEF wireVars
<1>7. CASE /\ UNCHANGED linkVars
           /\ job'[a].generation = g /\ job'[a].carrier = Carrier(g)
           /\ \A b \in Actions : b # a => job'[b] = job[b]
  <2>1. ClientType'
    BY <1>1, <1>2, <1>7 DEF ClientType, linkVars, beatVars
  <2>2. NewSockets'
    BY <1>1, <1>2, <1>3, <1>7 DEF NewSockets, Unheard, Busy, linkVars, beatVars
  <2>3. CurrentSocket' /\ Beats' /\ SocketsAreOwned'
    BY <1>1, <1>2, <1>7 DEF CurrentSocket, Beats, SocketsAreOwned, IsCurrentSocket, IsCurrent, linkVars, beatVars
  <2>4. Carriers'
    <3> SUFFICES ASSUME NEW b \in Busy', running, job'[b].generation = generation, socket = generation,
                        link[generation] = "open"
                 PROVE  job'[b].carrier = socket
      BY <1>7 DEF Carriers, linkVars
    <3>1. CASE b = a
      BY <1>3, <1>7, <3>1, AgentAssumption DEF Carrier, IsCurrent
    <3>2. CASE b # a
      BY <1>2, <1>7, <3>2 DEF Carriers, Busy
    <3> QED BY <3>1, <3>2
  <2> QED BY <2>1, <2>2, <2>3, <2>4 DEF ClientInv, Connections
<1> QED BY <1>2, <1>4, <1>5, <1>6, <1>7, RequestStarts

\* What the end of an action is: its job is idle, its outcome goes out for its generation.
Ends(a) ==
    /\ job' = [job EXCEPT ![a] = IdleJob]
    /\ Sends(job[a].generation, a, "ended")

\* What a request sends, and what it starts.
LEMMA RequestTells ==
    ASSUME ExecutorType, OutcomeType, NEW g \in Generations, NEW a \in Actions,
           NEW left \in 0 .. MaxLeft, NEW allowed \in BOOLEAN, Request(g, a, left, allowed)
    PROVE  /\ \A b \in Actions : starts'[b] # starts[b] => b \notin seen
           /\ \/ outcome' = NoOutcome
              \/ accepted = g /\ a \in seen' /\ Carrier(g) # None
                 /\ outcome' = [action |-> a, socket |-> Carrier(g), result |-> "denied"]
<1>1. starts \in [Actions -> 0 .. 2]
  BY DEF ExecutorType
<1>2. CASE UNCHANGED jobVars /\ NoOutcomeSent
  BY <1>1, <1>2 DEF jobVars, NoOutcomeSent
<1>3. CASE /\ accepted = g /\ seen' = seen \cup {a} /\ UNCHANGED starts
           /\ Sends(g, a, "denied")
  BY <1>1, <1>3 DEF Sends
<1>4. CASE a \notin seen /\ starts' = [starts EXCEPT ![a] = @ + 1] /\ NoOutcomeSent
  BY <1>1, <1>4 DEF NoOutcomeSent
<1> QED BY <1>2, <1>3, <1>4 DEF Request

LEMMA ProcessStep ==
    ASSUME ExecutorType, NEW a \in Actions, NEW ok \in BOOLEAN, ProcessEnds(a, ok)
    PROVE  /\ JobsKept /\ a \in Busy /\ UNCHANGED <<linkVars, beatVars, wireVars, orphans>>
           /\ \A b \in Actions : job'[b].carrier \in {job[b].carrier, None}
           /\ outcome' = NoOutcome \/ (Ends(a) /\ a \notin Busy')
           /\ \A b \in Actions : starts'[b] # starts[b] => b = a
<1>1. job \in [Actions -> Jobs] /\ job[a] \in Jobs /\ a \in Busy /\ UNCHANGED <<linkVars, beatVars, wireVars, orphans>>
  BY DEF ExecutorType, ProcessEnds, Busy
<1>2. CASE Ends(a) /\ UNCHANGED starts
  <2>1. job'[a] = IdleJob /\ \A b \in Actions : b # a => job'[b] = job[b]
    BY <1>1, <1>2 DEF Ends
  <2>2. IdleJob.pc = "idle" /\ IdleJob.carrier = None
    BY DEF IdleJob
  <2> QED BY <1>1, <1>2, <2>1, <2>2 DEF JobsKept, Busy
<1>3. CASE /\ job[a].step < Steps[a] /\ job[a].left > 0
           /\ job' = [job EXCEPT ![a] = Started(job[a], job[a].step + 1, job[a].left)]
           /\ starts' = [starts EXCEPT ![a] = @ + 1]
           /\ outcome' = NoOutcome
  <2>1. job[a].step + 1 \in 1 .. 2 /\ job[a].left \in 1 .. MaxLeft
    <3>1. job[a].step \in 0 .. 2 /\ job[a].left \in Lefts /\ Steps[a] \in 1 .. 2
      BY <1>1, JobFields, AgentAssumption
    <3> QED BY <1>3, <3>1, AgentAssumption DEF Lefts
  <2>2. job'[a] = Started(job[a], job[a].step + 1, job[a].left) /\ \A b \in Actions : b # a => job'[b] = job[b]
    BY <1>1, <1>3
  <2>3. job'[a].generation = job[a].generation /\ job'[a].carrier = job[a].carrier
    BY <1>1, <2>1, <2>2, StartedJob
  <2>4. \A b \in Actions : starts'[b] # starts[b] => b = a
    BY <1>3 DEF ExecutorType
  <2> QED BY <1>1, <1>3, <2>2, <2>3, <2>4 DEF JobsKept, Busy
<1> QED BY <1>2, <1>3 DEF ProcessEnds, Finish, Ends, NoOutcomeSent

LEMMA ClockStep ==
    ASSUME ExecutorType, Tick \/ \E a \in Actions : TimeoutFires(a)
    PROVE  /\ JobsKept /\ UNCHANGED <<linkVars, beatVars, wireVars, orphans>>
           /\ \A b \in Actions : job'[b].carrier = job[b].carrier
<1>1. job \in [Actions -> Jobs]
  BY DEF ExecutorType
<1>2. CASE Tick
  <2>1. /\ UNCHANGED <<linkVars, beatVars, wireVars, orphans>>
        /\ job' = [b \in Actions |-> IF b \in Busy THEN [job[b] EXCEPT !.left = @ - 1, !.due = @ - 1] ELSE job[b]]
    BY <1>2 DEF Tick
  <2>2. ASSUME NEW b \in Actions
        PROVE  job'[b].generation = job[b].generation /\ job'[b].carrier = job[b].carrier /\ job'[b].pc = job[b].pc
    <3>1. job[b] \in Jobs /\ job'[b] \in {job[b], [job[b] EXCEPT !.left = job[b].left - 1, !.due = job[b].due - 1]}
      BY <1>1, <2>1
    <3> QED BY <3>1 DEF Jobs
  <2> QED BY <2>1, <2>2 DEF JobsKept, Busy
<1>3. ASSUME NEW a \in Actions, TimeoutFires(a)
      PROVE  /\ JobsKept /\ UNCHANGED <<linkVars, beatVars, wireVars, orphans>>
             /\ \A b \in Actions : job'[b].carrier = job[b].carrier
  <2>1. /\ UNCHANGED <<linkVars, beatVars, wireVars, orphans>>
        /\ job' = [job EXCEPT ![a] =
                    IF job[a].signal = "none" THEN [job[a] EXCEPT !.signal = "term", !.due = KillGrace]
                                              ELSE [job[a] EXCEPT !.signal = "kill"]]
    BY <1>3 DEF TimeoutFires
  <2>2. /\ \A b \in Actions : b # a => job'[b] = job[b]
        /\ job'[a] = IF job[a].signal = "none" THEN [job[a] EXCEPT !.signal = "term", !.due = KillGrace]
                                               ELSE [job[a] EXCEPT !.signal = "kill"]
        /\ job[a] \in Jobs
    BY <1>1, <2>1
  <2>3. job'[a].generation = job[a].generation /\ job'[a].carrier = job[a].carrier /\ job'[a].pc = job[a].pc
    BY <2>2 DEF Jobs
  <2> QED BY <2>1, <2>2, <2>3 DEF JobsKept, Busy
<1> QED BY <1>2, <1>3

-----------------------------------------------------------------------------
(* Both together. *)

Inv == ClientInv /\ ExecutorInv /\ OutcomeType

LEMMA InitInv == Init => Inv
<1> SUFFICES ASSUME Init PROVE Inv
  OBVIOUS
<1>1. Busy = {}
  BY IdleJobType DEF Init, Busy
<1>2. ExecutorType
  <2>1. 0 \in 0 .. 2
    OBVIOUS
  <2> QED BY <2>1, IdleJobType DEF Init, ExecutorType
<1>3. Executor
  BY <1>1, AgentAssumption DEF Init, Executor, KilledInTime
<1>4. ClientType
  <2>1. 0 \in 0 .. Modulus - 1
    BY AgentAssumption
  <2> QED BY <2>1 DEF Init, ClientType, Tokens
<1>5. Connections
  BY <1>1, AgentAssumption DEF Init, Connections, NewSockets, CurrentSocket, Beats, Carriers, SocketsAreOwned
<1>6. OutcomeType
  BY DEF Init, OutcomeType, NoOutcome, Outcomes, Tokens
<1> QED BY <1>2, <1>3, <1>4, <1>5, <1>6 DEF Inv, ClientInv, ExecutorInv

\* The actions of the client that leave the executor alone.
ClientStep ==
    \/ Connect \/ Stop \/ BeatTimerFires
    \/ \E g \in Generations :
         \/ ConnectFails(g) \/ Prepared(g) \/ Open(g) \/ Close(g) \/ BadMessage(g) \/ Accept(g)
         \/ \E ok \in BOOLEAN : Collected(g, ok)

LEMMA ClientStepKeeps ==
    ASSUME ClientInv, ClientStep
    PROVE  ClientInv' /\ UNCHANGED jobVars
<1>1. UNCHANGED jobVars
  BY DEF ClientStep, Connect, Stop, BeatTimerFires, ConnectFails, Prepared, Open, Close, BadMessage, Accept, Collected
<1>2. ASSUME Connect \/ Stop \/ BeatTimerFires
      PROVE  ClientInv'
  BY <1>2, ConnectKeepsClient, StopKeepsClient, BeatTimerKeepsClient
<1>3. ASSUME NEW g \in Generations,
             \/ ConnectFails(g) \/ Prepared(g) \/ Open(g) \/ Close(g) \/ BadMessage(g) \/ Accept(g)
             \/ \E ok \in BOOLEAN : Collected(g, ok)
      PROVE  ClientInv'
  BY <1>3, ConnectFailsKeepsClient, PreparedKeepsClient, OpenKeepsClient, CloseKeepsClient,
     BadMessageKeepsClient, AcceptKeepsClient, CollectedKeepsClient
<1> QED BY <1>1, <1>2, <1>3 DEF ClientStep

\* The disjuncts of Next, by what they are for the invariant.
LEMMA StepKinds ==
    Next => \/ NoOutcomeSent /\ ClientStep
            \/ NoOutcomeSent /\ (Tick \/ \E a \in Actions : TimeoutFires(a))
            \/ \E g \in Generations, a \in Actions, left \in 0 .. MaxLeft, allowed \in BOOLEAN :
                 Request(g, a, left, allowed)
            \/ \E a \in Actions, ok \in BOOLEAN : ProcessEnds(a, ok)
BY DEF Next, ClientStep

LEMMA NextInv == Inv /\ [Next]_vars => Inv'
<1> SUFFICES ASSUME Inv, [Next]_vars PROVE Inv'
  OBVIOUS
<1>1. ClientInv /\ ClientType /\ ExecutorInv /\ ExecutorType /\ OutcomeType
  BY DEF Inv, ClientInv, ExecutorInv
<1>2. NoOutcome \in Outcomes /\ (NoOutcomeSent => OutcomeType')
  BY <1>1 DEF NoOutcome, NoOutcomeSent, OutcomeType, Outcomes, Tokens
<1>3. CASE NoOutcomeSent /\ ClientStep
  BY <1>1, <1>2, <1>3, ClientStepKeeps, ExecutorInductive DEF ExecutorStep, Inv
<1>4. CASE NoOutcomeSent /\ (Tick \/ \E a \in Actions : TimeoutFires(a))
  <2>1. ClientInv'
    BY <1>1, <1>4, ClockStep, ExecutorKeepsClient
  <2>2. ExecutorInv'
    BY <1>1, <1>4, ExecutorInductive DEF ExecutorStep
  <2> QED BY <1>2, <1>4, <2>1, <2>2 DEF Inv
<1>5. ASSUME NEW g \in Generations, NEW a \in Actions, NEW left \in 0 .. MaxLeft, NEW allowed \in BOOLEAN,
             Request(g, a, left, allowed)
      PROVE  Inv'
  <2>1. ClientInv'
    BY <1>1, <1>5, RequestKeepsClient
  <2>2. ExecutorInv'
    BY <1>1, <1>5, ExecutorInductive DEF ExecutorStep
  <2>3. OutcomeType'
    <3>1. [action |-> a, socket |-> Carrier(g), result |-> "denied"] \in Outcomes
      BY <1>1 DEF Carrier, ClientType, Tokens, Outcomes
    <3> QED BY <1>1, <1>2, <1>5, <3>1, RequestTells DEF OutcomeType
  <2> QED BY <2>1, <2>2, <2>3 DEF Inv
<1>6. ASSUME NEW a \in Actions, NEW ok \in BOOLEAN, ProcessEnds(a, ok)
      PROVE  Inv'
  <2>1. ClientInv'
    BY <1>1, <1>6, ProcessStep, ExecutorKeepsClient
  <2>2. ExecutorInv'
    BY <1>1, <1>6, ExecutorInductive DEF ExecutorStep
  <2>3. OutcomeType'
    <3>1. [action |-> a, socket |-> Carrier(job[a].generation), result |-> "ended"] \in Outcomes
      BY <1>1 DEF Carrier, ClientType, Tokens, Outcomes
    <3> QED BY <1>1, <1>2, <1>6, <3>1, ProcessStep DEF OutcomeType, Ends, Sends
  <2> QED BY <2>1, <2>2, <2>3 DEF Inv
<1>7. CASE UNCHANGED vars
  <2>1. JobsKept /\ UNCHANGED <<linkVars, beatVars, wireVars, orphans, jobVars, outcome>>
    BY <1>7, SameJobs DEF vars
  <2>2. ClientInv'
    BY <1>1, <2>1, ExecutorKeepsClient
  <2>3. ExecutorInv'
    BY <1>1, <2>1, ExecutorInductive DEF ExecutorStep
  <2> QED BY <1>1, <2>1, <2>2, <2>3 DEF Inv, OutcomeType
<1> QED BY <1>3, <1>4, <1>5, <1>6, <1>7, StepKinds

LEMMA InvImplies == Inv => AgentInv
<1> SUFFICES ASSUME Inv PROVE AgentInv
  OBVIOUS
<1>1. TypeOK
  BY DEF Inv, ClientInv, ExecutorInv, ClientType, ExecutorType, OutcomeType, Outcomes, TypeOK, Tokens
<1>2. OneAtATime
  <2>1. Executor
    BY DEF Inv, ExecutorInv
  <2>2. Cardinality(Busy) <= 1
    <3>1. CASE Busy = {}
      BY <3>1, FS_EmptySet
    <3>2. CASE Busy # {}
      <4>1. PICK a : Busy = {a}
        BY <2>1, <3>2 DEF Executor
      <4> QED BY <4>1, FS_Singleton
    <3> QED BY <3>1, <3>2
  <2> QED BY <2>1, <2>2 DEF Executor, OneAtATime
<1> QED BY <1>1, <1>2 DEF Inv, ClientInv, ExecutorInv, Executor, Connections, AgentInv

LEMMA InvAlways == Spec => []Inv
BY InitInv, NextInv, PTL DEF Spec

\* The Agent runs one action at a time, leaves no process alone past the deadline of its
\* action, and owns every socket it has not given up, for any number of connections and
\* requests.
THEOREM AgentIsSafe == Spec => []AgentInv
BY InvAlways, InvImplies, PTL

\* The step of Conversation for heartbeats and outcomes.
LEMMA ConversationStep ==
    ASSUME Inv, [Next]_vars
    PROVE  [/\ beat' # beat => \/ beat' = (beat + 1) % Modulus /\ IsCurrentSocket(accepted)
                               \/ socket' # socket \/ link'[socket] = "none"
            /\ \A a \in Actions :
                 /\ job'[a].carrier \notin {job[a].carrier, None} => job'[a].carrier = accepted
                 /\ starts'[a] # starts[a] => a \in Busy \/ a \notin seen
                 /\ outcome'.action = a
                      => \/ outcome'.result = "ended" /\ a \in Busy \ Busy' /\ outcome'.socket = job[a].carrier
                         \/ outcome'.result = "denied" /\ a \in seen' /\ outcome'.socket = accepted]_vars
<1> DEFINE BeatStep == beat' # beat => \/ beat' = (beat + 1) % Modulus /\ IsCurrentSocket(accepted)
                                       \/ socket' # socket \/ link'[socket] = "none"
<1> DEFINE CarrierStep == \A a \in Actions :
              job'[a].carrier \notin {job[a].carrier, None} => job'[a].carrier = accepted
<1> DEFINE OutcomeStep == \A a \in Actions :
              outcome'.action = a
                => \/ outcome'.result = "ended" /\ a \in Busy \ Busy' /\ outcome'.socket = job[a].carrier
                   \/ outcome'.result = "denied" /\ a \in seen' /\ outcome'.socket = accepted
<1> DEFINE StartStep == \A a \in Actions : starts'[a] # starts[a] => a \in Busy \/ a \notin seen
<1>1. ClientInv /\ ClientType /\ NewSockets /\ CurrentSocket /\ Beats /\ Carriers /\ ExecutorType
  BY DEF Inv, ClientInv, Connections, ExecutorInv
<1>2. outcome' = NoOutcome => OutcomeStep
  BY AgentAssumption DEF NoOutcome
<1>3. CASE NoOutcomeSent /\ ClientStep
  <2>1. UNCHANGED jobVars
    BY <1>1, <1>3, ClientStepKeeps
  <2>2. CarrierStep /\ StartStep
    BY <2>1 DEF jobVars
  <2>3. ASSUME Connect \/ BeatTimerFires
        PROVE  BeatStep
    BY <2>3 DEF Connect, BeatTimerFires, wireVars
  <2>4. ASSUME Stop
        PROVE  BeatStep
    BY <1>1, <2>4 DEF Stop, Beats
  <2>5. ASSUME NEW g \in Generations, ConnectFails(g) \/ Open(g) \/ BadMessage(g) \/ Accept(g)
        PROVE  BeatStep
    BY <2>5 DEF ConnectFails, Open, BadMessage, Accept, wireVars
  <2>6. ASSUME NEW g \in Generations, Prepared(g)
        PROVE  BeatStep
    BY <1>1, <2>6 DEF Prepared, NewSockets
  <2>7. ASSUME NEW g \in Generations, Close(g)
        PROVE  BeatStep
    BY <1>1, <2>7 DEF Close, Forget, ClientType
  <2>8. ASSUME NEW g \in Generations, NEW ok \in BOOLEAN, Collected(g, ok)
        PROVE  BeatStep
    <3>1. CASE ok /\ Carrier(g) # None
      <4>1. /\ collecting = g /\ beat' = sequence'
            /\ sequence' = IF ok /\ IsCurrent(g) THEN (sequence + 1) % Modulus ELSE sequence
        BY <2>8, <3>1 DEF Collected
      <4>2. running /\ generation = g /\ socket = g /\ link[g] = "open"
        BY <1>1, <3>1, <4>1, HeardCarrier DEF Unheard
      <4>3. accepted = g /\ beat = sequence
        BY <1>1, <4>1, <4>2 DEF Beats
      <4> QED BY <3>1, <4>1, <4>2, <4>3 DEF IsCurrent, IsCurrentSocket
    <3>2. CASE ~(ok /\ Carrier(g) # None)
      BY <2>8, <3>2 DEF Collected
    <3> QED BY <3>1, <3>2
  <2>9. BeatStep
    BY <1>3, <2>3, <2>4, <2>5, <2>6, <2>7, <2>8 DEF ClientStep
  <2> QED BY <1>2, <1>3, <2>2, <2>9 DEF NoOutcomeSent
<1>4. CASE NoOutcomeSent /\ (Tick \/ \E a \in Actions : TimeoutFires(a))
  <2>1. BeatStep /\ CarrierStep
    BY <1>1, <1>4, ClockStep DEF wireVars
  <2>2. StartStep
    BY <1>4 DEF Tick, TimeoutFires
  <2> QED BY <1>2, <1>4, <2>1, <2>2 DEF NoOutcomeSent
<1>5. ASSUME NEW g \in Generations, NEW a \in Actions, NEW left \in 0 .. MaxLeft, NEW allowed \in BOOLEAN,
             Request(g, a, left, allowed)
      PROVE  BeatStep /\ CarrierStep /\ StartStep /\ OutcomeStep
  <2>1. BeatStep
    BY <1>5 DEF Request
  <2>2. CarrierStep
    <3> SUFFICES ASSUME NEW b \in Actions, job'[b].carrier \notin {job[b].carrier, None}
                 PROVE  job'[b].carrier = accepted
      OBVIOUS
    <3>1. b = a /\ accepted = g /\ job'[b].carrier = Carrier(g)
      BY <1>1, <1>5, RequestStarts
    <3>2. ~Unheard(g) /\ Carrier(g) # None
      BY <3>1 DEF Unheard
    <3> QED BY <1>1, <3>1, <3>2, HeardCarrier
  <2>3. StartStep /\ OutcomeStep
    BY <1>1, <1>2, <1>5, RequestTells, HeardCarrier DEF Unheard, Inv
  <2> QED BY <2>1, <2>2, <2>3
<1>6. ASSUME NEW a \in Actions, NEW ok \in BOOLEAN, ProcessEnds(a, ok)
      PROVE  BeatStep /\ CarrierStep /\ StartStep /\ OutcomeStep
  <2>1. BeatStep /\ CarrierStep /\ StartStep /\ a \in Busy
    BY <1>1, <1>6, ProcessStep DEF wireVars
  <2>2. CASE Ends(a) /\ a \notin Busy'
    <3>1. \/ outcome' = NoOutcome
          \/ /\ outcome' = [action |-> a, socket |-> Carrier(job[a].generation), result |-> "ended"]
             /\ Carrier(job[a].generation) # None
      BY <2>2 DEF Ends, Sends
    <3>2. Carrier(job[a].generation) # None => Carrier(job[a].generation) = job[a].carrier
      <4> SUFFICES ASSUME Carrier(job[a].generation) # None
                   PROVE  Carrier(job[a].generation) = job[a].carrier
        OBVIOUS
      <4>1. running /\ job[a].generation = generation /\ generation \in Generations
        BY <1>1 DEF Carrier, IsCurrent, CurrentSocket
      <4>2. ~Unheard(job[a].generation)
        BY <2>1 DEF Unheard
      <4>3. socket = generation /\ link[generation] = "open" /\ Carrier(job[a].generation) = generation
        BY <1>1, <4>1, <4>2, HeardCarrier
      <4> QED BY <1>1, <2>1, <4>1, <4>3 DEF Carriers
    <3> QED BY <1>2, <2>1, <2>2, <3>1, <3>2
  <2> QED BY <1>1, <1>2, <1>6, <2>1, <2>2, ProcessStep
<1>7. CASE UNCHANGED vars
  BY <1>7
<1> QED BY <1>3, <1>4, <1>5, <1>6, <1>7, StepKinds

\* Each connection's heartbeats are numbered without gaps from its acceptance on, and the
\* result of a run goes, as it ends, to the connection that carried its acceptance: a
\* collection or a process that outlives its connection never speaks on the next one.  A
\* denial goes to the connection accepted now, and what was denied is never started later.
THEOREM ConversationsAreKeptApart == Spec => Conversation
<1>1. Inv /\ [Next]_vars => [/\ beat' # beat => \/ beat' = (beat + 1) % Modulus /\ IsCurrentSocket(accepted)
                                                \/ socket' # socket \/ link'[socket] = "none"
            /\ \A a \in Actions :
                 /\ job'[a].carrier \notin {job[a].carrier, None} => job'[a].carrier = accepted
                 /\ starts'[a] # starts[a] => a \in Busy \/ a \notin seen
                 /\ outcome'.action = a
                      => \/ outcome'.result = "ended" /\ a \in Busy \ Busy' /\ outcome'.socket = job[a].carrier
                         \/ outcome'.result = "denied" /\ a \in seen' /\ outcome'.socket = accepted]_vars
  BY ConversationStep
<1> QED BY <1>1, InvAlways, PTL DEF Spec, Conversation
=============================================================================
